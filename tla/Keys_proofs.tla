------------------------------ MODULE Keys_proofs ------------------------------
(***************************************************************************)
(* What is proved of the exchange of a chat's master key (CmkExchange), of the *)
(* recovery phrase and its bundle (Recovery) and of a message and the pages    *)
(* that show it (Reading), as MCKeys composes them.                            *)
(***************************************************************************)
EXTENDS MCKeys, Integers, WellFoundedInduction, TLAPS

USE BoundsAssumption

(***************************************************************************)
(* Least and greatest elements. The order of the naturals is well-founded,  *)
(* so a set of indices has both; MaxOf chooses the greatest.                *)
(***************************************************************************)
LEMMA LeastNatural ==
  ASSUME NEW S \in SUBSET Nat, S # {}
  PROVE  \E x \in S : \A y \in S : x <= y
<1>1. PICK x \in S : \A y \in S : ~(<<y, x>> \in OpToRel(<, Nat))
  BY NatLessThanWellFounded, WFMin
<1>2. \A y \in S : ~(y < x)
  BY <1>1 DEF OpToRel
<1>3. \A y \in S : y \in Nat /\ x \in Nat
  OBVIOUS
<1> QED BY <1>2, <1>3

LEMMA GreatestIndex ==
  ASSUME NEW S \in SUBSET Index, S # {}
  PROVE  /\ MaxOf(S) \in S
         /\ \A y \in S : y <= MaxOf(S)
<1> DEFINE T == {MaxIndex - x : x \in S}
<1>1. MaxIndex \in Nat /\ \A x \in S : x \in Nat /\ x <= MaxIndex
  BY DEF Index
<1>2. T \in SUBSET Nat /\ T # {}
  BY <1>1
<1>3. PICK t \in T : \A u \in T : t <= u
  BY <1>2, LeastNatural
<1>4. PICK m \in S : t = MaxIndex - m
  OBVIOUS
<1>5. \A y \in S : y <= m
  BY <1>1, <1>3, <1>4
<1> QED BY <1>5 DEF MaxOf

(***************************************************************************)
(* Maps from the rotation index to the key. A map that has an entry has one *)
(* at index 0, so every index has a key.                                    *)
(***************************************************************************)
Rooted(M) == At(M) = {} \/ M[0] # None

LEMMA LastOf ==
  ASSUME NEW M \in [Index -> Nat]
  PROVE  /\ Last(M) \in Index /\ 0 \in Index
         /\ At(M) # {} => M[Last(M)] # None /\ \A j \in At(M) : j <= Last(M)
<1>1. 0 \in Index
  BY DEF Index
<1>2. At(M) # {} => MaxOf(At(M)) \in At(M) /\ \A j \in At(M) : j <= MaxOf(At(M))
  BY GreatestIndex DEF At
<1> QED BY <1>1, <1>2 DEF Last, At

LEMMA LookRooted ==
  ASSUME NEW M \in [Index -> Nat], M[0] # None, NEW i \in Index
  PROVE  /\ At(M) # {} /\ {j \in At(M) : j <= i} \in SUBSET Index /\ {j \in At(M) : j <= i} # {}
         /\ Look(M, i) = M[MaxOf({j \in At(M) : j <= i})]
<1>1. 0 \in Index /\ 0 <= i
  BY DEF Index
<1>2. 0 \in {j \in At(M) : j <= i} /\ {j \in At(M) : j <= i} \subseteq Index
  BY <1>1 DEF At, None
<1> QED BY <1>2 DEF Look

LEMMA LookLast ==
  ASSUME NEW M \in [Index -> Nat], M[0] # None
  PROVE  Look(M, Last(M)) = M[Last(M)]
<1>0. 0 \in Index
  BY DEF Index
<1>1. At(M) # {} /\ Last(M) \in Index /\ \A j \in At(M) : j <= Last(M)
  BY <1>0, LastOf DEF At
<1>2. {j \in At(M) : j <= Last(M)} = At(M)
  BY <1>1
<1>3. Look(M, Last(M)) = M[MaxOf(At(M))]
  BY <1>1, <1>2, LookRooted
<1> QED BY <1>1, <1>3 DEF Last

\* A rotation leaves the keys of the indices below its own as they were.
LEMMA AppendedKeeps ==
  ASSUME NEW M \in [Index -> Nat], M[0] # None, NEW i \in Index, i > 0, NEW k \in Nat, k # None
  PROVE  /\ Appended(M, i, k) \in [Index -> Nat] /\ Appended(M, i, k)[0] = M[0]
         /\ At(Appended(M, i, k)) # {}
         /\ Last(Appended(M, i, k)) = i /\ Appended(M, i, k)[i] = k
         /\ \A j \in Index : j < i => Look(Appended(M, i, k), j) = Look(M, j)
<1> DEFINE P == Appended(M, i, k)
<1>0. 0 \in Index /\ \A j \in Index : j \in Nat
  BY DEF Index
<1>1. P \in [Index -> Nat] /\ \A j \in Index : P[j] = IF j = i THEN k ELSE IF j < i THEN M[j] ELSE None
  BY DEF Appended, None
<1> HIDE DEF P
<1>2. P[0] = M[0] /\ P[i] = k
  BY <1>0, <1>1
<1>3. At(P) # {} /\ i \in At(P) /\ \A j \in At(P) : j <= i
  BY <1>0, <1>1, <1>2 DEF At, None
<1>4. Last(P) = i
  <2>1. Last(P) \in Index /\ P[Last(P)] # None /\ \A j \in At(P) : j <= Last(P)
    BY <1>1, <1>3, LastOf
  <2>2. Last(P) \in At(P)
    BY <2>1 DEF At
  <2> QED BY <2>1, <2>2, <1>0, <1>3
<1>5. ASSUME NEW j \in Index, j < i PROVE Look(P, j) = Look(M, j)
  <2>1. {l \in At(P) : l <= j} = {l \in At(M) : l <= j}
    BY <1>0, <1>1, <1>5 DEF At
  <2>2. /\ Look(P, j) = P[MaxOf({l \in At(P) : l <= j})] /\ Look(M, j) = M[MaxOf({l \in At(M) : l <= j})]
        /\ {l \in At(M) : l <= j} \in SUBSET Index /\ {l \in At(M) : l <= j} # {}
    BY <1>1, <1>2, LookRooted
  <2>3. MaxOf({l \in At(M) : l <= j}) \in {l \in At(M) : l <= j}
    BY <2>2, GreatestIndex
  <2>4. P[MaxOf({l \in At(M) : l <= j})] = M[MaxOf({l \in At(M) : l <= j})]
    BY <2>3, <1>0, <1>1, <1>5 DEF At
  <2> QED BY <2>1, <2>2, <2>4
<1> QED BY <1>1, <1>2, <1>3, <1>4, <1>5 DEF P

\* The first entry holds for every index.
LEMMA FirstEntry ==
  ASSUME NEW M \in [Index -> Nat], At(M) = {}, NEW k \in Nat, k # None
  PROVE  /\ Appended(M, 0, k) \in [Index -> Nat] /\ Appended(M, 0, k)[0] = k
         /\ At(Appended(M, 0, k)) # {} /\ Last(Appended(M, 0, k)) = 0 /\ Last(M) = 0
         /\ \A j \in Index : Look(Appended(M, 0, k), j) = k
<1> DEFINE P == Appended(M, 0, k)
<1>0. 0 \in Index /\ \A j \in Index : j \in Nat
  BY DEF Index
<1>1. P \in [Index -> Nat] /\ \A j \in Index : P[j] = IF j = 0 THEN k ELSE None
  BY <1>0 DEF Appended, None
<1> HIDE DEF P
<1>2. At(P) = {0}
  BY <1>0, <1>1 DEF At
<1>3. Last(P) = 0
  <2>1. Last(P) \in Index /\ P[Last(P)] # None
    BY <1>1, <1>2, LastOf
  <2> QED BY <2>1, <1>1
<1>4. ASSUME NEW j \in Index PROVE Look(P, j) = k
  <2>1. /\ Look(P, j) = P[MaxOf({l \in At(P) : l <= j})]
        /\ {l \in At(P) : l <= j} \in SUBSET Index /\ {l \in At(P) : l <= j} # {}
    BY <1>0, <1>1, LookRooted DEF None
  <2>2. MaxOf({l \in At(P) : l <= j}) \in {l \in At(P) : l <= j}
    BY <2>1, GreatestIndex
  <2> QED BY <2>1, <2>2, <1>0, <1>1, <1>2
<1>5. Last(M) = 0
  BY DEF Last
<1> QED BY <1>0, <1>1, <1>2, <1>3, <1>4, <1>5 DEF P

(***************************************************************************)
(* The inductive invariant.                                                 *)
(***************************************************************************)
Events == [e : {"request", "unavailable", "added"}] \cup [e : {"removed"}, by : Devs]

Shape ==
  /\ online \subseteq registered /\ registered \subseteq Devs /\ excused \subseteq Devs
  /\ made \in Nat /\ leaked \subseteq 1..made
  /\ active \in [Devs -> 0..made] /\ map \in [Devs -> [Index -> 0..made]] /\ sk \in [Devs -> [Index -> Nat]]
  /\ cell \in [Devs -> [key : 0..made, from : Devs \cup {None}]]
  /\ backup \in [Users -> [key : 0..made, map : [Index -> 0..made]]]
  /\ msgs \subseteq [by : Devs, idx : Index, key : Nat]
  /\ inbox \in [Devs -> Seq(Events)]

Rotation == {"rotate", "rotated", "mirror", "mirrored"}

\* A function that has a key belongs to a device that has one, and a rotation
\* to a device with a map.
TaskOK(t) ==
  /\ t.dev \in Devs
  /\ t.op \in {"encrypt", "store"} => t.key \in 1..made /\ active[t.dev] # None
  /\ t.op \in {"rotated", "mirrored"} => t.key \in 1..made
  /\ t.op \in {"rotate", "mirror"} => t.seen \in [Index -> Nat] /\ Rooted(t.seen) /\ t.old \in 1..made
  /\ t.op \in Rotation => map[t.dev][0] # None /\ active[t.dev] # None

\* A device with a map or a session key has an active key.
DeviceOK(d) ==
  /\ Rooted(map[d])
  /\ At(map[d]) # {} => active[d] # None
  /\ \A i \in Index : sk[d][i] # None => active[d] # None

BackupOK(u) == Rooted(backup[u].map) /\ (At(backup[u].map) # {} => backup[u].key # None)

\* The key that a device uses for an index, and the one it sends with from now.
KeyFor(d, i) == IF At(map[d]) = {} THEN active[d] ELSE Look(map[d], i)
Current(d) == IF At(map[d]) = {} THEN active[d] ELSE map[d][Last(map[d])]
Removals(q) == \E n \in DOMAIN q : q[n].e = "removed"
Warned(d) == Removals(inbox[d])

\* What holds of a device that is not excused: it can read what it sent; it has
\* no session key but the map's for the index that it sends with; its active
\* key is the map's last, or is about to be; and if its key is known to a
\* removed device, or it has none, a rotation is to come.
Good(d) == d \notin excused =>
  /\ \A m \in msgs : m.by = d => active[d] # None /\ m.key = KeyFor(d, m.idx)
  /\ sk[d][Last(map[d])] \in {None, Current(d)}
  /\ d \in registered =>
       /\ At(map[d]) # {} =>
            \/ active[d] = Current(d)
            \/ \E t \in tasks : t.dev = d /\ t.op \in {"rotated", "mirrored"} /\ t.key = Current(d)
       /\ leaked # {} /\ Current(d) \in leaked \cup {None} =>
            Warned(d) \/ \E t \in tasks : t.dev = d /\ t.op \in {"rotate", "mirror"}

KInv ==
  /\ Shape
  /\ \A t \in tasks : TaskOK(t)
  /\ \A d \in Devs : DeviceOK(d)
  /\ \A u \in Users : BackupOK(u)
  /\ \A d \in Devs : Good(d)

(***************************************************************************)
(* A step leaves most devices alone.                                        *)
(***************************************************************************)
Still(x) ==
  /\ active'[x] = active[x] /\ map'[x] = map[x] /\ sk'[x] = sk[x] /\ leaked' = leaked
  /\ \A m \in msgs' : m.by = x => m \in msgs
  /\ x \in registered' => x \in registered
  /\ \A t \in tasks : t.dev = x /\ t.op \in Rotation => t \in tasks'
  /\ Warned(x) => Warned(x)'
  /\ x \notin excused' => x \notin excused

Kept(t) ==
  /\ t \in tasks /\ (active[t.dev] # None => active'[t.dev] # None)
  /\ map[t.dev][0] # None => map'[t.dev][0] # None

LEMMA StillGood ==
  ASSUME NEW x \in Devs, Good(x), DeviceOK(x), Still(x)
  PROVE  Good(x)' /\ DeviceOK(x)'
<1>1. DeviceOK(x)'
  BY DEF DeviceOK, Still
<1>2. ASSUME x \notin excused' PROVE Good(x)'
  <2>1. /\ KeyFor(x, 0) = KeyFor(x, 0) /\ Current(x)' = Current(x)
        /\ \A i \in Index : KeyFor(x, i)' = KeyFor(x, i)
    BY DEF Still, KeyFor, Current
  <2>2. \A m \in msgs' : m.by = x => active'[x] # None /\ m.key = KeyFor(x, m.idx)'
    BY <1>2 DEF Good, Still, KeyFor
  <2>3. sk'[x][Last(map'[x])] \in {None, Current(x)'}
    BY <1>2, <2>1 DEF Good, Still
  <2>4. ASSUME x \in registered', At(map'[x]) # {}
        PROVE  \/ active'[x] = Current(x)'
               \/ \E t \in tasks' : t.dev = x /\ t.op \in {"rotated", "mirrored"} /\ t.key = Current(x)'
    BY <1>2, <2>1, <2>4 DEF Good, Still, Rotation
  <2>5. ASSUME x \in registered', leaked' # {}, Current(x)' \in leaked' \cup {None}
        PROVE  Warned(x)' \/ \E t \in tasks' : t.dev = x /\ t.op \in {"rotate", "mirror"}
    BY <1>2, <2>1, <2>5 DEF Good, Still, Rotation
  <2> QED BY <2>2, <2>3, <2>4, <2>5 DEF Good
<1>3. x \in excused' => Good(x)'
  BY DEF Good
<1> QED BY <1>1, <1>2, <1>3

LEMMA StepKeeps ==
  ASSUME KInv, Shape', made' >= made, \A u \in Users : BackupOK(u)',
         \A t \in tasks' : TaskOK(t)' \/ Kept(t),
         \A x \in Devs : Still(x) \/ (DeviceOK(x)' /\ Good(x)')
  PROVE  KInv'
<1>1. \A t \in tasks' : TaskOK(t)'
  <2> SUFFICES ASSUME NEW t \in tasks', Kept(t) PROVE TaskOK(t)'
    OBVIOUS
  <2>1. TaskOK(t) /\ made \in Nat /\ made' \in Nat
    BY DEF KInv, Shape, Kept
  <2>2. 1..made \subseteq 1..made'
    BY <2>1
  <2> QED BY <2>1, <2>2 DEF TaskOK, Kept, Rotation
<1>2. \A x \in Devs : DeviceOK(x)' /\ Good(x)'
  BY StillGood DEF KInv
<1> QED BY <1>1, <1>2 DEF KInv

\* What a wrap holds.
LEMMA FetchedKey ==
  ASSUME Shape, NEW d \in Devs PROVE Fetched(d) \in 0..made
  BY DEF Shape, Fetched, None

(***************************************************************************)
(* Events on their way.                                                     *)
(***************************************************************************)
LEMMA QueueKeeps ==
  ASSUME NEW q \in Seq(Events)
  PROVE  /\ \A e \in Events : Append(q, e) \in Seq(Events) /\ (Removals(q) => Removals(Append(q, e)))
         /\ \A e \in Events : e.e = "removed" => Removals(Append(q, e))
         /\ q # <<>> => Head(q) \in Events /\ Tail(q) \in Seq(Events)
         /\ q # <<>> /\ Head(q).e # "removed" /\ Removals(q) => Removals(Tail(q))
<1>1. ASSUME NEW e \in Events PROVE Append(q, e) \in Seq(Events) /\ (Removals(q) => Removals(Append(q, e)))
  BY DEF Removals
<1>2. ASSUME NEW e \in Events, e.e = "removed" PROVE Removals(Append(q, e))
  <2>1. Len(q) + 1 \in DOMAIN Append(q, e) /\ Append(q, e)[Len(q) + 1] = e
    OBVIOUS
  <2> QED BY <2>1, <1>2 DEF Removals
<1>3. q # <<>> => Head(q) \in Events /\ Tail(q) \in Seq(Events)
  OBVIOUS
<1>4. ASSUME q # <<>>, Head(q).e # "removed", Removals(q) PROVE Removals(Tail(q))
  <2>1. PICK n \in DOMAIN q : q[n].e = "removed"
    BY <1>4 DEF Removals
  <2>2. n \in 1..Len(q) /\ n # 1
    BY <1>4, <2>1
  <2>3. n - 1 \in DOMAIN Tail(q) /\ Tail(q)[n - 1] = q[n]
    BY <2>2, <1>4
  <2> QED BY <2>1, <2>3 DEF Removals
<1> QED BY <1>1, <1>2, <1>3, <1>4

LEMMA PushedKeeps ==
  ASSUME Shape, NEW To, NEW e \in Events
  PROVE  /\ Pushed(To, e) \in [Devs -> Seq(Events)]
         /\ \A x \in Devs : Removals(inbox[x]) => Removals(Pushed(To, e)[x])
         /\ \A x \in Devs : x \in To \cap online /\ e.e = "removed" => Removals(Pushed(To, e)[x])
<1>1. \A x \in Devs : Pushed(To, e)[x] = IF x \in To \cap online THEN Append(inbox[x], e) ELSE inbox[x]
  BY DEF Pushed
<1>2. \A x \in Devs : inbox[x] \in Seq(Events)
  BY DEF Shape
<1>3. \A x \in Devs : Pushed(To, e)[x] \in Seq(Events)
  BY <1>1, <1>2, QueueKeeps
<1>4. Pushed(To, e) \in [Devs -> Seq(Events)]
  BY <1>3 DEF Pushed
<1> QED BY <1>1, <1>2, <1>4, QueueKeeps

LEMMA RestKeeps ==
  ASSUME Shape, NEW d \in Devs, inbox[d] # <<>>, Head(inbox[d]).e # "removed"
  PROVE  /\ Rest(d) \in [Devs -> Seq(Events)]
         /\ \A x \in Devs : Removals(inbox[x]) => Removals(Rest(d)[x])
<1>1. inbox \in [Devs -> Seq(Events)]
  BY DEF Shape
<1>2. Tail(inbox[d]) \in Seq(Events) /\ (Removals(inbox[d]) => Removals(Tail(inbox[d])))
  BY <1>1, QueueKeeps
<1>3. Rest(d) = [inbox EXCEPT ![d] = Tail(inbox[d])]
  BY DEF Rest
<1> QED BY <1>1, <1>2, <1>3

(***************************************************************************)
(* Steps that leave every device's keys as they are.                        *)
(***************************************************************************)
LEMMA NoKeyKeeps ==
  ASSUME KInv, UNCHANGED <<active, map, sk, msgs, made, leaked>>,
         registered' = registered, online' \subseteq registered', excused' = excused,
         inbox' \in [Devs -> Seq(Events)], \A x \in Devs : Warned(x) => Warned(x)',
         cell' \in [Devs -> [key : 0..made, from : Devs \cup {None}]],
         backup' \in [Users -> [key : 0..made, map : [Index -> 0..made]]],
         \A u \in Users : BackupOK(u)',
         \A t \in tasks' : t \in tasks \/ TaskOK(t),
         \A t \in tasks : t.op \in Rotation => t \in tasks'
  PROVE  KInv'
<1>1. Shape' /\ made' >= made
  BY DEF KInv, Shape
<1>2. \A x \in Devs : Still(x)
  BY DEF Still
<1>3. \A t \in tasks' : TaskOK(t)'
  BY DEF KInv, TaskOK, Rotation
<1> QED BY <1>1, <1>2, <1>3, StepKeeps

LEMMA ConnectionKeeps ==
  ASSUME KInv, NEW d \in Devs, Disconnect(d) \/ Connect(d) PROVE KInv'
<1>1. /\ UNCHANGED <<active, map, sk, msgs, made, leaked, registered, excused, inbox, cell, backup, tasks>>
      /\ online' \subseteq registered
  BY DEF Disconnect, Connect, device, server, KInv, Shape
<1>2. \A x \in Devs : Warned(x)' <=> Warned(x)
  BY <1>1 DEF Warned
<1>3. \A u \in Users : BackupOK(u)'
  BY <1>1 DEF KInv, BackupOK
<1> QED BY <1>1, <1>2, <1>3, NoKeyKeeps DEF KInv, Shape

LEMMA CooledKeeps ==
  ASSUME KInv, NEW t \in tasks, Cooled(t) PROVE KInv'
<1>1. /\ UNCHANGED <<active, map, sk, msgs, made, leaked, registered, online, excused, inbox, cell, backup>>
      /\ tasks' = tasks \ {t} /\ t.op = "cooling"
  BY DEF Cooled, device, server, Becomes
<1>2. \A x \in Devs : Warned(x)' <=> Warned(x)
  BY <1>1 DEF Warned
<1>3. \A u \in Users : BackupOK(u)'
  BY <1>1 DEF KInv, BackupOK
<1>4. \A s \in tasks : s.op \in Rotation => s \in tasks'
  BY <1>1 DEF Rotation
<1> QED BY <1>1, <1>2, <1>3, <1>4, NoKeyKeeps DEF KInv, Shape

LEMMA AskKeeps ==
  ASSUME KInv, NEW d \in Devs, NEW m \in msgs, Ask(d, m) PROVE KInv'
<1>1. /\ UNCHANGED <<active, map, sk, msgs, made, leaked, registered, online, excused, cell, backup, tasks>>
      /\ inbox' = Pushed(Theirs(d), [e |-> "request"])
  BY DEF Ask, device, server
<1>0. [e |-> "request"] \in Events
  BY DEF Events
<1>2. inbox' \in [Devs -> Seq(Events)] /\ \A x \in Devs : Warned(x) => Warned(x)'
  BY <1>0, <1>1, PushedKeeps DEF Warned, KInv
<1>3. \A u \in Users : BackupOK(u)'
  BY <1>1 DEF KInv, BackupOK
<1> QED BY <1>1, <1>2, <1>3, NoKeyKeeps DEF KInv, Shape

\* Wraps are stored, and backups written, from what a device has.
LEMMA StoredKeeps ==
  ASSUME KInv, NEW t \in tasks, Stored(t) PROVE KInv'
<1>1. /\ UNCHANGED <<active, map, sk, msgs, made, leaked, registered, online, excused, inbox, backup>>
      /\ t.op = "store" /\ t.dev \in registered /\ (cell' = Wrapped(t) \/ cell' = cell)
  BY DEF Stored, device
<1>2. t.key \in 1..made /\ active[t.dev] # None /\ t.dev \in Devs
  BY <1>1 DEF KInv, TaskOK
<1>3. cell' \in [Devs -> [key : 0..made, from : Devs \cup {None}]]
  <2>1. [key |-> t.key, from |-> t.dev] \in [key : 0..made, from : Devs \cup {None}]
    BY <1>2 DEF KInv, Shape
  <2>2. Wrapped(t) \in [Devs -> [key : 0..made, from : Devs \cup {None}]]
    BY <2>1 DEF Wrapped, KInv, Shape
  <2> QED BY <2>2, <1>1 DEF KInv, Shape
<1>4. \A s \in tasks' : s \in tasks \/ TaskOK(s)
  <2>1. Encrypt(t.dev, t.key).dev = t.dev /\ Encrypt(t.dev, t.key).op = "encrypt" /\ Encrypt(t.dev, t.key).key = t.key
    BY DEF Encrypt
  <2>2. TaskOK(Encrypt(t.dev, t.key))
    BY <2>1, <1>2 DEF TaskOK, Rotation
  <2> QED BY <2>2 DEF Stored, Becomes
<1>5. \A s \in tasks : s.op \in Rotation => s \in tasks'
  BY <1>1 DEF Stored, Becomes, Rotation
<1>6. \A x \in Devs : Warned(x)' <=> Warned(x)
  BY <1>1 DEF Warned
<1>7. \A u \in Users : BackupOK(u)'
  BY <1>1 DEF KInv, BackupOK
<1> QED BY <1>1, <1>3, <1>4, <1>5, <1>6, <1>7, NoKeyKeeps DEF KInv, Shape

LEMMA SyncKeeps ==
  ASSUME KInv, NEW d \in Devs, Sync(d) PROVE KInv'
<1>1. /\ UNCHANGED <<active, map, sk, msgs, made, leaked, registered, online, excused, inbox, cell, tasks>>
      /\ \/ backup' = [backup EXCEPT ![User(d)] = [key |-> active[d], map |-> map[d]]]
         \/ backup' = backup
  BY DEF Sync
<1>2. active[d] \in 0..made /\ map[d] \in [Index -> 0..made] /\ DeviceOK(d)
  BY DEF KInv, Shape
<1>3. backup' \in [Users -> [key : 0..made, map : [Index -> 0..made]]]
  <2>1. [key |-> active[d], map |-> map[d]] \in [key : 0..made, map : [Index -> 0..made]]
    BY <1>2
  <2> QED BY <2>1, <1>1 DEF KInv, Shape
<1>4. \A u \in Users : BackupOK(u)'
  <2> SUFFICES ASSUME NEW u \in Users PROVE BackupOK(u)'
    OBVIOUS
  <2>1. backup'[u] = backup[u] \/ backup'[u] = [key |-> active[d], map |-> map[d]]
    BY <1>1 DEF KInv, Shape
  <2>2. \/ backup'[u].key = backup[u].key /\ backup'[u].map = backup[u].map
        \/ backup'[u].key = active[d] /\ backup'[u].map = map[d]
    BY <2>1
  <2> QED BY <2>2, <1>2 DEF KInv, BackupOK, DeviceOK
<1>5. \A x \in Devs : Warned(x)' <=> Warned(x)
  BY <1>1 DEF Warned
<1> QED BY <1>1, <1>3, <1>4, <1>5, NoKeyKeeps DEF KInv, Shape

\* Requests, and what is answered to them.
LEMMA MessageKeeps ==
  ASSUME KInv, NEW d \in Devs, RequestArrives(d) \/ UnavailableArrives(d) \/ AddedArrives(d) PROVE KInv'
<1>1. /\ UNCHANGED <<active, map, sk, msgs, made, leaked, registered, online, excused, cell, backup>>
      /\ inbox[d] # <<>> /\ Head(inbox[d]).e # "removed"
  BY DEF RequestArrives, UnavailableArrives, AddedArrives, device, server, Event
<1>2. tasks' = tasks \/ (active[d] # None /\ tasks' = tasks \cup {Store(d, active[d], FALSE)})
  BY DEF RequestArrives, UnavailableArrives, AddedArrives
<1>3. Rest(d) \in [Devs -> Seq(Events)] /\ \A x \in Devs : Warned(x) => Removals(Rest(d)[x])
  BY <1>1, RestKeeps DEF KInv, Warned
<1>4. inbox' \in [Devs -> Seq(Events)] /\ \A x \in Devs : Warned(x) => Warned(x)'
  <2>1. CASE inbox' = Rest(d)
    BY <2>1, <1>3 DEF Warned
  <2>2. CASE inbox' = [x \in Devs |-> IF x \in Theirs(d) \cap online THEN Append(inbox[x], [e |-> "unavailable"])
                                      ELSE Rest(d)[x]]
    <3>1. [e |-> "unavailable"] \in Events /\ \A x \in Devs : inbox[x] \in Seq(Events)
      BY DEF Events, KInv, Shape
    <3>2. \A x \in Devs : inbox'[x] \in Seq(Events) /\ (Warned(x) => Removals(inbox'[x]))
      BY <2>2, <3>1, <1>3, QueueKeeps DEF Warned
    <3> QED BY <2>2, <3>2 DEF Warned
  <2> QED BY <2>1, <2>2 DEF RequestArrives, UnavailableArrives, AddedArrives
<1>5. \A t \in tasks' : t \in tasks \/ TaskOK(t)
  <2>1. /\ Store(d, active[d], FALSE).dev = d /\ Store(d, active[d], FALSE).op = "store"
        /\ Store(d, active[d], FALSE).key = active[d]
    BY DEF Store
  <2>2. active[d] # None => active[d] \in 1..made
    BY DEF KInv, Shape, None
  <2>3. active[d] # None => TaskOK(Store(d, active[d], FALSE))
    BY <2>1, <2>2 DEF TaskOK, Rotation
  <2> QED BY <1>2, <2>3
<1>6. \A u \in Users : BackupOK(u)'
  BY <1>1 DEF KInv, BackupOK
<1> QED BY <1>1, <1>2, <1>4, <1>5, <1>6, NoKeyKeeps DEF KInv, Shape

(***************************************************************************)
(* Steps that give a device its first key, a session key or a message sent. *)
(***************************************************************************)
LEMMA KeyForLast ==
  ASSUME Shape, NEW d \in Devs, Rooted(map[d])
  PROVE  KeyFor(d, Last(map[d])) = Current(d) /\ Last(map[d]) \in Index
<1>1. map[d] \in [Index -> Nat]
  BY DEF Shape
<1> QED BY <1>1, LookLast, LastOf DEF KeyFor, Current, Rooted

LEMMA OwnGood ==
  ASSUME KInv, NEW d \in Devs, map' = map, leaked' = leaked, registered' = registered, Shape',
         active'[d] = active[d] \/ active[d] = None,
         \/ sk' = sk
         \/ /\ active'[d] # None
            /\ \E i \in Index, k \in Nat : sk' = [sk EXCEPT ![d][i] = k] /\ (d \in excused' \/ k = KeyFor(d, i)'),
         \A m \in msgs' : m.by = d =>
            m \in msgs \/ (active'[d] # None /\ (d \in excused' \/ m.key = KeyFor(d, m.idx)')),
         d \notin excused' => d \notin excused,
         \A t \in tasks : t.dev = d /\ t.op \in Rotation => t \in tasks',
         Warned(d) => Warned(d)'
  PROVE  DeviceOK(d)' /\ Good(d)'
<1>0. DeviceOK(d) /\ Good(d) /\ Shape /\ sk \in [Devs -> [Index -> Nat]] /\ Rooted(map[d])
  BY DEF KInv, Shape, DeviceOK
<1>1. \A i \in Index : \/ sk'[d][i] = sk[d][i]
                       \/ active'[d] # None /\ (d \in excused' \/ sk'[d][i] = KeyFor(d, i)')
  BY <1>0
<1>2. DeviceOK(d)'
  BY <1>0, <1>1 DEF DeviceOK
<1>3. ASSUME d \notin excused' PROVE Good(d)'
  <2>0. d \notin excused
    BY <1>3
  <2>1. active'[d] = active[d] => Current(d)' = Current(d) /\ \A i \in Index : KeyFor(d, i)' = KeyFor(d, i)
    BY DEF Current, KeyFor
  <2>2. KeyFor(d, Last(map[d]))' = Current(d)' /\ Last(map[d]) \in Index
    <3>1. Rooted(map[d])' /\ map[d]' = map[d]
      BY <1>0
    <3>2. map[d] \in [Index -> Nat]
      BY <1>0 DEF Shape
    <3> QED BY <1>0, <3>1, <3>2, LookLast, LastOf DEF KeyFor, Current, Rooted
  <2>3. ASSUME NEW m \in msgs', m.by = d PROVE active'[d] # None /\ m.key = KeyFor(d, m.idx)'
    <3>1. CASE m \in msgs
      <4>1. active[d] # None /\ m.key = KeyFor(d, m.idx) /\ active'[d] = active[d]
        BY <2>0, <2>3, <3>1, <1>0 DEF Good
      <4> QED BY <4>1 DEF KeyFor
    <3> QED BY <3>1, <2>3, <1>3
  <2>4. sk'[d][Last(map[d])] \in {None, Current(d)'}
    <3>1. CASE sk'[d][Last(map[d])] = sk[d][Last(map[d])] /\ active'[d] = active[d]
      BY <3>1, <2>0, <2>1, <1>0 DEF Good
    <3>2. CASE sk'[d][Last(map[d])] = sk[d][Last(map[d])] /\ active[d] = None
      BY <3>2, <2>2, <1>0 DEF DeviceOK
    <3> QED BY <3>1, <3>2, <2>2, <1>1, <1>3
  <2>5. ASSUME d \in registered, At(map[d]) # {}
        PROVE  \/ active'[d] = Current(d)'
               \/ \E t \in tasks' : t.dev = d /\ t.op \in {"rotated", "mirrored"} /\ t.key = Current(d)'
    <3>1. active'[d] = active[d]
      BY <2>5, <1>0 DEF DeviceOK
    <3> QED BY <3>1, <2>0, <2>1, <2>5, <1>0 DEF Good, Rotation
  <2>6. ASSUME d \in registered, leaked # {}, Current(d)' \in leaked \cup {None}
        PROVE  Warned(d)' \/ \E t \in tasks' : t.dev = d /\ t.op \in {"rotate", "mirror"}
    <3>1. CASE active'[d] = active[d]
      BY <3>1, <2>0, <2>1, <2>6, <1>0 DEF Good, Rotation
    <3>2. CASE active[d] = None
      <4>1. At(map[d]) = {} /\ Current(d) = None
        BY <3>2, <1>0 DEF DeviceOK, Current
      <4> QED BY <4>1, <2>0, <2>6, <1>0 DEF Good, Rotation
    <3> QED BY <3>1, <3>2
  <2> QED BY <2>3, <2>4, <2>5, <2>6 DEF Good
<1> QED BY <1>2, <1>3 DEF Good

\* A session key is kept, and perhaps a message sent under it.
LEMMA KeepKeeps ==
  ASSUME KInv, NEW d \in Devs, NEW i \in Index, NEW k \in Nat, Keep(d, i, k), active' = active, active[d] # None,
         UNCHANGED <<map, server, online, inbox, made, leaked>> \/
         (UNCHANGED <<map, registered, cell, backup, online, inbox, made, leaked>> /\
          (msgs' = msgs \/ msgs' = msgs \cup {[by |-> d, idx |-> i, key |-> k]})),
         \A t \in tasks' : t \in tasks, \A t \in tasks : t.op \in Rotation => t \in tasks'
  PROVE  KInv'
<1>1. /\ UNCHANGED <<active, map, registered, cell, backup, online, inbox, made, leaked>>
      /\ msgs' = msgs \/ msgs' = msgs \cup {[by |-> d, idx |-> i, key |-> k]}
  BY DEF server
<1>2. sk' = [sk EXCEPT ![d][i] = k] /\ (excused' = excused \/ excused' = excused \cup {d})
  BY DEF Keep, ExcusedUnless
<1>3. d \in excused' \/ k = KeyFor(d, i)'
  BY <1>1 DEF Keep, ExcusedUnless, KeyFor
<1>4. Shape'
  <2>1. sk' \in [Devs -> [Index -> Nat]]
    BY <1>2 DEF KInv, Shape
  <2>2. msgs' \subseteq [by : Devs, idx : Index, key : Nat]
    BY <1>1 DEF KInv, Shape
  <2> QED BY <2>1, <2>2, <1>1, <1>2 DEF KInv, Shape
<1>5. \A u \in Users : BackupOK(u)'
  BY <1>1 DEF KInv, BackupOK
<1>6. \A x \in Devs : Warned(x)' <=> Warned(x)
  BY <1>1 DEF Warned
<1>7. \A x \in Devs \ {d} : Still(x)
  BY <1>1, <1>2, <1>6 DEF Still, KInv, Shape
<1>8. DeviceOK(d)' /\ Good(d)'
  <2>1. \E j \in Index, l \in Nat : sk' = [sk EXCEPT ![d][j] = l] /\ (d \in excused' \/ l = KeyFor(d, j)')
    BY <1>2, <1>3
  <2>2. \A m \in msgs' : m.by = d =>
          m \in msgs \/ (active'[d] # None /\ (d \in excused' \/ m.key = KeyFor(d, m.idx)'))
    BY <1>1, <1>3
  <2>3. d \notin excused' => d \notin excused
    BY <1>2
  <2> QED BY <1>1, <1>4, <1>6, <2>1, <2>2, <2>3, OwnGood
<1>9. \A t \in tasks' : Kept(t)
  BY <1>1 DEF Kept
<1>10. made' >= made
  BY <1>1 DEF KInv, Shape
<1> QED BY <1>4, <1>5, <1>7, <1>8, <1>9, <1>10, StepKeeps

LEMMA LookType ==
  ASSUME NEW M \in [Index -> Nat], Rooted(M), NEW i \in Index PROVE Look(M, i) \in Nat
<1>1. CASE At(M) = {}
  BY <1>1 DEF Look, None
<1>2. CASE At(M) # {}
  <2>1. M[0] # None
    BY <1>2 DEF Rooted
  <2>2. MaxOf({j \in At(M) : j <= i}) \in Index
    BY <2>1, LookRooted, GreatestIndex
  <2> QED BY <2>1, <2>2, LookRooted
<1> QED BY <1>1, <1>2

LEMMA SessionKeeps ==
  ASSUME KInv, NEW d \in Devs,
         \/ \E m \in msgs : Open(d, m) \/ Edit(d, m)
         \/ \E i \in Index : Pulse(d, i)
         \/ \E t \in tasks : t.dev = d /\ Encrypted(t)
  PROVE  KInv'
<1>0. /\ active[d] \in Nat /\ map[d] \in [Index -> Nat] /\ Rooted(map[d]) /\ Last(map[d]) \in Index
      /\ \A i \in Index : sk[d][i] \in Nat
      /\ \A m \in msgs : m.idx \in Index /\ m.key \in Nat
  <2>1. map[d] \in [Index -> Nat] /\ Rooted(map[d]) /\ active[d] \in Nat
    BY DEF KInv, Shape, DeviceOK
  <2>2. Last(map[d]) \in Index
    BY <2>1, LastOf
  <2>3. \A i \in Index : sk[d][i] \in Nat
    BY DEF KInv, Shape
  <2>4. \A m \in msgs : m.idx \in Index /\ m.key \in Nat
    BY DEF KInv, Shape
  <2> QED BY <2>1, <2>2, <2>3, <2>4
<1>a. ASSUME NEW m \in msgs, Open(d, m) PROVE KInv'
  <2>1. active[d] # None
    BY <1>a DEF Open, Tried
  <2>2. /\ Keep(d, m.idx, m.key) /\ active' = active /\ tasks' = tasks
        /\ UNCHANGED <<map, server, online, inbox, made, leaked>>
    BY <1>a DEF Open
  <2> QED BY <2>1, <2>2, <1>0, KeepKeeps
<1>b. ASSUME NEW m \in msgs, Edit(d, m) PROVE KInv'
  <2>1. PICK k \in Nat : /\ Keep(d, m.idx, k) /\ msgs' = msgs \cup {[by |-> d, idx |-> m.idx, key |-> k]}
                         /\ active[d] # None /\ active' = active /\ tasks' = tasks
                         /\ UNCHANGED <<map, registered, cell, backup, online, inbox, made, leaked>>
    <3>1. Look(map[d], m.idx) \in Nat
      BY <1>0, LookType
    <3> DEFINE k == IF Look(map[d], m.idx) = None THEN active[d] ELSE Look(map[d], m.idx)
    <3>2. k \in Nat
      BY <3>1, <1>0
    <3>3. /\ Keep(d, m.idx, k) /\ msgs' = msgs \cup {[by |-> d, idx |-> m.idx, key |-> k]}
          /\ active[d] # None /\ active' = active /\ tasks' = tasks
          /\ UNCHANGED <<map, registered, cell, backup, online, inbox, made, leaked>>
      BY <1>b DEF Edit
    <3> HIDE DEF k
    <3> QED BY <3>2, <3>3
  <2> QED BY <2>1, <1>0, KeepKeeps
<1>c. ASSUME NEW i \in Index, Pulse(d, i) PROVE KInv'
  <2>1. /\ Keep(d, i, active[d]) /\ active' = active /\ tasks' = tasks /\ active[d] # None
        /\ UNCHANGED <<map, server, online, inbox, made, leaked>>
    BY <1>c DEF Pulse
  <2> QED BY <2>1, <1>0, KeepKeeps
<1>d. ASSUME NEW t \in tasks, t.dev = d, Encrypted(t) PROVE KInv'
  <2>1. t.op = "encrypt" /\ t.key \in Nat /\ active[d] # None
    BY <1>d DEF Encrypted, KInv, TaskOK
  <2> DEFINE i == Last(map[d])
             k == SendKey(d, i, t.key)
  <2>2. k \in Nat
    BY <2>1, <1>0 DEF SendKey
  <2>3. /\ Keep(d, i, k) /\ active' = active /\ tasks' = tasks \ {t}
        /\ msgs' = msgs \/ msgs' = msgs \cup {[by |-> d, idx |-> i, key |-> k]}
        /\ UNCHANGED <<map, registered, cell, backup, online, inbox, made, leaked>>
    BY <1>d DEF Encrypted, Becomes
  <2>4. \A s \in tasks : s.op \in Rotation => s \in tasks'
    BY <2>1, <2>3 DEF Rotation
  <2> HIDE DEF i, k
  <2>5. i \in Index
    BY <1>0 DEF i
  <2> QED BY <2>1, <2>2, <2>3, <2>4, <2>5, KeepKeeps
<1> QED BY <1>a, <1>b, <1>c, <1>d

\* A device takes its first key from a wrap, when it sends, waits or opens.
LEMMA FirstKeyKeeps ==
  ASSUME KInv, NEW d \in Devs, NEW k \in 0..made,
         active' = [active EXCEPT ![d] = k], active[d] = None \/ k = active[d],
         \/ UNCHANGED <<sk, excused>>
         \/ k # None /\ \E i \in Index, l \in Nat : Keep(d, i, l),
         UNCHANGED <<map, server, online, made, leaked>>,
         inbox' \in [Devs -> Seq(Events)], \A x \in Devs : Warned(x) => Warned(x)',
         \A t \in tasks' : t \in tasks \/ TaskOK(t)', \A t \in tasks : t.op \in Rotation => t \in tasks'
  PROVE  KInv'
<1>0. UNCHANGED <<map, registered, cell, msgs, backup, online, made, leaked>>
  BY DEF server
<1>1. active \in [Devs -> 0..made] /\ sk \in [Devs -> [Index -> Nat]] /\ active'[d] = k
  BY DEF KInv, Shape
<1>2. /\ excused' = excused \/ excused' = excused \cup {d}
      /\ sk' = sk \/ \E i \in Index, l \in Nat : sk' = [sk EXCEPT ![d][i] = l]
  BY DEF Keep, ExcusedUnless
<1>3. \/ sk' = sk
      \/ /\ active'[d] # None
         /\ \E i \in Index, l \in Nat : sk' = [sk EXCEPT ![d][i] = l] /\ (d \in excused' \/ l = KeyFor(d, i)')
  <2> SUFFICES ASSUME k # None, NEW i \in Index, NEW l \in Nat, Keep(d, i, l)
               PROVE  sk' = [sk EXCEPT ![d][i] = l] /\ (d \in excused' \/ l = KeyFor(d, i)')
    BY <1>1
  <2> QED BY <1>0 DEF Keep, ExcusedUnless, KeyFor
<1>4. Shape'
  <2>1. ASSUME NEW i \in Index, NEW l \in Nat, sk' = [sk EXCEPT ![d][i] = l] PROVE sk' \in [Devs -> [Index -> Nat]]
    BY <2>1, <1>1
  <2>2. sk' \in [Devs -> [Index -> Nat]]
    <3>1. CASE sk' = sk
      BY <3>1, <1>1
    <3>2. CASE \E i \in Index, l \in Nat : sk' = [sk EXCEPT ![d][i] = l]
      BY <3>2, <2>1
    <3> QED BY <3>1, <3>2, <1>2
  <2> QED BY <2>2, <1>0, <1>1, <1>2 DEF KInv, Shape
<1>5. \A u \in Users : BackupOK(u)'
  BY <1>0 DEF KInv, BackupOK
<1>7. \A x \in Devs \ {d} : Still(x)
  BY <1>0, <1>1, <1>2 DEF Still
<1>8. DeviceOK(d)' /\ Good(d)'
  BY <1>0, <1>1, <1>2, <1>3, <1>4, OwnGood
<1>9. \A t \in tasks' : TaskOK(t)' \/ Kept(t)
  <2>1. \A t \in tasks : t.dev \in Devs
    BY DEF KInv, TaskOK
  <2> QED BY <2>1, <1>0, <1>1 DEF Kept
<1>10. made' >= made
  BY <1>0 DEF KInv, Shape
<1> QED BY <1>4, <1>5, <1>7, <1>8, <1>9, <1>10, StepKeeps

LEMMA TakeKeeps ==
  ASSUME KInv, NEW d \in Devs,
         \/ Send(d)
         \/ \E m \in msgs : OpenByWrap(d, m)
         \/ \E t \in tasks : t.dev = d /\ Waited(t)
  PROVE  KInv'
<1>0. Shape /\ Fetched(d) \in 0..made /\ active[d] \in 0..made /\ inbox \in [Devs -> Seq(Events)]
  BY FetchedKey DEF KInv, Shape
<1>f. PICK f \in 0..made : f = Fetched(d)
  BY <1>0
<1>1. PICK k \in 0..made : k = IF active[d] # None THEN active[d] ELSE f
  BY <1>0
<1>2. active[d] = None \/ k = active[d]
  BY <1>1
<1>3. (k # None => k \in 1..made) /\ (f # None => f \in 1..made)
  BY <1>0 DEF None
<1>a. ASSUME Send(d) PROVE KInv'
  <2>1. /\ active' = [active EXCEPT ![d] = k]
        /\ UNCHANGED <<map, sk, unavailable, server, online, made, heard, leaked, excused>>
    BY <1>a, <1>1, <1>f DEF Send
  <2>2. inbox' = inbox \/ inbox' = Pushed(Theirs(d), [e |-> "request"])
    BY <1>a DEF Send
  <2>3. inbox' \in [Devs -> Seq(Events)] /\ \A x \in Devs : Warned(x) => Warned(x)'
    <3>1. [e |-> "request"] \in Events
      BY DEF Events
    <3> QED BY <2>2, <3>1, <1>0, PushedKeeps DEF Warned
  <2>n. PICK n : n = acts
    OBVIOUS
  <2>4. \/ k # None /\ tasks' = tasks \cup {Encrypt(d, k)}
        \/ tasks' = tasks \cup {[dev |-> d, op |-> "wait"]}
        \/ tasks' = tasks \cup {[dev |-> d, op |-> "create", n |-> n]}
    BY <1>a, <1>1, <1>f, <2>n DEF Send
  <2>5. active'[d] = k /\ made' = made
    BY <2>1, <1>0 DEF KInv, Shape
  <2>6. k # None => TaskOK(Encrypt(d, k))'
    BY <2>5, <1>3 DEF TaskOK, Encrypt, Rotation
  <2>7. TaskOK([dev |-> d, op |-> "wait"])' /\ TaskOK([dev |-> d, op |-> "create", n |-> n])'
    BY DEF TaskOK, Rotation
  <2>8. \A t \in tasks' : t \in tasks \/ TaskOK(t)'
    BY <2>4, <2>6, <2>7 DEF Encrypt
  <2>9. \A t \in tasks : t.op \in Rotation => t \in tasks'
    BY <2>4
  <2> QED BY <2>1, <2>3, <2>8, <2>9, <1>2, FirstKeyKeeps
<1>b. ASSUME NEW m \in msgs, OpenByWrap(d, m) PROVE KInv'
  <2>1. /\ active' = [active EXCEPT ![d] = k] /\ tasks' = tasks /\ inbox' = inbox /\ k # None
        /\ UNCHANGED <<map, server, online, made, leaked>>
    BY <1>b, <1>1, <1>f DEF OpenByWrap
  <2>2. m.idx \in Index /\ m.key \in Nat
    BY DEF KInv, Shape
  <2>3. UNCHANGED <<sk, excused>> \/ \E i \in Index, l \in Nat : Keep(d, i, l)
    BY <1>b, <2>2 DEF OpenByWrap
  <2>4. inbox' \in [Devs -> Seq(Events)] /\ \A x \in Devs : Warned(x) => Warned(x)'
    BY <2>1, <1>0 DEF Warned
  <2> QED BY <2>1, <2>3, <2>4, <1>2, FirstKeyKeeps
<1>c. ASSUME NEW t \in tasks, t.dev = d, Waited(t) PROVE KInv'
  <2>0. t.op = "wait" /\ UNCHANGED <<map, sk, unavailable, server, online, inbox, made, heard, acts, leaked, excused>>
    BY <1>c DEF Waited
  <2>1. inbox' \in [Devs -> Seq(Events)] /\ \A x \in Devs : Warned(x) => Warned(x)'
    BY <2>0, <1>0 DEF Warned
  <2>2. CASE /\ f # None /\ Becomes(t, {Encrypt(d, f)})
             /\ active' = [active EXCEPT ![d] = IF active[d] = None THEN f ELSE active[d]]
    <3>1. active' = [active EXCEPT ![d] = k]
      BY <2>2, <1>1
    <3>2. active'[d] = k /\ made' = made /\ k # None
      BY <3>1, <2>0, <2>2, <1>1 DEF KInv, Shape
    <3>3. TaskOK(Encrypt(d, f))'
      BY <3>2, <2>2, <1>3 DEF TaskOK, Encrypt, Rotation
    <3>4. tasks' = (tasks \ {t}) \cup {Encrypt(d, f)}
      BY <2>2 DEF Becomes
    <3>5. \A s \in tasks : s.op \in Rotation => s \in tasks'
      BY <3>4, <2>0 DEF Rotation
    <3>6. \A s \in tasks' : s \in tasks \/ TaskOK(s)'
      BY <3>3, <3>4 DEF Encrypt
    <3> QED BY <3>1, <3>5, <3>6, <2>0, <2>1, <1>2, FirstKeyKeeps
  <2>3. CASE tasks' = tasks \ {t} /\ active' = active
    <3>1. \A s \in tasks : s.op \in Rotation => s \in tasks'
      BY <2>0, <2>3 DEF Rotation
    <3>2. active' = [active EXCEPT ![d] = active[d]] /\ active[d] \in 0..made
      BY <2>3, <1>0 DEF KInv, Shape
    <3> QED BY <3>1, <3>2, <2>0, <2>1, <2>3, FirstKeyKeeps
  <2> QED BY <1>c, <1>f, <2>2, <2>3 DEF Waited
<1> QED BY <1>a, <1>b, <1>c

\* The types of the server's and the devices' keys when one more key is made.
LEMMA MoreKeys ==
  ASSUME Shape, made' = made + 1
  PROVE  /\ 1..made \subseteq 1..made' /\ 0..made \subseteq 0..made' /\ made' \in 1..made' /\ made' \notin leaked
         /\ active \in [Devs -> 0..made'] /\ map \in [Devs -> [Index -> 0..made']] /\ leaked \subseteq 1..made'
         /\ cell \in [Devs -> [key : 0..made', from : Devs \cup {None}]]
         /\ backup \in [Users -> [key : 0..made', map : [Index -> 0..made']]]
<1>1. made \in Nat /\ made' = made + 1 /\ leaked \subseteq 1..made
  BY DEF Shape
<1>2. 1..made \subseteq 1..made' /\ 0..made \subseteq 0..made' /\ made' \in 1..made' /\ made' \notin leaked
  BY <1>1
<1>3. [Index -> 0..made] \subseteq [Index -> 0..made']
  BY <1>2
<1>4. active \in [Devs -> 0..made'] /\ map \in [Devs -> [Index -> 0..made']]
  BY <1>2, <1>3 DEF Shape
<1>5. [key : 0..made, from : Devs \cup {None}] \subseteq [key : 0..made', from : Devs \cup {None}]
  BY <1>2
<1>6. [key : 0..made, map : [Index -> 0..made]] \subseteq [key : 0..made', map : [Index -> 0..made']]
  BY <1>2, <1>3
<1>7. cell \in [Devs -> [key : 0..made', from : Devs \cup {None}]]
  BY <1>5 DEF Shape
<1>8. backup \in [Users -> [key : 0..made', map : [Index -> 0..made']]]
  BY <1>6 DEF Shape
<1> QED BY <1>1, <1>2, <1>4, <1>7, <1>8

LEMMA CreateKeeps ==
  ASSUME KInv, NEW t \in tasks, Create(t) PROVE KInv'
<1> DEFINE d == t.dev
<1>0. d \in Devs /\ Shape /\ TaskOK(t) /\ t.op = "create"
  BY DEF KInv, TaskOK, Create
<1>1. /\ made' = made + 1 /\ active' = [active EXCEPT ![d] = made']
      /\ UNCHANGED <<map, sk, registered, cell, msgs, backup, online, inbox, leaked>>
      /\ tasks' = (tasks \ {t}) \cup {Store(d, made', TRUE)}
      /\ excused' = IF active[d] = None THEN excused ELSE excused \cup {d}
  BY DEF Create, Becomes, ExcusedUnless, server
<1> HIDE DEF d
<1>2. /\ 1..made \subseteq 1..made' /\ 0..made \subseteq 0..made' /\ made' \in 1..made' /\ made' \notin leaked
      /\ active'[d] = made' /\ \A x \in Devs \ {d} : active'[x] = active[x]
  BY <1>0, <1>1, MoreKeys DEF Shape
<1>3. Shape'
  <2>1. active \in [Devs -> 0..made'] /\ made' \in 0..made'
    BY <1>0, <1>1, <1>2, MoreKeys
  <2>2. active' \in [Devs -> 0..made']
    BY <2>1, <1>1
  <2>3. made' \in Nat
    BY <1>0, <1>1 DEF Shape
  <2>4. /\ map' \in [Devs -> [Index -> 0..made']] /\ leaked' \subseteq 1..made'
        /\ cell' \in [Devs -> [key : 0..made', from : Devs \cup {None}]]
        /\ backup' \in [Users -> [key : 0..made', map : [Index -> 0..made']]]
    BY <1>0, <1>1, MoreKeys
  <2> QED BY <2>2, <2>3, <2>4, <1>0, <1>1 DEF Shape
<1>4. \A u \in Users : BackupOK(u)'
  BY <1>1 DEF KInv, BackupOK
<1>5. \A s \in tasks' : TaskOK(s)' \/ Kept(s)
  <2>0. PICK s : s = Store(d, made', TRUE)
    OBVIOUS
  <2>1. s.dev = d /\ s.op = "store" /\ s.key = made'
    BY <2>0 DEF Store
  <2>2. made' # None
    BY <1>2 DEF None
  <2>3. TaskOK(s)'
    BY <2>1, <2>2, <1>0, <1>2 DEF TaskOK, Rotation
  <2>4. \A r \in tasks : r.dev \in Devs
    BY DEF KInv, TaskOK
  <2>5. \A r \in tasks : active[r.dev] # None => active'[r.dev] # None
    BY <2>2, <2>4, <1>2
  <2> QED BY <2>0, <2>3, <2>5, <1>1 DEF Kept
<1>6. \A x \in Devs : Warned(x)' <=> Warned(x)
  BY <1>1 DEF Warned
<1>7. \A x \in Devs \ {d} : Still(x)
  <2>1. \A s \in tasks : s.op \in Rotation => s \in tasks'
    BY <1>0, <1>1 DEF Rotation
  <2> QED BY <2>1, <1>1, <1>2, <1>6 DEF Still
<1>8. DeviceOK(d)'
  BY <1>0, <1>1, <1>2 DEF KInv, DeviceOK, None
<1>9. ASSUME d \notin excused' PROVE Good(d)'
  <2>1. active[d] = None /\ d \notin excused
    BY <1>1, <1>9
  <2>2. At(map[d]) = {} /\ \A i \in Index : sk[d][i] = None
    BY <2>1, <1>0 DEF KInv, DeviceOK
  <2>3. \A m \in msgs : m.by # d
    BY <2>1, <1>0 DEF KInv, Good
  <2>4. Current(d)' = made' /\ made' # None
    BY <2>2, <1>1, <1>2 DEF Current, None
  <2>5. Last(map[d]) \in Index
    BY <1>0, LastOf DEF Shape
  <2> QED BY <2>2, <2>3, <2>4, <2>5, <1>1, <1>2 DEF Good
<1>10. Good(d)'
  BY <1>9 DEF Good
<1>11. made' >= made
  BY <1>0, <1>1 DEF Shape
<1> QED BY <1>3, <1>4, <1>5, <1>7, <1>8, <1>10, <1>11, StepKeeps

(***************************************************************************)
(* Rotations.                                                               *)
(***************************************************************************)
LEMMA SameKeys ==
  ASSUME NEW d \in Devs, active'[d] = active[d], map'[d] = map[d]
  PROVE  /\ At(map'[d]) = At(map[d]) /\ Last(map'[d]) = Last(map[d]) /\ Rooted(map'[d]) = Rooted(map[d])
         /\ Current(d)' = Current(d)
         /\ \A i \in Index : KeyFor(d, i)' = KeyFor(d, i)
BY DEF Current, KeyFor

\* The map gets its first entry, and a rotation begins.
LEMMA StartKeeps ==
  ASSUME KInv, NEW d \in Devs, active[d] # None, NEW t, t.dev = d, t.op \in {"rotate", "mirror"},
         t.seen = map[d], t.old = active[d], tasks' = tasks \cup {t},
         map' = [map EXCEPT ![d] = IF At(map[d]) = {} THEN Appended(map[d], 0, active[d]) ELSE map[d]],
         UNCHANGED <<active, sk, registered, cell, msgs, backup, online, made, leaked, excused>>,
         inbox' \in [Devs -> Seq(Events)], \A x \in Devs \ {d} : Warned(x) => Warned(x)'
  PROVE  KInv'
<1>0. /\ Shape /\ DeviceOK(d) /\ Good(d) /\ active[d] \in 1..made /\ made \in Nat
      /\ map[d] \in [Index -> Nat] /\ map[d] \in [Index -> 0..made] /\ active[d] \in Nat
  <2>1. Shape /\ DeviceOK(d) /\ Good(d) /\ made \in Nat /\ active[d] \in 0..made /\ map[d] \in [Index -> 0..made]
    BY DEF KInv, Shape
  <2>2. map[d] \in [Index -> Nat] /\ active[d] \in 1..made /\ active[d] \in Nat
    BY <2>1 DEF None
  <2> QED BY <2>1, <2>2
<1>1. /\ map'[d] \in [Index -> 0..made] /\ map'[d][0] # None /\ Rooted(map'[d]) /\ At(map'[d]) # {}
      /\ Last(map'[d]) = Last(map[d])
      /\ \A i \in Index : KeyFor(d, i)' = KeyFor(d, i)
      /\ Current(d)' = Current(d)
  <2>1. CASE At(map[d]) = {}
    <3>1. map'[d] = Appended(map[d], 0, active[d])
      BY <2>1 DEF KInv, Shape
    <3>2. Appended(map[d], 0, active[d]) \in [Index -> 0..made]
      BY <1>0 DEF Appended, None
    <3>3. /\ map'[d][0] = active[d] /\ At(map'[d]) # {} /\ Last(map'[d]) = 0 /\ Last(map[d]) = 0
          /\ \A i \in Index : Look(map'[d], i) = active[d]
      <4>1. LET P == Appended(map[d], 0, active[d])
            IN /\ P[0] = active[d] /\ At(P) # {} /\ Last(P) = 0 /\ Last(map[d]) = 0
               /\ \A i \in Index : Look(P, i) = active[d]
        BY <2>1, <1>0, FirstEntry
      <4> QED BY <4>1, <3>1
    <3>5. \A i \in Index : KeyFor(d, i)' = active[d] /\ KeyFor(d, i) = active[d]
      BY <3>3, <2>1 DEF KeyFor
    <3>6. Current(d)' = active[d] /\ Current(d) = active[d]
      BY <3>3, <2>1 DEF Current
    <3> QED BY <3>1, <3>2, <3>3, <3>5, <3>6 DEF Rooted
  <2>2. CASE At(map[d]) # {}
    <3>1. map'[d] = map[d]
      BY <2>2 DEF KInv, Shape
    <3>2. /\ At(map'[d]) # {} /\ Last(map'[d]) = Last(map[d]) /\ Current(d)' = Current(d)
          /\ \A i \in Index : KeyFor(d, i)' = KeyFor(d, i)
      BY <3>1, <2>2, SameKeys
    <3> QED BY <3>1, <3>2, <2>2, <1>0 DEF Rooted, DeviceOK
  <2> QED BY <2>1, <2>2
<1>2. Shape'
  <2>1. map' \in [Devs -> [Index -> 0..made]]
    BY <1>0, <1>1 DEF Shape
  <2> QED BY <2>1, <1>0 DEF Shape
<1>3. \A u \in Users : BackupOK(u)'
  BY DEF KInv, BackupOK
<1>4. TaskOK(t)'
  BY <1>0, <1>1 DEF TaskOK, Rotation, DeviceOK
<1>5. \A x \in Devs \ {d} : map'[x] = map[x]
  BY <1>0 DEF Shape
<1>6. \A s \in tasks' : TaskOK(s)' \/ Kept(s)
  <2>1. \A s \in tasks : s.dev \in Devs
    BY DEF KInv, TaskOK
  <2>2. \A s \in tasks : Kept(s)
    BY <2>1, <1>1, <1>5 DEF Kept
  <2> QED BY <2>2, <1>4
<1>7. \A x \in Devs \ {d} : Still(x)
  BY <1>5 DEF Still
<1>8. DeviceOK(d)'
  BY <1>0, <1>1 DEF DeviceOK
<1>9. Good(d)'
  <2> SUFFICES ASSUME d \notin excused PROVE Good(d)'
    BY DEF Good
  <2>1. \A m \in msgs : m.by = d => active[d] # None /\ m.key = KeyFor(d, m.idx)'
    BY <1>0, <1>1 DEF Good, Shape
  <2>2. sk[d][Last(map'[d])] \in {None, Current(d)'}
    BY <1>0, <1>1 DEF Good
  <2>3. d \in registered => active[d] = Current(d)' \/
          \E s \in tasks' : s.dev = d /\ s.op \in {"rotated", "mirrored"} /\ s.key = Current(d)'
    <3>1. At(map[d]) = {} => active[d] = Current(d)
      BY DEF Current
    <3> QED BY <3>1, <1>0, <1>1 DEF Good
  <2>4. \E s \in tasks' : s.dev = d /\ s.op \in {"rotate", "mirror"}
    OBVIOUS
  <2> QED BY <2>1, <2>2, <2>3, <2>4 DEF Good
<1>10. made' >= made
  BY <1>0
<1> QED BY <1>2, <1>3, <1>6, <1>7, <1>8, <1>9, <1>10, StepKeeps

LEMMA ThresholdKeeps ==
  ASSUME KInv, NEW d \in Devs, Threshold(d) PROVE KInv'
<1>1. PICK t : t = [dev |-> d, op |-> "rotate", seen |-> map[d], old |-> active[d], tell |-> FALSE]
  OBVIOUS
<1>2. /\ active[d] # None /\ tasks' = tasks \cup {t}
      /\ map' = [map EXCEPT ![d] = IF At(map[d]) = {} THEN Appended(map[d], 0, active[d]) ELSE map[d]]
      /\ UNCHANGED <<active, sk, registered, cell, msgs, backup, online, made, leaked, excused, inbox>>
  BY <1>1 DEF Threshold, server
<1>3. inbox' \in [Devs -> Seq(Events)] /\ \A x \in Devs \ {d} : Warned(x) => Warned(x)'
  BY <1>2 DEF KInv, Shape, Warned
<1>4. t.dev = d /\ t.op \in {"rotate", "mirror"} /\ t.seen = map[d] /\ t.old = active[d]
  BY <1>1
<1> QED BY <1>2, <1>3, <1>4, StartKeeps

LEMMA RemovedArrivesKeeps ==
  ASSUME KInv, NEW d \in Devs, RemovedArrives(d) PROVE KInv'
<1>0. Shape /\ inbox \in [Devs -> Seq(Events)] /\ inbox[d] # <<>> /\ map \in [Devs -> [Index -> 0..made]]
  BY DEF KInv, Shape, RemovedArrives, Event
<1>1. /\ UNCHANGED <<active, sk, registered, cell, msgs, backup, online, made, leaked>>
      /\ inbox' = [inbox EXCEPT ![d] = Tail(inbox[d])]
  BY DEF RemovedArrives, Rest, server
<1>2. inbox' \in [Devs -> Seq(Events)] /\ \A x \in Devs \ {d} : Warned(x) => Warned(x)'
  <2>1. Tail(inbox[d]) \in Seq(Events)
    BY <1>0
  <2> QED BY <2>1, <1>0, <1>1 DEF Warned
<1>3. PICK does \in BOOLEAN : does = (active[d] # None /\ (Head(inbox[d]).by = d \/ (Head(inbox[d]).by \in Theirs(d) /\ ~Mirrors(d))))
  OBVIOUS
<1>4. PICK t : t = [dev |-> d, op |-> IF Head(inbox[d]).by = d THEN "rotate" ELSE "mirror", seen |-> map[d],
                    old |-> active[d], tell |-> Head(inbox[d]).by = d]
  OBVIOUS
<1>5. /\ tasks' = tasks \cup (IF ~does THEN {} ELSE {t})
      /\ map' = [map EXCEPT ![d] = IF does /\ At(map[d]) = {} THEN Appended(map[d], 0, active[d]) ELSE map[d]]
      /\ excused' = IF does THEN excused ELSE excused \cup {d}
  BY <1>3, <1>4 DEF RemovedArrives, ExcusedUnless
<1>6. CASE does
  <2>1. t.dev = d /\ t.op \in {"rotate", "mirror"} /\ t.seen = map[d] /\ t.old = active[d]
    BY <1>4
  <2>2. active[d] # None
    BY <1>3, <1>6
  <2> QED BY <2>1, <2>2, <1>1, <1>2, <1>5, <1>6, StartKeeps
<1>7. CASE ~does
  <2>1. map' = map /\ tasks' = tasks /\ excused' = excused \cup {d}
    BY <1>0, <1>5, <1>7
  <2>2. Shape' /\ made' >= made
    <3>1. UNCHANGED <<active, map, sk, registered, cell, msgs, backup, online, made, leaked>>
      BY <2>1, <1>1
    <3>2. Shape'
      BY <3>1, <2>1, <1>0, <1>2 DEF Shape
    <3>3. made' = made /\ made \in Nat
      BY <3>1, <1>0 DEF Shape
    <3> QED BY <3>2, <3>3
  <2>3. \A u \in Users : BackupOK(u)'
    BY <1>1 DEF KInv, BackupOK
  <2>4. \A x \in Devs \ {d} : Still(x)
    BY <2>1, <1>1, <1>2 DEF Still
  <2>5. DeviceOK(d)' /\ Good(d)'
    BY <2>1, <1>1 DEF KInv, DeviceOK, Good
  <2>6. \A s \in tasks' : Kept(s)
    BY <2>1, <1>1 DEF Kept
  <2> QED BY <2>2, <2>3, <2>4, <2>5, <2>6, StepKeeps
<1> QED BY <1>6, <1>7

\* The index of a rotation is above those of all messages the device has sent.
LEMMA NextAbove ==
  ASSUME Shape, NEW d \in Devs, NEW M \in [Index -> Nat], NextIndex(d, M) <= MaxIndex
  PROVE  /\ NextIndex(d, M) \in Index /\ NextIndex(d, M) > 0
         /\ \A m \in msgs : m.by = d => m.idx < NextIndex(d, M)
<1> DEFINE S == {m.idx : m \in {x \in msgs : x.by \in Own(d)}}
<1>1. S \in SUBSET Index /\ 0 \in Index /\ MaxIndex \in Nat /\ \A i \in Index : i \in Nat
  BY DEF Shape, Index
<1>2. ServerMax(d) = IF S = {} THEN 0 ELSE MaxOf(S)
  BY DEF ServerMax
<1> HIDE DEF S
<1>3. ServerMax(d) \in Index /\ \A i \in S : i <= ServerMax(d)
  BY <1>1, <1>2, GreatestIndex
<1>4. d \in Own(d)
  BY DEF Own, Of, User, Devs
<1>5. \A m \in msgs : m.by = d => m.idx \in S
  BY <1>4 DEF S
<1>6. Last(M) \in Index
  BY LastOf
<1>7. /\ MaxOf({ServerMax(d), Last(M)}) \in Index
      /\ ServerMax(d) <= MaxOf({ServerMax(d), Last(M)})
  <2>1. {ServerMax(d), Last(M)} \in SUBSET Index
    BY <1>3, <1>6
  <2>2. /\ MaxOf({ServerMax(d), Last(M)}) \in {ServerMax(d), Last(M)}
        /\ \A y \in {ServerMax(d), Last(M)} : y <= MaxOf({ServerMax(d), Last(M)})
    BY <2>1, GreatestIndex
  <2> QED BY <2>1, <2>2
<1>8. PICK n \in Nat : n = MaxOf({ServerMax(d), Last(M)}) /\ NextIndex(d, M) = n + 1
  BY <1>1, <1>7 DEF NextIndex
<1>9. n + 1 \in Index
  BY <1>1, <1>8 DEF Index
<1>10. \A m \in msgs : m.by = d => m.idx \in Index /\ m.idx <= n
  <2>1. \A m \in msgs : m.by = d => m.idx \in Index /\ m.idx <= ServerMax(d)
    BY <1>1, <1>3, <1>5
  <2> QED BY <2>1, <1>1, <1>3, <1>7, <1>8
<1> QED BY <1>1, <1>8, <1>9, <1>10

\* A rotation, the device's own or a mirrored one, enters a key into the map.
LEMMA EnterKeeps ==
  ASSUME KInv, NEW t \in tasks, t.op \in {"rotate", "mirror"},
         NEW i \in Index, i > 0, \A m \in msgs : m.by = t.dev => m.idx < i,
         NEW k \in Nat, k # None, k \in 1..made',
         made' = made \/ made' = made + 1,
         NEW s, s.dev = t.dev, s.op \in {"rotated", "mirrored"}, s.key = k, tasks' = (tasks \ {t}) \cup {s},
         map' = [map EXCEPT ![t.dev] = Appended(map[t.dev], i, k)],
         excused' = excused \/ excused' = excused \cup {t.dev},
         t.dev \notin excused' => sk[t.dev][i] \in {None, k} /\ k \notin leaked,
         UNCHANGED <<active, sk, registered, cell, msgs, backup, online, inbox, leaked>>
  PROVE  KInv'
<1> DEFINE d == t.dev
<1>0. /\ d \in Devs /\ Shape /\ map[d][0] # None /\ active[d] # None /\ Good(d)
      /\ map[d] \in [Index -> Nat] /\ map[d] \in [Index -> 0..made] /\ made \in Nat
  <2>1. TaskOK(t) /\ d \in Devs
    BY DEF KInv, TaskOK
  <2>2. Shape /\ Good(d)
    BY <2>1 DEF KInv
  <2>3. map[d] \in [Index -> 0..made] /\ made \in Nat
    BY <2>1, <2>2 DEF Shape
  <2> QED BY <2>1, <2>2, <2>3 DEF TaskOK, Rotation
<1> HIDE DEF d
<1>k. /\ 1..made \subseteq 1..made' /\ 0..made \subseteq 0..made' /\ made' \in Nat /\ made' >= made
      /\ active \in [Devs -> 0..made'] /\ map \in [Devs -> [Index -> 0..made']] /\ leaked \subseteq 1..made'
      /\ cell \in [Devs -> [key : 0..made', from : Devs \cup {None}]]
      /\ backup \in [Users -> [key : 0..made', map : [Index -> 0..made']]]
  <2>1. CASE made' = made
    BY <2>1, <1>0 DEF Shape
  <2>2. CASE made' = made + 1
    <3>1. made' \in Nat /\ made' >= made
      BY <2>2, <1>0
    <3> QED BY <2>2, <3>1, <1>0, MoreKeys
  <2> QED BY <2>1, <2>2
<1>1. map'[d] = Appended(map[d], i, k) /\ \A x \in Devs \ {d} : map'[x] = map[x]
  BY <1>0 DEF Shape, d
<1>2. /\ map'[d][0] = map[d][0] /\ At(map'[d]) # {} /\ Last(map'[d]) = i /\ map'[d][i] = k
      /\ \A j \in Index : j < i => Look(map'[d], j) = Look(map[d], j)
  BY <1>0, <1>1, AppendedKeeps
<1>3. Shape'
  <2>1. Appended(map[d], i, k) \in [Index -> 0..made']
    <3>1. \A j \in Index : map[d][j] \in 0..made'
      BY <1>0, <1>k
    <3>2. k \in 0..made' /\ None \in 0..made'
      BY <1>k DEF None
    <3> QED BY <3>1, <3>2 DEF Appended
  <2>2. map' \in [Devs -> [Index -> 0..made']]
    BY <2>1, <1>k DEF d
  <2>3. excused' \subseteq Devs
    BY <1>0 DEF Shape, d
  <2> QED BY <2>2, <2>3, <1>0, <1>k DEF Shape
<1>4. \A u \in Users : BackupOK(u)'
  BY DEF KInv, BackupOK
<1>5. \A x \in Devs : Warned(x)' <=> Warned(x)
  BY DEF Warned
<1>6. \A x \in Devs \ {d} : Still(x)
  <2>1. \A x \in Devs \ {d}, r \in tasks : r.dev = x => r \in tasks'
    BY DEF d
  <2>2. \A x \in Devs \ {d} : x \notin excused' => x \notin excused
    OBVIOUS
  <2> QED BY <2>1, <2>2, <1>1, <1>5 DEF Still
<1>7. \A r \in tasks' : TaskOK(r)' \/ Kept(r)
  <2>1. TaskOK(s)'
    <3>1. s.dev = d /\ s.key \in 1..made' /\ map'[d][0] # None /\ active'[d] # None
      BY <1>0, <1>2 DEF d
    <3> QED BY <3>1, <1>0 DEF TaskOK, Rotation
  <2>2. \A r \in tasks : r.dev \in Devs
    BY DEF KInv, TaskOK
  <2>3. \A r \in tasks : map[r.dev][0] # None => map'[r.dev][0] # None
    BY <2>2, <1>0, <1>1, <1>2
  <2> QED BY <2>1, <2>3 DEF Kept
<1>8. DeviceOK(d)'
  <2>1. Rooted(map'[d])
    BY <1>0, <1>2 DEF Rooted
  <2> QED BY <2>1, <1>0 DEF DeviceOK
<1>9. ASSUME d \notin excused' PROVE Good(d)'
  <2>0. d \notin excused /\ sk[d][i] \in {None, k} /\ k \notin leaked
    BY <1>9 DEF d
  <2>1. Current(d)' = k /\ At(map[d]) # {}
    <3>1. At(map[d]) # {}
      BY <1>0 DEF At, Index
    <3> QED BY <3>1, <1>2 DEF Current
  <2>2. ASSUME NEW m \in msgs, m.by = d PROVE m.key = KeyFor(d, m.idx)'
    <3>1. m.idx \in Index /\ m.idx < i
      BY <2>2, <1>0 DEF Shape, d
    <3>2. m.key = Look(map[d], m.idx)
      BY <2>0, <2>1, <2>2, <1>0 DEF Good, KeyFor
    <3> QED BY <3>1, <3>2, <1>2 DEF KeyFor
  <2>3. sk'[d][Last(map'[d])] \in {None, Current(d)'}
    BY <2>0, <2>1, <1>2
  <2>4. \E r \in tasks' : r.dev = d /\ r.op \in {"rotated", "mirrored"} /\ r.key = Current(d)'
    BY <2>1 DEF d
  <2>5. Current(d)' \notin leaked' \cup {None}
    BY <2>0, <2>1
  <2> QED BY <2>2, <2>3, <2>4, <2>5, <1>0 DEF Good
<1>10. Good(d)'
  BY <1>9 DEF Good
<1> QED BY <1>3, <1>4, <1>6, <1>7, <1>8, <1>10, <1>k, StepKeeps

LEMMA RotateKeeps ==
  ASSUME KInv, NEW t \in tasks, Rotate(t) PROVE KInv'
<1>0. Shape /\ made \in Nat /\ t.op = "rotate" /\ t.dev \in Devs /\ made' = made + 1
  BY DEF KInv, Shape, Rotate, TaskOK
<1>1. TaskOK(t) /\ t.seen \in [Index -> Nat] /\ Rooted(t.seen) /\ t.old \in 1..made
  BY <1>0 DEF KInv, TaskOK
<1> DEFINE M == IF At(t.seen) = {} THEN Appended(t.seen, 0, t.old) ELSE t.seen
<1>2. M \in [Index -> Nat]
  BY <1>1, FirstEntry DEF None
<1>3. PICK i : i = NextIndex(t.dev, M) /\ i <= MaxIndex /\ Entered(t.dev, i, made')
  BY DEF Rotate
<1> HIDE DEF M
<1>4. i \in Index /\ i > 0 /\ \A m \in msgs : m.by = t.dev => m.idx < i
  BY <1>0, <1>2, <1>3, NextAbove
<1>5. PICK k : k = made'
  OBVIOUS
<1>6. k \in Nat /\ k # None /\ k \in 1..made' /\ k \notin leaked
  BY <1>0, <1>5, MoreKeys DEF None, Shape
<1>7. PICK s : s = [dev |-> t.dev, op |-> "rotated", key |-> k, tell |-> t.tell]
  OBVIOUS
<1>8. /\ s.dev = t.dev /\ s.op \in {"rotated", "mirrored"} /\ s.key = k
      /\ tasks' = (tasks \ {t}) \cup {s}
  BY <1>5, <1>7 DEF Rotate, Becomes
<1>9. /\ map' = [map EXCEPT ![t.dev] = Appended(map[t.dev], i, k)]
      /\ excused' = excused \/ excused' = excused \cup {t.dev}
      /\ t.dev \notin excused' => sk[t.dev][i] \in {None, k} /\ k \notin leaked
  BY <1>3, <1>5 DEF Entered, ExcusedUnless
<1>10. UNCHANGED <<active, sk, registered, cell, msgs, backup, online, inbox, leaked>>
  BY DEF Rotate, server
<1> QED BY <1>0, <1>4, <1>6, <1>8, <1>9, <1>10, EnterKeeps

LEMMA MirrorKeeps ==
  ASSUME KInv, NEW t \in tasks, Mirror(t) PROVE KInv'
<1>0. Shape /\ made \in Nat /\ t.op = "mirror" /\ t.dev \in Devs /\ map[t.dev] \in [Index -> Nat]
  <2>1. Shape /\ t.op = "mirror" /\ t.dev \in Devs
    BY DEF KInv, Mirror, TaskOK
  <2> QED BY <2>1 DEF Shape
<1>1. UNCHANGED <<active, sk, registered, cell, msgs, backup, online, inbox, leaked, made>>
  BY DEF Mirror, server
<1>2. PICK k \in 0..made : k = Fetched(t.dev)
  BY <1>0, FetchedKey
<1>3. PICK i : i = NextIndex(t.dev, map[t.dev])
  OBVIOUS
<1>4. CASE /\ IsNew(t, k) /\ i <= MaxIndex /\ Entered(t.dev, i, k)
           /\ Becomes(t, {[dev |-> t.dev, op |-> "mirrored", key |-> k]})
  <2>1. i \in Index /\ i > 0 /\ \A m \in msgs : m.by = t.dev => m.idx < i
    BY <1>0, <1>3, <1>4, NextAbove
  <2>2. k \in Nat /\ k # None /\ k \in 1..made'
    BY <1>0, <1>1, <1>4 DEF IsNew, None
  <2>3. PICK s : s = [dev |-> t.dev, op |-> "mirrored", key |-> k]
    OBVIOUS
  <2>4. /\ s.dev = t.dev /\ s.op \in {"rotated", "mirrored"} /\ s.key = k
        /\ tasks' = (tasks \ {t}) \cup {s}
    BY <2>3, <1>4 DEF Becomes
  <2>5. /\ map' = [map EXCEPT ![t.dev] = Appended(map[t.dev], i, k)]
        /\ excused' = excused \/ excused' = excused \cup {t.dev}
        /\ t.dev \notin excused' => sk[t.dev][i] \in {None, k} /\ k \notin leaked
    BY <1>4 DEF Entered, ExcusedUnless
  <2> QED BY <1>0, <1>1, <2>1, <2>2, <2>4, <2>5, EnterKeeps
<1>5. CASE tasks' = tasks \ {t} /\ map' = map /\ ExcusedUnless(t.dev, FALSE)
  <2>0. excused' = excused \cup {t.dev}
    BY <1>5 DEF ExcusedUnless
  <2>1. Shape'
    BY <1>0, <1>1, <1>5, <2>0 DEF Shape
  <2>2. made' >= made
    BY <1>0, <1>1
  <2>3. \A u \in Users : BackupOK(u)'
    BY <1>1 DEF KInv, BackupOK
  <2>4. \A x \in Devs : Warned(x)' <=> Warned(x)
    BY <1>1 DEF Warned
  <2>5. \A x \in Devs \ {t.dev} : Still(x)
    BY <2>0, <2>4, <1>1, <1>5 DEF Still
  <2>6. DeviceOK(t.dev)' /\ Good(t.dev)'
    BY <2>0, <1>0, <1>1, <1>5 DEF KInv, DeviceOK, Good
  <2>7. \A s \in tasks' : Kept(s)
    BY <1>1, <1>5 DEF Kept
  <2> QED BY <2>1, <2>2, <2>3, <2>5, <2>6, <2>7, StepKeeps
<1> QED BY <1>2, <1>3, <1>4, <1>5 DEF Mirror

LEMMA ImportedKeeps ==
  ASSUME KInv, NEW t \in tasks, Imported(t) PROVE KInv'
<1> DEFINE d == t.dev
<1>0. /\ d \in Devs /\ Shape /\ made \in Nat /\ map[d][0] # None /\ active[d] # None /\ t.key \in 1..made
      /\ t.op \in {"rotated", "mirrored"}
  <2>1. TaskOK(t) /\ d \in Devs /\ Shape /\ t.op \in {"rotated", "mirrored"}
    BY DEF KInv, TaskOK, Imported
  <2> QED BY <2>1 DEF TaskOK, Rotation, Shape
<1>1. /\ active' = [active EXCEPT ![d] = t.key]
      /\ UNCHANGED <<map, sk, registered, cell, msgs, backup, online, inbox, made, leaked>>
      /\ excused' = IF t.key = map[d][Last(map[d])] THEN excused ELSE excused \cup {d}
  BY DEF Imported, ExcusedUnless, server
<1>2. PICK s : s = Store(d, t.key, FALSE)
  OBVIOUS
<1>3. PICK c : c = [dev |-> d, op |-> "cooling"]
  OBVIOUS
<1>4. \/ tasks' = (tasks \ {t}) \cup {c}
      \/ tasks' = (tasks \ {t}) \cup {s}
      \/ tasks' = (tasks \ {t}) \cup {}
  BY <1>2, <1>3 DEF Imported, Becomes
<1> HIDE DEF d
<1>5. active'[d] = t.key /\ t.key # None /\ \A x \in Devs \ {d} : active'[x] = active[x]
  BY <1>0, <1>1 DEF Shape, None
<1>6. Shape'
  <2>1. active' \in [Devs -> 0..made']
    BY <1>0, <1>1 DEF Shape
  <2> QED BY <2>1, <1>0, <1>1 DEF Shape
<1>7. \A u \in Users : BackupOK(u)'
  BY <1>1 DEF KInv, BackupOK
<1>8. \A x \in Devs : Warned(x)' <=> Warned(x)
  BY <1>1 DEF Warned
<1>9. \A r \in tasks : r # t => r \in tasks'
  BY <1>4
<1>10. \A x \in Devs \ {d} : Still(x)
  BY <1>1, <1>5, <1>8, <1>9 DEF Still, d
<1>11. \A r \in tasks' : TaskOK(r)' \/ Kept(r)
  <2>1. TaskOK(c)'
    BY <1>0, <1>3 DEF TaskOK, Rotation
  <2>2. TaskOK(s)'
    <3>1. s.dev = d /\ s.op = "store" /\ s.key = t.key
      BY <1>2 DEF Store
    <3>2. s.key \in 1..made' /\ active'[s.dev] # None
      BY <3>1, <1>0, <1>1, <1>5
    <3> QED BY <3>1, <3>2, <1>0 DEF TaskOK, Rotation
  <2>3. \A r \in tasks : r.dev \in Devs
    BY DEF KInv, TaskOK
  <2>4. \A r \in tasks : Kept(r)
    BY <2>3, <1>1, <1>5 DEF Kept
  <2> QED BY <2>1, <2>2, <2>4, <1>4
<1>12. DeviceOK(d)'
  BY <1>0, <1>1, <1>5 DEF KInv, DeviceOK
<1>13. ASSUME d \notin excused' PROVE Good(d)'
  <2>0. d \notin excused /\ t.key = map[d][Last(map[d])] /\ Good(d)
    BY <1>0, <1>1, <1>13 DEF KInv
  <2>1. At(map[d]) # {}
    BY <1>0 DEF At, Index
  <2>2. Current(d)' = Current(d) /\ Current(d) = t.key /\ \A j \in Index : KeyFor(d, j)' = KeyFor(d, j)
    BY <2>0, <2>1, <1>1 DEF Current, KeyFor
  <2>3. \A m \in msgs : m.by = d => m.key = KeyFor(d, m.idx)'
    BY <2>0, <2>2, <1>0 DEF Good, Shape
  <2>4. \A r \in tasks : r.op \in {"rotate", "mirror"} => r \in tasks'
    BY <1>0, <1>9
  <2>5. sk'[d][Last(map'[d])] \in {None, Current(d)'}
    BY <2>0, <2>2, <1>1 DEF Good
  <2>6. active'[d] = Current(d)' /\ active'[d] # None
    BY <2>2, <1>5
  <2>7. ASSUME d \in registered', leaked' # {}, Current(d)' \in leaked' \cup {None}
        PROVE  Warned(d)' \/ \E r \in tasks' : r.dev = d /\ r.op \in {"rotate", "mirror"}
    <3>1. Warned(d) \/ \E r \in tasks : r.dev = d /\ r.op \in {"rotate", "mirror"}
      BY <2>0, <2>2, <2>7, <1>1 DEF Good
    <3> QED BY <3>1, <2>4, <1>0, <1>8
  <2> QED BY <2>3, <2>5, <2>6, <2>7, <1>1 DEF Good
<1>14. Good(d)'
  BY <1>13 DEF Good
<1>15. made' >= made
  BY <1>0, <1>1
<1> QED BY <1>6, <1>7, <1>10, <1>11, <1>12, <1>14, <1>15, StepKeeps

(***************************************************************************)
(* Devices that come, go and start anew.                                    *)
(***************************************************************************)
LEMMA AddKeeps ==
  ASSUME KInv, NEW d \in Devs, Add(d) PROVE KInv'
<1>0. /\ Shape /\ DeviceOK(d) /\ Good(d) /\ active[d] = None
      /\ UNCHANGED <<active, map, sk, cell, msgs, backup, tasks, made, leaked>>
      /\ registered' = registered \cup {d} /\ online' = online \cup {d}
      /\ inbox' = Pushed(Told(d), [e |-> "added"])
      /\ excused' = IF leaked = {} THEN excused ELSE excused \cup {d}
  BY DEF KInv, Add, device, ExcusedUnless
<1>1. inbox' \in [Devs -> Seq(Events)] /\ \A x \in Devs : Warned(x) => Warned(x)'
  <2>1. [e |-> "added"] \in Events
    BY DEF Events
  <2> QED BY <2>1, <1>0, PushedKeeps DEF Warned
<1>2. Shape'
  BY <1>0, <1>1 DEF Shape
<1>3. \A u \in Users : BackupOK(u)'
  BY <1>0 DEF KInv, BackupOK
<1>4. \A x \in Devs \ {d} : Still(x)
  BY <1>0, <1>1 DEF Still
<1>5. DeviceOK(d)'
  BY <1>0 DEF DeviceOK
<1>6. ASSUME d \notin excused' PROVE Good(d)'
  <2>1. d \notin excused /\ leaked = {} /\ At(map[d]) = {} /\ \A i \in Index : sk[d][i] = None
    BY <1>0, <1>6 DEF DeviceOK
  <2>2. \A m \in msgs : m.by # d
    BY <2>1, <1>0 DEF Good
  <2>3. Last(map[d]) \in Index
    BY <1>0, LastOf DEF Shape
  <2> QED BY <2>1, <2>2, <2>3, <1>0 DEF Good
<1>7. Good(d)'
  BY <1>6 DEF Good
<1>8. \A t \in tasks' : Kept(t)
  BY <1>0 DEF Kept
<1>9. made' >= made
  BY <1>0 DEF Shape
<1> QED BY <1>2, <1>3, <1>4, <1>5, <1>7, <1>8, <1>9, StepKeeps

LEMMA RemoveKeeps ==
  ASSUME KInv, NEW d \in Devs, NEW by \in Devs, Remove(d, by) PROVE KInv'
<1>0. /\ Shape /\ made \in Nat
      /\ UNCHANGED <<active, map, sk, msgs, backup, made>>
      /\ registered' = registered \ {d} /\ online' = online \ {d} /\ cell' = [cell EXCEPT ![d] = NoCell]
      /\ leaked' = leaked \cup (({active[d]} \cup {map[d][i] : i \in Index}) \ {None})
      /\ excused' = excused \cup (Devs \ (Told(d) \cap online))
      /\ tasks' = {t \in tasks : t.dev # d}
  BY DEF KInv, Shape, Remove, device
<1>1. PICK P : P = Pushed(Told(d) \ {d}, [e |-> "removed", by |-> by])
  OBVIOUS
<1>2. /\ P \in [Devs -> Seq(Events)]
      /\ \A x \in Devs : Removals(inbox[x]) => Removals(P[x])
      /\ \A x \in Devs : x \in (Told(d) \ {d}) \cap online => Removals(P[x])
  <2>1. [e |-> "removed", by |-> by] \in Events
    BY DEF Events
  <2> QED BY <2>1, <1>0, <1>1, PushedKeeps
<1>3. inbox' = [P EXCEPT ![d] = <<>>]
  BY <1>1 DEF Remove
<1>4. /\ inbox' \in [Devs -> Seq(Events)]
      /\ \A x \in Devs \ {d} : x \in Told(d) \cap online => Warned(x)'
  BY <1>2, <1>3 DEF Warned
<1>5. Shape'
  <2>1. leaked' \subseteq 1..made'
    <3>1. active[d] \in 0..made /\ \A i \in Index : map[d][i] \in 0..made
      BY <1>0 DEF Shape
    <3>2. \A k \in 0..made : k # None => k \in 1..made
      BY <1>0 DEF None
    <3>3. leaked \subseteq 1..made
      BY <1>0 DEF Shape
    <3> QED BY <3>1, <3>2, <3>3, <1>0
  <2>2. cell' \in [Devs -> [key : 0..made', from : Devs \cup {None}]]
    <3>1. NoCell \in [key : 0..made', from : Devs \cup {None}]
      BY <1>0 DEF NoCell, None
    <3> QED BY <3>1, <1>0 DEF Shape
  <2> QED BY <2>1, <2>2, <1>0, <1>4 DEF Shape
<1>6. \A u \in Users : BackupOK(u)'
  BY <1>0 DEF KInv, BackupOK
<1>7. \A t \in tasks' : Kept(t)
  BY <1>0 DEF Kept
<1>8. made' >= made
  BY <1>0
<1>9. ASSUME NEW x \in Devs PROVE DeviceOK(x)' /\ Good(x)'
  <2>0. DeviceOK(x) /\ Good(x)
    BY DEF KInv
  <2>1. DeviceOK(x)'
    BY <2>0, <1>0 DEF DeviceOK
  <2>2. /\ At(map'[x]) = At(map[x]) /\ Last(map'[x]) = Last(map[x]) /\ Current(x)' = Current(x)
        /\ \A i \in Index : KeyFor(x, i)' = KeyFor(x, i)
    BY <1>0, SameKeys
  <2>3. ASSUME x \notin excused' PROVE Good(x)'
    <3>0. x \notin excused /\ x \in Told(d) \cap online
      BY <2>3, <1>0
    <3>1. \A m \in msgs' : m.by = x => active'[x] # None /\ m.key = KeyFor(x, m.idx)'
      BY <2>0, <2>2, <3>0, <1>0 DEF Good, Shape
    <3>2. sk'[x][Last(map'[x])] \in {None, Current(x)'}
      BY <2>0, <2>2, <3>0, <1>0 DEF Good
    <3>3. ASSUME x \in registered' PROVE x # d /\ x \in registered
      BY <3>3, <1>0
    <3>4. ASSUME x \in registered', At(map'[x]) # {}
          PROVE  \/ active'[x] = Current(x)'
                 \/ \E t \in tasks' : t.dev = x /\ t.op \in {"rotated", "mirrored"} /\ t.key = Current(x)'
      <4>1. \/ active[x] = Current(x)
            \/ \E t \in tasks : t.dev = x /\ t.op \in {"rotated", "mirrored"} /\ t.key = Current(x)
        BY <2>0, <2>2, <3>0, <3>3, <3>4 DEF Good
      <4> QED BY <4>1, <2>2, <3>3, <3>4, <1>0
    <3>5. x \in registered' => Warned(x)'
      BY <3>0, <3>3, <1>4
    <3> QED BY <3>1, <3>2, <3>4, <3>5 DEF Good
  <2>4. Good(x)'
    BY <2>3 DEF Good
  <2> QED BY <2>1, <2>4
<1> QED BY <1>5, <1>6, <1>7, <1>8, <1>9, StepKeeps

\* A map restored from a backup has a first entry, and its key.
LEMMA RestoredOK ==
  ASSUME KInv, NEW d \in Devs, NEW wiped \in BOOLEAN,
         NEW k, k = IF wiped \/ active[d] = None THEN backup[User(d)].key ELSE active[d],
         NEW M, M = RestoredMap(IF wiped THEN Nothing ELSE map[d], backup[User(d)].map)
  PROVE  k \in 0..made /\ M \in [Index -> 0..made] /\ Rooted(M) /\ (At(M) # {} => k # None)
<1> DEFINE u == User(d)
           Bk == backup[u].map
<1>1. u \in Users /\ BackupOK(u) /\ DeviceOK(d) /\ Shape /\ made \in Nat
  BY DEF KInv, User, Users, Shape
<1>2. backup[u].key \in 0..made /\ Bk \in [Index -> 0..made] /\ map[d] \in [Index -> 0..made] /\ active[d] \in 0..made
  BY <1>1 DEF Shape
<1>3. Nothing \in [Index -> 0..made] /\ At(Nothing) = {}
  BY <1>1 DEF Nothing, At, None
<1>4. k \in 0..made
  BY <1>2
<1>5. CASE At(Bk) # {}
  <2>1. M = Bk /\ Rooted(Bk) /\ backup[u].key # None
    BY <1>1, <1>5 DEF RestoredMap, BackupOK
  <2> QED BY <2>1, <1>2, <1>4
<1>6. CASE At(Bk) = {}
  <2>1. CASE wiped
    <3>1. M = Nothing
      BY <2>1, <1>6 DEF RestoredMap
    <3> QED BY <3>1, <1>3, <1>4 DEF Rooted
  <2>2. CASE ~wiped
    <3>1. M = map[d] /\ Rooted(map[d]) /\ (At(map[d]) # {} => active[d] # None)
      BY <2>2, <1>1, <1>6 DEF RestoredMap, DeviceOK
    <3> QED BY <3>1, <2>2, <1>2, <1>4
  <2> QED BY <2>1, <2>2
<1> QED BY <1>5, <1>6

LEMMA ReloadKeeps ==
  ASSUME KInv, NEW d \in Devs, NEW wiped \in BOOLEAN, Reload(d, wiped) PROVE KInv'
<1>0. PICK k : k = IF wiped \/ active[d] = None THEN backup[User(d)].key ELSE active[d]
  OBVIOUS
<1>1. PICK M : M = RestoredMap(IF wiped THEN Nothing ELSE map[d], backup[User(d)].map)
  OBVIOUS
<1>2. k \in 0..made /\ M \in [Index -> 0..made] /\ Rooted(M) /\ (At(M) # {} => k # None)
  BY <1>0, <1>1, RestoredOK
<1>3. Shape /\ made \in Nat /\ DeviceOK(d) /\ Good(d) /\ Nothing \in [Index -> Nat] /\ \A i \in Index : Nothing[i] = None
  BY DEF KInv, Shape, Nothing, None
<1>4. /\ active' = [active EXCEPT ![d] = k] /\ map' = [map EXCEPT ![d] = M] /\ sk' = [sk EXCEPT ![d] = Nothing]
      /\ tasks' = {t \in tasks : t.dev # d} /\ inbox' = [inbox EXCEPT ![d] = <<>>]
      /\ UNCHANGED <<registered, cell, msgs, backup, online, made, leaked>>
  BY <1>0, <1>1 DEF Reload, server
<1>5. active'[d] = k /\ map'[d] = M /\ sk'[d] = Nothing
  BY <1>3, <1>4 DEF Shape
<1>6. excused' = IF k = active[d] /\ map'[d] = map[d] /\ ~Rotating(d) THEN excused ELSE excused \cup {d}
  BY <1>0 DEF Reload, ExcusedUnless
<1>7. Shape'
  <2>1. active' \in [Devs -> 0..made'] /\ map' \in [Devs -> [Index -> 0..made']]
    BY <1>2, <1>3, <1>4 DEF Shape
  <2>2. sk' \in [Devs -> [Index -> Nat]] /\ inbox' \in [Devs -> Seq(Events)]
    BY <1>3, <1>4 DEF Shape
  <2>3. excused' \subseteq Devs
    BY <1>3, <1>6 DEF Shape
  <2> QED BY <2>1, <2>2, <2>3, <1>3, <1>4 DEF Shape
<1>8. \A u \in Users : BackupOK(u)'
  BY <1>4 DEF KInv, BackupOK
<1>9. \A x \in Devs \ {d} : Still(x)
  <2>1. \A x \in Devs \ {d} : active'[x] = active[x] /\ map'[x] = map[x] /\ sk'[x] = sk[x] /\ inbox'[x] = inbox[x]
    BY <1>3, <1>4 DEF Shape
  <2> QED BY <2>1, <1>4, <1>6 DEF Still, Warned
<1>10. \A t \in tasks' : Kept(t)
  <2>1. \A t \in tasks : t.dev \in Devs
    BY DEF KInv, TaskOK
  <2> QED BY <2>1, <1>3, <1>4 DEF Kept, Shape
<1>11. DeviceOK(d)'
  BY <1>2, <1>3, <1>5 DEF DeviceOK
<1>12. ASSUME d \notin excused' PROVE Good(d)'
  <2>1. d \notin excused /\ active'[d] = active[d] /\ map'[d] = map[d] /\ ~Rotating(d)
    BY <1>5, <1>6, <1>12
  <2>2. /\ At(map'[d]) = At(map[d]) /\ Last(map'[d]) = Last(map[d]) /\ Current(d)' = Current(d)
        /\ \A i \in Index : KeyFor(d, i)' = KeyFor(d, i)
    BY <2>1, SameKeys
  <2>3. \A m \in msgs' : m.by = d => active'[d] # None /\ m.key = KeyFor(d, m.idx)'
    BY <2>1, <2>2, <1>3, <1>4 DEF Good, Shape
  <2>4. sk'[d][Last(map'[d])] = None
    <3>1. Last(map'[d]) \in Index
      BY <2>2, <1>3, LastOf DEF Shape
    <3> QED BY <3>1, <1>3, <1>5
  <2>5. ~Warned(d) /\ ~\E t \in tasks : t.dev = d /\ t.op \in {"rotate", "rotated", "mirror", "mirrored"}
    BY <2>1 DEF Rotating, Warned, Removals
  <2>6. ASSUME d \in registered
        PROVE  /\ At(map[d]) # {} => active[d] = Current(d)
               /\ leaked # {} => Current(d) \notin leaked \cup {None}
    BY <2>1, <2>5, <2>6, <1>3 DEF Good
  <2> QED BY <2>1, <2>2, <2>3, <2>4, <2>6, <1>4 DEF Good
<1>13. Good(d)'
  BY <1>12 DEF Good
<1>14. made' >= made
  BY <1>3, <1>4
<1> QED BY <1>7, <1>8, <1>9, <1>10, <1>11, <1>13, <1>14, StepKeeps

(***************************************************************************)
(* The invariant.                                                           *)
(***************************************************************************)
LEMMA InitKeys == Init => KInv
<1> SUFFICES ASSUME Init PROVE KInv
  OBVIOUS
<1>1. PICK Reg \in SUBSET Devs, old \in BOOLEAN :
        /\ Reg \cap DevsA # {} /\ Reg \cap DevsB # {}
        /\ registered = Reg /\ online = Reg /\ inbox = [d \in Devs |-> <<>>]
        /\ active = [d \in Devs |-> IF old /\ d \in Reg THEN 1 ELSE None]
        /\ map = [d \in Devs |-> Nothing] /\ sk = [d \in Devs |-> Nothing]
        /\ unavailable = {} /\ dirty = {} /\ tasks = {}
        /\ cell = [d \in Devs |-> IF old /\ d \in Reg THEN [key |-> 1, from |-> CHOOSE e \in Reg : e \in Theirs(d)]
                                                    ELSE NoCell]
        /\ msgs = (IF old THEN {[by |-> CHOOSE e \in Reg : TRUE, idx |-> 0, key |-> 1]} ELSE {})
        /\ backup = [u \in Users |-> [key |-> IF old THEN 1 ELSE None, map |-> Nothing]]
        /\ made = (IF old THEN 1 ELSE 0) /\ heard \in Users /\ acts \in 0..MaxActs
        /\ leaked = {} /\ excused = {}
  BY DEF Init
<1>2. \A d \in Devs : (CHOOSE e \in Reg : e \in Theirs(d)) \in Devs
  <2> SUFFICES ASSUME NEW d \in Devs PROVE \E e \in Reg : e \in Theirs(d)
    OBVIOUS
  <2> QED BY <1>1, Disjoint DEF Theirs, Own, Of, User, Devs
<1>3. (CHOOSE e \in Reg : TRUE) \in Reg
  BY <1>1
<1>4. /\ Nothing \in [Index -> 0..made] /\ Nothing \in [Index -> Nat] /\ At(Nothing) = {} /\ Rooted(Nothing)
      /\ \A i \in Index : Nothing[i] = None
  BY <1>1 DEF Nothing, At, Rooted, None
<1>5. made \in Nat /\ 0 \in 0..made /\ (old => 1 \in 0..made) /\ 0 \in Index
  BY <1>1 DEF Index
<1>6. Shape
  <2>1. active \in [Devs -> 0..made] /\ map \in [Devs -> [Index -> 0..made]] /\ sk \in [Devs -> [Index -> Nat]]
    BY <1>1, <1>4, <1>5 DEF None
  <2>2. cell \in [Devs -> [key : 0..made, from : Devs \cup {None}]]
    <3>1. NoCell \in [key : 0..made, from : Devs \cup {None}]
      BY <1>5 DEF NoCell, None
    <3>2. \A d \in Devs : old => [key |-> 1, from |-> CHOOSE e \in Reg : e \in Theirs(d)] \in
                                 [key : 0..made, from : Devs \cup {None}]
      BY <1>2, <1>5
    <3> QED BY <3>1, <3>2, <1>1
  <2>3. backup \in [Users -> [key : 0..made, map : [Index -> 0..made]]]
    BY <1>1, <1>4, <1>5 DEF None
  <2>4. msgs \subseteq [by : Devs, idx : Index, key : Nat]
    BY <1>1, <1>3, <1>5
  <2>5. inbox \in [Devs -> Seq(Events)]
    BY <1>1
  <2> QED BY <2>1, <2>2, <2>3, <2>4, <2>5, <1>1, <1>5 DEF Shape
<1>7. \A d \in Devs : DeviceOK(d)
  BY <1>1, <1>4 DEF DeviceOK
<1>8. \A u \in Users : BackupOK(u)
  BY <1>1, <1>4 DEF BackupOK
<1>9. ASSUME NEW d \in Devs PROVE Good(d)
  <2>1. map[d] = Nothing /\ sk[d] = Nothing /\ active[d] = IF old /\ d \in Reg THEN 1 ELSE None
    BY <1>1
  <2>2. \A m \in msgs : m.by = d => active[d] # None /\ m.key = KeyFor(d, m.idx)
    BY <2>1, <1>1, <1>3, <1>4 DEF KeyFor, None
  <2>3. sk[d][Last(map[d])] = None
    BY <2>1, <1>4, <1>5 DEF Last
  <2> QED BY <2>1, <2>2, <2>3, <1>1, <1>4 DEF Good
<1> QED BY <1>1, <1>6, <1>7, <1>8, <1>9 DEF KInv

LEMMA NextKeys == KInv /\ [Next]_cmk => KInv'
<1> SUFFICES ASSUME KInv, [Next]_cmk PROVE KInv'
  OBVIOUS
<1>1. CASE UNCHANGED cmk
  <2>1. UNCHANGED <<active, map, sk, msgs, made, leaked, registered, online, excused, inbox, cell, backup, tasks>>
    BY <1>1 DEF cmk, device, server
  <2>2. \A x \in Devs : Warned(x)' <=> Warned(x)
    BY <2>1 DEF Warned
  <2>3. \A u \in Users : BackupOK(u)'
    BY <2>1 DEF KInv, BackupOK
  <2> QED BY <2>1, <2>2, <2>3, NoKeyKeeps DEF KInv, Shape
<1>2. ASSUME NEW t \in tasks, Task(t) PROVE KInv'
  <2>1. t.dev \in Devs
    BY DEF KInv, TaskOK
  <2>a. CASE Waited(t)
    BY <2>1, <2>a, TakeKeeps
  <2>b. CASE Create(t)
    BY <2>b, CreateKeeps
  <2>c. CASE Stored(t)
    BY <2>c, StoredKeeps
  <2>d. CASE Encrypted(t)
    BY <2>1, <2>d, SessionKeeps
  <2>e. CASE Rotate(t)
    BY <2>e, RotateKeeps
  <2>f. CASE Imported(t)
    BY <2>f, ImportedKeeps
  <2>g. CASE Mirror(t)
    BY <2>g, MirrorKeeps
  <2>h. CASE Cooled(t)
    BY <2>h, CooledKeeps
  <2> QED BY <1>2, <2>a, <2>b, <2>c, <2>d, <2>e, <2>f, <2>g, <2>h DEF Task
<1>3. ASSUME NEW d \in Devs, Arrives(d) PROVE KInv'
  BY <1>3, MessageKeeps, RemovedArrivesKeeps DEF Arrives
<1>4. ASSUME NEW d \in Devs, NEW m \in msgs, Open(d, m) \/ OpenByWrap(d, m) \/ Ask(d, m) \/ Edit(d, m) PROVE KInv'
  BY <1>4, SessionKeeps, TakeKeeps, AskKeeps
<1>5. ASSUME NEW d \in Devs, NEW i \in PulseIndex(d), Pulse(d, i) PROVE KInv'
  <2>1. \A e \in Devs : Last(map[e]) \in Index
    BY LastOf DEF KInv, Shape
  <2>2. i \in Index
    BY <2>1 DEF PulseIndex, Theirs
  <2> QED BY <2>2, <1>5, SessionKeeps
<1>6. ASSUME NEW d \in Devs, NEW wiped \in BOOLEAN, Reload(d, wiped) PROVE KInv'
  BY <1>6, ReloadKeeps
<1>7. ASSUME NEW d \in Devs, NEW e \in Devs, Remove(e, d) PROVE KInv'
  BY <1>7, RemoveKeeps
<1>8. ASSUME NEW d \in Devs, Send(d) \/ Add(d) \/ Disconnect(d) \/ Connect(d) \/ Sync(d) \/ Threshold(d) PROVE KInv'
  BY <1>8, TakeKeeps, AddKeeps, ConnectionKeeps, SyncKeeps, ThresholdKeeps
<1> QED BY <1>1, <1>2, <1>3, <1>4, <1>5, <1>6, <1>7, <1>8 DEF Next

\* In every behaviour the keys of the chat satisfy the invariant.
THEOREM KeysInvariant == Spec => []KInv
BY InitKeys, NextKeys, PTL DEF Spec

(* Whatever a device has sent stays readable to it, unless it is excused: what *)
(* sendEncryptedDm, the rotations and the bootstrap of the bundle leave in the  *)
(* map and the active key, for any number of devices, keys and rotations.      *)
THEOREM SentReadableHolds == Spec => []SentStaysReadable
<1>1. KInv => SentStaysReadable
  <2> SUFFICES ASSUME KInv, NEW m \in msgs, m.by \in registered \ excused PROVE m.key \in Tried(m.by, m.idx)
    BY DEF SentStaysReadable
  <2>1. m.by \in Devs /\ Good(m.by)
    BY DEF KInv, Shape
  <2>2. active[m.by] # None /\ m.key = KeyFor(m.by, m.idx)
    BY <2>1 DEF Good
  <2> QED BY <2>2 DEF KeyFor, Tried
<1> QED BY <1>1, KeysInvariant, PTL

(* When nothing is under way, a registered device that is not excused does not *)
(* send under a key that a removed device holds: every removal it is told of   *)
(* ends in a rotation, its own or a mirrored one, whatever overtakes it.       *)
THEOREM RemovedKeyHolds == Spec => []RemovedKeyHasACause
<1>1. KInv => RemovedKeyHasACause
  <2> SUFFICES ASSUME KInv, Quiet, NEW d \in registered, NextKey(d) \in leaked, d \notin excused PROVE FALSE
    BY DEF RemovedKeyHasACause
  <2>1. d \in Devs /\ Good(d) /\ DeviceOK(d) /\ Shape
    BY DEF KInv, Shape
  <2>2. ~Warned(d) /\ tasks = {}
    BY <2>1 DEF Quiet, Warned, Removals
  <2>3. /\ sk[d][Last(map[d])] \in {None, Current(d)}
        /\ At(map[d]) # {} => active[d] = Current(d)
        /\ leaked # {} => Current(d) \notin leaked \cup {None}
    BY <2>1, <2>2 DEF Good
  <2>4. At(map[d]) = {} => active[d] = Current(d)
    BY DEF Current
  <2>5. NextKey(d) = Current(d)
    BY <2>3, <2>4 DEF NextKey, SendKey
  <2> QED BY <2>3, <2>5
<1> QED BY <1>1, KeysInvariant, PTL

-----------------------------------------------------------------------------
(* The recovery phrase and its bundle (Recovery).                             *)
Holdings == [keys : SUBSET Key, maps : SUBSET Key]
Bundle == [by : Nat, keys : SUBSET Key, maps : SUBSET Key]
Fault == {"dropped", "unwritten", "failed", "overwritten"}
Calls == [pc : {"idle", "salt", "meta", "bundle", "show", "restore", "mark"},
          setup : Nat, blob : Bundle, mark : BOOLEAN]
RecoveryTypes ==
  /\ setups \in Nat /\ salt \in Nat /\ erased \in Nat /\ blob \in Bundle
  /\ master \in [Device -> Nat] /\ held \in [Device -> Holdings]
  /\ modal \in [Device -> {"closed", "free", "onboarding", "verify", "prompt"}]
  /\ call \in [Device -> Calls]
  /\ boot \in [Device -> [read : BOOLEAN, blob : Bundle]]
  /\ timer \in [Device -> BOOLEAN]
  /\ flight \in [Device -> [on : BOOLEAN, blob : Bundle, aware : BOOLEAN]]
  /\ shown \in SUBSET Nat /\ verified \in BOOLEAN /\ crossed \in BOOLEAN /\ blind \in BOOLEAN
  /\ late \in [Device -> SUBSET Fault] /\ aware \in SUBSET Device /\ banked \in SUBSET Key /\ gone \in SUBSET Key

\* Every number in use is one of a setup begun; 0 stands for nothing.
Numbered ==
  /\ salt <= setups /\ erased <= setups /\ blob.by <= setups /\ (blob.by = 0 => blob = R!NoBlob)
  /\ \A p \in shown : 0 < p /\ p <= setups
  /\ \A d \in Device : /\ master[d] <= setups
                       /\ call[d].setup <= setups /\ (call[d].pc # "idle" => call[d].setup # 0)
                       /\ boot[d].blob.by <= setups /\ (boot[d].blob.by = 0 => boot[d].blob = R!NoBlob)
                       /\ flight[d].blob.by <= setups /\ (flight[d].on => flight[d].blob.by # 0)

\* Before its first bundle is stored a setup is one device's, and no key of it exists.
Setting(d) == call[d].pc \in {"salt", "meta", "bundle", "show"}
Unshown(d) == call[d].pc \in {"salt", "meta", "bundle"}
Unseen == \A d \in Device : Unshown(d) =>
  /\ call[d].setup \notin shown /\ blob.by # call[d].setup
  /\ \A e \in Device : /\ master[e] # call[d].setup /\ boot[e].blob.by # call[d].setup
                       /\ (flight[e].on => flight[e].blob.by # call[d].setup)
                       /\ (e # d /\ call[e].pc # "idle" => call[e].setup # call[d].setup)

\* Unless two setups overlapped, the salt is that of the only setup since the
\* account was last erased, and only keys of it or of erased accounts are about.
Ours(p) == p = salt \/ p <= erased
OneSetup == ~crossed =>
  /\ \A d \in Device : call[d].pc = "salt" => salt = 0 /\ \A e \in Device \ {d} : call[e].pc # "salt"
  /\ \A d \in Device : call[d].pc \notin {"idle", "salt"} => call[d].setup = salt
  /\ \A d \in Device : call[d].pc = "show" => blob.by # 0 /\ Ours(blob.by)
  /\ \A d \in Device : Ours(master[d]) /\ (flight[d].on => Ours(flight[d].blob.by))
PhraseKnown == ~crossed => \/ salt = 0 \/ salt \in broken \/ (\E d \in Device : Setting(d))
                           \/ (salt \in shown /\ blob.by # 0 /\ Ours(blob.by))

\* What a device holds is in the bundle, or will be, or it is known why not.
Due(d) == \/ modal[d] = "closed" \/ timer[d] \/ flight[d].on
          \/ (boot[d].read /\ boot[d].blob.by \in {0, master[d]})
Written == \A d \in Device :
  /\ call[d].pc # "idle" => modal[d] # "closed"
  /\ master[d] # 0 /\ blob.by = master[d] => Due(d) \/ R!All(held[d]) \subseteq R!All(blob) \/ late[d] # {}
  /\ flight[d].on => R!All(held[d]) \subseteq R!All(flight[d].blob) \/ timer[d] \/ "dropped" \in late[d] \/ "unwritten" \in late[d]

\* A bundle contains the one before it, if its writer had read that one.
Taken ==
  /\ \A d \in aware : R!All(blob) \subseteq R!All(held[d]) \cup gone
  /\ \A d \in Device : flight[d].on => /\ R!All(flight[d].blob) \subseteq R!All(held[d]) \cup gone
                                    /\ (flight[d].aware => R!All(blob) \subseteq R!All(flight[d].blob) \cup gone)
  /\ blind \/ banked \subseteq R!All(blob) \cup gone

RecoveryInv == RecoveryTypes /\ Numbered /\ Unseen /\ OneSetup /\ PhraseKnown /\ Written /\ Taken

\* The number of nothing and of a setup.
LEMMA RecoveryStart == R!RInit => RecoveryInv
<1> SUFFICES ASSUME R!RInit PROVE RecoveryInv
  OBVIOUS
<1>1. /\ salt = 0 /\ blob = [by |-> 0, keys |-> {}, maps |-> {}] /\ verified = FALSE /\ setups = 0 /\ shown = {} /\ erased = 0
      /\ broken = {} /\ crossed = FALSE /\ aware = {} /\ blind = FALSE /\ banked = {} /\ gone = {}
  BY DEF R!RInit, R!Nothing, R!NoBlob
<1>2. /\ master = [d \in Device |-> 0] /\ held = [d \in Device |-> [keys |-> {}, maps |-> {}]]
      /\ modal = [d \in Device |-> "closed"] /\ timer = [d \in Device |-> FALSE] /\ late = [d \in Device |-> {}]
  BY DEF R!RInit, R!Nothing, R!NoKeys
<1>3. call = [d \in Device |-> [pc |-> "idle", setup |-> 0, blob |-> [by |-> 0, keys |-> {}, maps |-> {}], mark |-> FALSE]]
  BY DEF R!RInit, R!Idle, R!NoBlob, R!Nothing
<1>4. boot = [d \in Device |-> [read |-> FALSE, blob |-> [by |-> 0, keys |-> {}, maps |-> {}]]]
  BY DEF R!RInit, R!NotRead, R!NoBlob, R!Nothing
<1>5. flight = [d \in Device |-> [on |-> FALSE, blob |-> [by |-> 0, keys |-> {}, maps |-> {}], aware |-> FALSE]]
  BY DEF R!RInit, R!Grounded, R!NoBlob, R!Nothing
<1>6. RecoveryTypes
  <2>1. /\ [by |-> 0, keys |-> {}, maps |-> {}] \in Bundle /\ [keys |-> {}, maps |-> {}] \in Holdings
        /\ [pc |-> "idle", setup |-> 0, blob |-> [by |-> 0, keys |-> {}, maps |-> {}], mark |-> FALSE] \in Calls
    BY DEF Bundle, Holdings, Calls
  <2> QED BY <1>1, <1>2, <1>3, <1>4, <1>5, <2>1 DEF RecoveryTypes
<1>13. \A d \in Device : /\ master[d] = 0 /\ call[d].setup = 0 /\ call[d].pc = "idle"
                           /\ boot[d].blob = [by |-> 0, keys |-> {}, maps |-> {}]
                           /\ flight[d].blob.by = 0 /\ ~flight[d].on
  BY <1>2, <1>3, <1>4, <1>5
<1>7. Numbered
  BY <1>1, <1>13 DEF Numbered, R!NoBlob, R!Nothing
<1>8. Unseen /\ OneSetup
  BY <1>1, <1>13 DEF Unseen, OneSetup, Unshown, Ours
<1>12. PhraseKnown
  BY <1>1 DEF PhraseKnown
<1>9. Written
  BY <1>13 DEF Written
<1>10. Taken
  BY <1>1, <1>13 DEF Taken, R!All
<1> QED BY <1>6, <1>7, <1>8, <1>9, <1>10, <1>12 DEF RecoveryInv

\* The app starts: it may read the bundle.
LEMMA OpenKeeps ==
  ASSUME RecoveryInv, NEW d \in Device, R!Start(d) PROVE RecoveryInv'
<1>0. RecoveryTypes /\ Numbered /\ Unseen /\ OneSetup /\ PhraseKnown /\ Written /\ Taken
  BY DEF RecoveryInv
<1>1. PICK m \in {"free", "onboarding", "verify", "prompt"}, b \in {blob, R!NoBlob} :
        /\ modal' = [modal EXCEPT ![d] = m]
        /\ boot' = [boot EXCEPT ![d] = [read |-> master[d] # 0, blob |-> b]]
  BY DEF R!Start, R!Needed, R!Nothing
<1>2. /\ salt' = salt /\ blob' = blob /\ verified' = verified /\ master' = master /\ held' = held /\ call' = call
      /\ timer' = timer /\ flight' = flight /\ setups' = setups /\ shown' = shown /\ erased' = erased
      /\ broken' = broken /\ crossed' = crossed /\ late' = late /\ aware' = aware /\ blind' = blind /\ banked' = banked /\ gone' = gone
  BY DEF R!Start, R!server, R!history
<1>3. b \in Bundle /\ b.by <= setups /\ (b.by = 0 => b = R!NoBlob) /\ b.by \in {blob.by, 0}
  BY <1>0, <1>1 DEF RecoveryTypes, Numbered, Bundle, R!NoBlob, R!Nothing
<1>4. /\ \A e \in Device \ {d} : modal'[e] = modal[e] /\ boot'[e] = boot[e]
      /\ modal'[d] = m /\ boot'[d].read = (master[d] # 0) /\ boot'[d].blob = b
  BY <1>0, <1>1 DEF RecoveryTypes
<1>5. RecoveryTypes'
  BY <1>0, <1>1, <1>2, <1>3 DEF RecoveryTypes
<1>6. Numbered'
  BY <1>0, <1>2, <1>3, <1>4 DEF Numbered, R!NoBlob
<1>7. Unseen'
  BY <1>0, <1>2, <1>3, <1>4 DEF Unseen, Unshown, Numbered
<1>8. OneSetup' /\ PhraseKnown'
  BY <1>0, <1>2 DEF OneSetup, PhraseKnown, Ours, Setting
<1>9. Written'
  <2> SUFFICES ASSUME NEW e \in Device PROVE
        /\ call[e].pc # "idle" => modal'[e] # "closed"
        /\ master[e] # 0 /\ blob.by = master[e] => Due(e)' \/ R!All(held[e]) \subseteq R!All(blob) \/ late[e] # {}
        /\ flight[e].on => R!All(held[e]) \subseteq R!All(flight[e].blob) \/ timer[e] \/ "dropped" \in late[e] \/ "unwritten" \in late[e]
    BY <1>2 DEF Written
  <2>1. CASE e = d
    BY <1>0, <1>2, <1>3, <1>4, <2>1 DEF Written, Due
  <2>2. CASE e # d
    BY <1>0, <1>2, <1>4, <2>2 DEF Written, Due
  <2> QED BY <2>1, <2>2
<1>10. Taken'
  BY <1>0, <1>2 DEF Taken
<1> QED BY <1>5, <1>6, <1>7, <1>8, <1>9, <1>10 DEF RecoveryInv

\* Nothing a device held, and nothing a bundle held, goes unnoticed when the device
\* takes the bundle over.
LEMMA TakingOver ==
  ASSUME RecoveryTypes, NEW d \in Device, NEW b \in Bundle, R!Missed(d, b)
  PROVE  /\ R!Restored(d, b) \in Holdings /\ gone' \in SUBSET Key /\ gone \subseteq gone'
         /\ R!All(held[d]) \subseteq R!All(R!Restored(d, b)) \cup gone'
         /\ R!All(b) \subseteq R!All(R!Restored(d, b)) \cup gone'
<1>1. /\ held[d] \in Holdings /\ held[d].keys \in SUBSET Key /\ held[d].maps \in SUBSET Key
      /\ b.keys \in SUBSET Key /\ b.maps \in SUBSET Key /\ gone \in SUBSET Key
  BY DEF RecoveryTypes, Holdings, Bundle
<1>2. R!Skipped(d, b) \subseteq b.keys /\ R!Replaced(d, b) \subseteq held[d].maps
  BY DEF R!Skipped, R!Replaced
<1>3. /\ R!Restored(d, b).keys = held[d].keys \union (b.keys \ R!Skipped(d, b))
      /\ R!Restored(d, b).maps = (held[d].maps \ R!Replaced(d, b)) \union b.maps
  BY DEF R!Restored
<1>4. R!Restored(d, b) \in Holdings
  BY <1>1 DEF R!Restored, Holdings
<1>5. gone' = gone \union ((R!Skipped(d, b) \union R!Replaced(d, b)) \ R!All(R!Restored(d, b)))
  BY DEF R!Missed
<1>6. /\ R!All(held[d]) = held[d].keys \union held[d].maps /\ R!All(b) = b.keys \union b.maps
      /\ R!All(R!Restored(d, b)) = R!Restored(d, b).keys \union R!Restored(d, b).maps
  BY DEF R!All
<1> QED BY <1>1, <1>2, <1>3, <1>4, <1>5, <1>6

\* What the bundle adds is due for a sync.
LEMMA RestoreKeeps ==
  ASSUME RecoveryInv, NEW d \in Device, R!Restore(d) PROVE RecoveryInv'
<1>0. RecoveryTypes /\ Numbered /\ Unseen /\ OneSetup /\ PhraseKnown /\ Written /\ Taken
  BY DEF RecoveryInv
<1>1. /\ boot' = [boot EXCEPT ![d] = [read |-> FALSE, blob |-> [by |-> 0, keys |-> {}, maps |-> {}]]]
      /\ boot[d].read
  BY DEF R!Restore, R!NotRead, R!NoBlob, R!Nothing
<1>3. PICK H \in Holdings, A \in {aware, aware \cup {d}}, t \in BOOLEAN :
        /\ held' = [held EXCEPT ![d] = H] /\ aware' = A /\ timer' = [timer EXCEPT ![d] = t]
        /\ gone' \in SUBSET Key /\ gone \subseteq gone'
        /\ R!All(held[d]) \subseteq R!All(H) \cup gone'
        /\ d \in A => R!All(blob) \subseteq R!All(H) \cup gone'
        /\ t \/ (H = held[d] /\ t = timer[d] /\ boot[d].blob.by \notin {0, master[d]})
  <2>0. /\ held[d] \in Holdings /\ timer[d] \in BOOLEAN /\ boot[d].blob \in Bundle /\ gone \in SUBSET Key
        /\ held = [held EXCEPT ![d] = held[d]] /\ timer = [timer EXCEPT ![d] = timer[d]]
        /\ (d \in aware => R!All(blob) \subseteq R!All(held[d]) \cup gone)
        /\ (boot[d].blob.by = 0 => boot[d].blob = R!NoBlob)
    BY <1>0 DEF RecoveryTypes, Taken, Numbered
  <2>1. CASE boot[d].blob = R!NoBlob
    <3>1. timer' = [timer EXCEPT ![d] = TRUE] /\ held' = held /\ aware' = aware /\ gone' = gone
      BY <2>1 DEF R!Restore
    <3> QED BY <2>0, <3>1
  <2>2. CASE boot[d].blob # R!NoBlob /\ boot[d].blob.by = master[d]
    <3> DEFINE H0 == R!Restored(d, boot[d].blob)
    <3>1. /\ held' = [held EXCEPT ![d] = H0] /\ timer' = [timer EXCEPT ![d] = TRUE]
          /\ aware' = (IF boot[d].blob = blob THEN aware \cup {d} ELSE aware) /\ R!Missed(d, boot[d].blob)
      BY <2>2 DEF R!Restore, R!Read
    <3>2. /\ H0 \in Holdings /\ gone' \in SUBSET Key /\ gone \subseteq gone'
          /\ R!All(held[d]) \subseteq R!All(H0) \cup gone' /\ R!All(boot[d].blob) \subseteq R!All(H0) \cup gone'
      BY <1>0, <2>0, <3>1, TakingOver
    <3> HIDE DEF H0
    <3>3. aware' \in {aware, aware \cup {d}} /\ (d \in aware' => d \in aware \/ boot[d].blob = blob)
      BY <3>1
    <3>4. d \in aware' => R!All(blob) \subseteq R!All(H0) \cup gone'
      BY <2>0, <3>2, <3>3
    <3> QED BY <3>1, <3>2, <3>3, <3>4
  <2>3. CASE boot[d].blob # R!NoBlob /\ boot[d].blob.by # master[d]
    <3>1. timer' = timer /\ held' = held /\ aware' = aware /\ gone' = gone
      BY <2>3 DEF R!Restore
    <3> QED BY <2>0, <2>3, <3>1
  <2> QED BY <2>1, <2>2, <2>3
<1>4. /\ \A e \in Device \ {d} : boot'[e] = boot[e] /\ held'[e] = held[e] /\ timer'[e] = timer[e]
      /\ ~boot'[d].read /\ boot'[d].blob = [by |-> 0, keys |-> {}, maps |-> {}] /\ held'[d] = H /\ timer'[d] = t
  BY <1>0, <1>1, <1>3 DEF RecoveryTypes
<1>2. /\ salt' = salt /\ blob' = blob /\ verified' = verified /\ master' = master /\ modal' = modal
      /\ call' = call /\ flight' = flight /\ setups' = setups /\ shown' = shown /\ erased' = erased
      /\ broken' = broken /\ crossed' = crossed /\ late' = late /\ blind' = blind /\ banked' = banked
  BY DEF R!Restore, R!server, R!history, R!Cache, R!Read
<1>5. RecoveryTypes'
  <2>1. [read |-> FALSE, blob |-> [by |-> 0, keys |-> {}, maps |-> {}]] \in [read : BOOLEAN, blob : Bundle]
    BY DEF Bundle
  <2> QED BY <1>0, <1>1, <1>2, <1>3, <2>1 DEF RecoveryTypes
<1>6. Numbered'
  BY <1>0, <1>2, <1>4 DEF Numbered, RecoveryTypes, R!NoBlob, R!Nothing
<1>7. Unseen'
  BY <1>0, <1>2, <1>4 DEF Unseen, Unshown, Numbered
<1>8. OneSetup' /\ PhraseKnown'
  BY <1>0, <1>2 DEF OneSetup, PhraseKnown, Ours, Setting
<1>9. Written'
  <2> SUFFICES ASSUME NEW e \in Device PROVE
        /\ call'[e].pc # "idle" => modal'[e] # "closed"
        /\ master'[e] # 0 /\ blob'.by = master'[e] => Due(e)' \/ R!All(held'[e]) \subseteq R!All(blob') \/ late'[e] # {}
        /\ flight'[e].on => R!All(held'[e]) \subseteq R!All(flight'[e].blob) \/ timer'[e] \/ "dropped" \in late'[e] \/ "unwritten" \in late'[e]
    BY DEF Written
  <2>1. CASE e = d
    BY <1>0, <1>2, <1>3, <1>4, <2>1 DEF Written, Due
  <2>2. CASE e # d
    BY <1>0, <1>2, <1>4, <2>2 DEF Written, Due
  <2> QED BY <2>1, <2>2
<1>10. Taken'
  <2>1. \A e \in Device : R!All(held[e]) \subseteq R!All(held'[e]) \cup gone'
    BY <1>3, <1>4
  <2>2. \A e \in aware' : R!All(blob) \subseteq R!All(held'[e]) \cup gone'
    BY <1>0, <1>3, <1>4, <2>1 DEF Taken, RecoveryTypes
  <2>3. \A e \in Device : flight[e].on =>
          /\ R!All(flight[e].blob) \subseteq R!All(held'[e]) \cup gone'
          /\ (flight[e].aware => R!All(blob) \subseteq R!All(flight[e].blob) \cup gone')
    BY <1>0, <1>3, <2>1 DEF Taken
  <2>4. blind \/ banked \subseteq R!All(blob) \cup gone'
    BY <1>0, <1>3 DEF Taken
  <2> QED BY <1>2, <2>2, <2>3, <2>4 DEF Taken
<1> QED BY <1>5, <1>6, <1>7, <1>8, <1>9, <1>10 DEF RecoveryInv

\* A setup begins only while there is no salt.
LEMMA InitHeadKeeps ==
  ASSUME RecoveryInv, NEW d \in Device, R!InitHead(d) PROVE RecoveryInv'
<1>0. RecoveryTypes /\ Numbered /\ Unseen /\ OneSetup /\ PhraseKnown /\ Written /\ Taken
  BY DEF RecoveryInv
<1>1. /\ call[d].pc = "idle" /\ salt = 0 /\ modal[d] = "onboarding"
      /\ setups' = setups + 1 /\ crossed' = (crossed \/ \E e \in Device : call[e].pc = "salt")
      /\ call' = [call EXCEPT ![d] = [pc |-> "salt", setup |-> setups + 1, blob |-> [by |-> 0, keys |-> {}, maps |-> {}], mark |-> FALSE]]
  BY DEF R!InitHead, R!MayInit, R!NoBlob, R!Nothing
<1>4. /\ \A e \in Device \ {d} : call'[e] = call[e]
      /\ call'[d].pc = "salt" /\ call'[d].setup = setups + 1
  BY <1>0, <1>1 DEF RecoveryTypes
<1>2. /\ salt' = salt /\ blob' = blob /\ verified' = verified /\ master' = master /\ held' = held
      /\ modal' = modal /\ boot' = boot /\ timer' = timer /\ flight' = flight /\ shown' = shown
      /\ erased' = erased /\ broken' = broken /\ late' = late /\ aware' = aware /\ blind' = blind
      /\ banked' = banked /\ gone' = gone
  BY DEF R!InitHead, R!server, R!history, R!Cache, R!Read
<1>5. RecoveryTypes'
  <2>1. [pc |-> "salt", setup |-> setups + 1, blob |-> [by |-> 0, keys |-> {}, maps |-> {}], mark |-> FALSE] \in Calls /\ setups' \in Nat
    BY <1>0, <1>1 DEF RecoveryTypes, Calls, Bundle
  <2> QED BY <1>0, <1>1, <1>2, <2>1 DEF RecoveryTypes
<1>6. Numbered'
  <2>1. /\ salt \in Nat /\ erased \in Nat /\ blob.by \in Nat /\ setups \in Nat
        /\ \A p \in shown : p \in Nat
        /\ \A e \in Device : master[e] \in Nat /\ call[e].setup \in Nat
        /\ \A e \in Device : boot[e].blob.by \in Nat /\ flight[e].blob.by \in Nat
    BY <1>0 DEF RecoveryTypes, Bundle, Calls
  <2>2. \A n \in Nat : n <= setups => n <= setups'
    BY <1>1, <2>1
  <2>3. \A e \in Device : call'[e].setup <= setups' /\ (call'[e].pc # "idle" => call'[e].setup # 0)
    <3>1. setups + 1 <= setups' /\ setups + 1 # 0
      BY <1>1, <2>1
    <3> QED BY <1>0, <1>4, <2>1, <2>2, <3>1 DEF Numbered
  <2> QED BY <1>0, <1>2, <2>1, <2>2, <2>3 DEF Numbered, R!NoBlob
<1>7. Unseen'
  <2> SUFFICES ASSUME NEW e \in Device, Unshown(e)' PROVE
        /\ call'[e].setup \notin shown /\ blob.by # call'[e].setup
        /\ \A f \in Device : /\ master[f] # call'[e].setup /\ boot[f].blob.by # call'[e].setup
                             /\ (flight[f].on => flight[f].blob.by # call'[e].setup)
                             /\ (f # e /\ call'[f].pc # "idle" => call'[f].setup # call'[e].setup)
    BY <1>2 DEF Unseen
  <2>1. CASE e = d
    BY <1>0, <1>4, <2>1 DEF Numbered, RecoveryTypes, Bundle
  <2>2. CASE e # d
    <3>1. /\ call'[e] = call[e] /\ Unshown(e) /\ call[e].setup \in Nat /\ call[e].setup <= setups /\ setups \in Nat
      BY <1>0, <1>4, <2>2 DEF Unshown, Numbered, RecoveryTypes, Calls
    <3>2. call'[d].setup # call[e].setup
      BY <1>4, <3>1
    <3> QED BY <1>0, <1>4, <3>1, <3>2 DEF Unseen
  <2> QED BY <2>1, <2>2
<1>8. OneSetup' /\ PhraseKnown'
  BY <1>0, <1>1, <1>2, <1>4 DEF OneSetup, PhraseKnown, Ours
<1>9. Written'
  <2> SUFFICES ASSUME NEW e \in Device PROVE
        /\ call'[e].pc # "idle" => modal'[e] # "closed"
        /\ master'[e] # 0 /\ blob'.by = master'[e] => Due(e)' \/ R!All(held'[e]) \subseteq R!All(blob') \/ late'[e] # {}
        /\ flight'[e].on => R!All(held'[e]) \subseteq R!All(flight'[e].blob) \/ timer'[e] \/ "dropped" \in late'[e] \/ "unwritten" \in late'[e]
    BY DEF Written
  <2>1. CASE e = d
    BY <1>0, <1>1, <1>2, <1>4, <2>1 DEF Written, Due
  <2>2. CASE e # d
    BY <1>0, <1>2, <1>4, <2>2 DEF Written, Due
  <2> QED BY <2>1, <2>2
<1>10. Taken'
  BY <1>0, <1>2 DEF Taken
<1> QED BY <1>5, <1>6, <1>7, <1>8, <1>9, <1>10 DEF RecoveryInv

\* The salt is the setup's.
LEMMA InitSaltKeeps ==
  ASSUME RecoveryInv, NEW d \in Device, R!InitSalt(d) PROVE RecoveryInv'
<1>0. RecoveryTypes /\ Numbered /\ Unseen /\ OneSetup /\ PhraseKnown /\ Written /\ Taken
  BY DEF RecoveryInv
<1>1. /\ call[d].pc = "salt" /\ salt' = call[d].setup
      /\ call' = [call EXCEPT ![d] = [call[d] EXCEPT !.pc = "meta", !.mark = verified]]
  <2>1. /\ call[d].pc = "salt" /\ salt' = call[d].setup
        /\ call' = [call EXCEPT ![d].pc = "meta", ![d].mark = verified]
    BY DEF R!InitSalt
  <2> QED BY <2>1
<1>4. /\ \A e \in Device \ {d} : call'[e] = call[e]
      /\ call'[d].pc = "meta" /\ call'[d].setup = call[d].setup
  BY <1>0, <1>1 DEF RecoveryTypes
<1>2. /\ blob' = blob /\ verified' = verified /\ master' = master /\ held' = held /\ modal' = modal
      /\ boot' = boot /\ timer' = timer /\ flight' = flight /\ setups' = setups /\ shown' = shown
      /\ erased' = erased /\ broken' = broken /\ crossed' = crossed /\ late' = late /\ aware' = aware
      /\ blind' = blind /\ banked' = banked /\ gone' = gone
  BY DEF R!InitSalt, R!server, R!history, R!Cache, R!Read
<1>5. RecoveryTypes'
  <2>1. verified \in BOOLEAN /\ call[d].setup \in Nat
    BY <1>0 DEF RecoveryTypes, Calls
  <2>2. [call[d] EXCEPT !.pc = "meta", !.mark = verified] \in Calls
    <3>1. call[d] \in Calls
      BY <1>0 DEF RecoveryTypes
    <3> QED BY <2>1, <3>1 DEF Calls
  <2>3. call' \in [Device -> Calls]
    <3>1. PICK c \in Calls : call' = [call EXCEPT ![d] = c]
      BY <1>1, <2>2
    <3> QED BY <1>0, <3>1 DEF RecoveryTypes
  <2> QED BY <1>0, <1>1, <1>2, <2>1, <2>3 DEF RecoveryTypes
<1>6. Numbered'
  BY <1>0, <1>1, <1>2, <1>4 DEF Numbered
<1>7. Unseen'
  BY <1>0, <1>1, <1>2, <1>4 DEF Unseen, Unshown
<1>8. OneSetup' /\ PhraseKnown'
  <2>1. OneSetup'
    BY <1>0, <1>1, <1>2, <1>4 DEF OneSetup, Ours, Numbered, RecoveryTypes
  <2>2. PhraseKnown'
    BY <1>4 DEF PhraseKnown, Setting
  <2> QED BY <2>1, <2>2
<1>9. Written'
  <2> SUFFICES ASSUME NEW e \in Device PROVE
        /\ call'[e].pc # "idle" => modal'[e] # "closed"
        /\ master'[e] # 0 /\ blob'.by = master'[e] => Due(e)' \/ R!All(held'[e]) \subseteq R!All(blob') \/ late'[e] # {}
        /\ flight'[e].on => R!All(held'[e]) \subseteq R!All(flight'[e].blob) \/ timer'[e] \/ "dropped" \in late'[e] \/ "unwritten" \in late'[e]
    BY DEF Written
  <2>1. CASE e = d
    BY <1>0, <1>1, <1>2, <1>4, <2>1 DEF Written, Due
  <2>2. CASE e # d
    BY <1>0, <1>2, <1>4, <2>2 DEF Written, Due
  <2> QED BY <2>1, <2>2
<1>10. Taken'
  BY <1>0, <1>2 DEF Taken
<1> QED BY <1>5, <1>6, <1>7, <1>8, <1>9, <1>10 DEF RecoveryInv

\* The record of the user.
LEMMA InitMetaKeeps ==
  ASSUME RecoveryInv, NEW d \in Device, R!InitMeta(d) PROVE RecoveryInv'
<1>0. RecoveryTypes /\ Numbered /\ Unseen /\ OneSetup /\ PhraseKnown /\ Written /\ Taken
  BY DEF RecoveryInv
<1>1. /\ call[d].pc = "meta" /\ verified' = call[d].mark
      /\ call' = [call EXCEPT ![d].pc = "bundle"]
  BY DEF R!InitMeta
<1>4. /\ \A e \in Device \ {d} : call'[e] = call[e]
      /\ call'[d].pc = "bundle" /\ call'[d].setup = call[d].setup
  BY <1>0, <1>1 DEF RecoveryTypes
<1>2. /\ salt' = salt /\ blob' = blob /\ master' = master /\ held' = held /\ modal' = modal
      /\ boot' = boot /\ timer' = timer /\ flight' = flight /\ setups' = setups /\ shown' = shown
      /\ erased' = erased /\ broken' = broken /\ crossed' = crossed /\ late' = late /\ aware' = aware
      /\ blind' = blind /\ banked' = banked /\ gone' = gone
  BY DEF R!InitMeta, R!server, R!history, R!Cache, R!Read
<1>5. RecoveryTypes'
  <2>1. \A c \in Calls : [c EXCEPT !.pc = "bundle"] \in Calls
    BY DEF Calls
  <2>2. call' \in [Device -> Calls] /\ verified' \in BOOLEAN
    <3>1. call[d] \in Calls
      BY <1>0 DEF RecoveryTypes
    <3>2. call[d].mark \in BOOLEAN
      BY <3>1 DEF Calls
    <3> QED BY <1>0, <1>1, <2>1, <3>1, <3>2 DEF RecoveryTypes
  <2> QED BY <1>0, <1>2, <2>2 DEF RecoveryTypes
<1>6. Numbered'
  BY <1>0, <1>1, <1>2, <1>4 DEF Numbered
<1>7. Unseen'
  BY <1>0, <1>1, <1>2, <1>4 DEF Unseen, Unshown
<1>8. OneSetup' /\ PhraseKnown'
  BY <1>0, <1>1, <1>2, <1>4 DEF OneSetup, Ours, PhraseKnown, Setting
<1>9. Written'
  <2> SUFFICES ASSUME NEW e \in Device PROVE
        /\ call'[e].pc # "idle" => modal'[e] # "closed"
        /\ master'[e] # 0 /\ blob'.by = master'[e] => Due(e)' \/ R!All(held'[e]) \subseteq R!All(blob') \/ late'[e] # {}
        /\ flight'[e].on => R!All(held'[e]) \subseteq R!All(flight'[e].blob) \/ timer'[e] \/ "dropped" \in late'[e] \/ "unwritten" \in late'[e]
    BY DEF Written
  <2>1. CASE e = d
    BY <1>0, <1>1, <1>2, <1>4, <2>1 DEF Written, Due
  <2>2. CASE e # d
    BY <1>0, <1>2, <1>4, <2>2 DEF Written, Due
  <2> QED BY <2>1, <2>2
<1>10. Taken'
  BY <1>0, <1>2 DEF Taken
<1> QED BY <1>5, <1>6, <1>7, <1>8, <1>9, <1>10 DEF RecoveryInv

\* The first bundle.
LEMMA FirstBundleKeeps ==
  ASSUME RecoveryInv, NEW d \in Device, R!FirstBundle(d) PROVE RecoveryInv'
<1>0. RecoveryTypes /\ Numbered /\ Unseen /\ OneSetup /\ PhraseKnown /\ Written /\ Taken
  BY DEF RecoveryInv
<1>1. /\ call[d].pc = "bundle" /\ blob' = [by |-> call[d].setup, keys |-> {}, maps |-> {}] /\ aware' = {d}
      /\ blind' = (blind \/ blob # R!NoBlob) /\ call' = [call EXCEPT ![d].pc = "show"]
      /\ flight' = [e \in Device |-> [flight[e] EXCEPT !.aware = FALSE]]
  BY DEF R!FirstBundle, R!NoBlob, R!Nothing
<1>3. \A e \in Device : ~flight'[e].aware /\ flight'[e].on = flight[e].on /\ flight'[e].blob = flight[e].blob
  BY <1>0, <1>1 DEF RecoveryTypes
<1>4. /\ \A e \in Device \ {d} : call'[e] = call[e]
      /\ call'[d].pc = "show" /\ call'[d].setup = call[d].setup
  BY <1>0, <1>1 DEF RecoveryTypes
<1>2. /\ salt' = salt /\ verified' = verified /\ master' = master /\ held' = held /\ modal' = modal
      /\ boot' = boot /\ timer' = timer /\ setups' = setups /\ shown' = shown /\ erased' = erased
      /\ broken' = broken /\ crossed' = crossed /\ late' = late /\ banked' = banked /\ gone' = gone
  BY DEF R!FirstBundle, R!server, R!history, R!Cache, R!Read
<1>5. RecoveryTypes'
  <2>1. call[d].setup \in Nat /\ blob' \in Bundle
    BY <1>0, <1>1 DEF RecoveryTypes, Calls, Bundle
  <2>2. call' \in [Device -> Calls]
    <3>1. \A c \in Calls : [c EXCEPT !.pc = "show"] \in Calls
      BY DEF Calls
    <3> QED BY <1>0, <1>1, <3>1 DEF RecoveryTypes
  <2>3. flight' \in [Device -> [on : BOOLEAN, blob : Bundle, aware : BOOLEAN]]
    BY <1>0, <1>1 DEF RecoveryTypes
  <2>4. blind' \in BOOLEAN /\ aware' \in SUBSET Device
    BY <1>0, <1>1 DEF RecoveryTypes
  <2> QED BY <1>0, <1>2, <2>1, <2>2, <2>3, <2>4 DEF RecoveryTypes
<1>6. Numbered'
  BY <1>0, <1>1, <1>2, <1>3, <1>4 DEF Numbered
<1>7. Unseen'
  <2>1. blob'.by = call[d].setup /\ call[d].pc # "idle"
    BY <1>1
  <2> QED BY <1>0, <1>2, <1>3, <1>4, <2>1 DEF Unseen, Unshown
<1>8. OneSetup' /\ PhraseKnown'
  <2>1. blob'.by = call[d].setup /\ call[d].pc # "idle"
    BY <1>1
  <2>2. OneSetup'
    BY <1>0, <1>1, <1>2, <1>3, <1>4, <2>1 DEF OneSetup, Ours, Numbered
  <2>3. PhraseKnown'
    BY <1>4 DEF PhraseKnown, Setting
  <2> QED BY <2>2, <2>3
<1>9. Written'
  <2> SUFFICES ASSUME NEW e \in Device PROVE
        /\ call'[e].pc # "idle" => modal[e] # "closed"
        /\ blob'.by # master[e]
        /\ flight[e].on => R!All(held[e]) \subseteq R!All(flight[e].blob) \/ timer[e] \/ "dropped" \in late[e] \/ "unwritten" \in late[e]
    BY <1>2, <1>3 DEF Written
  <2>1. blob'.by = call[d].setup /\ Unshown(d) /\ call[d].pc # "idle"
    BY <1>1 DEF Unshown
  <2> QED BY <1>0, <1>4, <2>1 DEF Written, Unseen
<1>10. Taken'
  <2>1. R!All(blob') = {}
    BY <1>1 DEF R!All
  <2>2. blind' \/ banked \subseteq gone
    <3>1. R!All(R!NoBlob) = {}
      BY DEF R!NoBlob, R!All
    <3> QED BY <1>0, <1>1, <3>1 DEF Taken
  <2>3. \A e \in Device : flight'[e].on => R!All(flight'[e].blob) \subseteq R!All(held[e]) \cup gone
    BY <1>0, <1>3 DEF Taken
  <2>4. \A e \in aware' : R!All(blob') \subseteq R!All(held'[e]) \cup gone
    BY <2>1
  <2>5. \A e \in Device : flight'[e].on => R!All(blob') \subseteq R!All(flight'[e].blob) \cup gone
    BY <2>1
  <2>6. blind' \/ banked' \subseteq R!All(blob') \cup gone
    BY <1>2, <2>1, <2>2
  <2> QED BY <1>2, <2>3, <2>4, <2>5, <2>6 DEF Taken
<1> QED BY <1>5, <1>6, <1>7, <1>8, <1>9, <1>10 DEF RecoveryInv

\* The phrase is shown: what the device held is due, or was not written.
LEMMA ShowKeeps ==
  ASSUME RecoveryInv, NEW d \in Device, R!Show(d) PROVE RecoveryInv'
<1>0. RecoveryTypes /\ Numbered /\ Unseen /\ OneSetup /\ PhraseKnown /\ Written /\ Taken
  BY DEF RecoveryInv
<1>1. /\ call[d].pc = "show" /\ master' = [master EXCEPT ![d] = call[d].setup]
      /\ shown' = shown \cup {call[d].setup} /\ modal' = [modal EXCEPT ![d] = "free"]
      /\ late' = [late EXCEPT ![d] = late[d] \cup (IF timer[d] THEN {} ELSE {"unwritten"})]
      /\ call' = [call EXCEPT ![d] = [pc |-> "idle", setup |-> 0, blob |-> [by |-> 0, keys |-> {}, maps |-> {}], mark |-> FALSE]]
  BY DEF R!Show, R!Cache, R!Idle, R!NoBlob, R!Nothing
<1>3. PICK L \in SUBSET Fault : /\ late[d] \subseteq L /\ (timer[d] \/ L # {}) /\ late' = [late EXCEPT ![d] = L]
  <2>1. /\ late[d] \cup (IF timer[d] THEN {} ELSE {"unwritten"}) \in SUBSET Fault
        /\ timer[d] \/ late[d] \cup (IF timer[d] THEN {} ELSE {"unwritten"}) # {}
    BY <1>0 DEF RecoveryTypes, Fault
  <2> QED BY <1>1, <2>1
<1>11. call[d].setup \in Nat
  BY <1>0 DEF RecoveryTypes, Calls
<1>4. /\ \A e \in Device \ {d} : call'[e] = call[e] /\ master'[e] = master[e] /\ late'[e] = late[e] /\ modal'[e] = modal[e]
      /\ call'[d] = [pc |-> "idle", setup |-> 0, blob |-> [by |-> 0, keys |-> {}, maps |-> {}], mark |-> FALSE]
      /\ master'[d] = call[d].setup /\ late'[d] = L /\ modal'[d] = "free"
  BY <1>0, <1>1, <1>3 DEF RecoveryTypes
<1>2. /\ salt' = salt /\ blob' = blob /\ verified' = verified /\ held' = held /\ boot' = boot
      /\ timer' = timer /\ flight' = flight /\ setups' = setups /\ erased' = erased /\ broken' = broken
      /\ crossed' = crossed /\ aware' = aware /\ blind' = blind /\ banked' = banked /\ gone' = gone
  BY DEF R!Show, R!server, R!history, R!Cache, R!Read
<1>5. RecoveryTypes'
  <2>1. [pc |-> "idle", setup |-> 0, blob |-> [by |-> 0, keys |-> {}, maps |-> {}], mark |-> FALSE] \in Calls
    BY DEF Calls, Bundle
  <2> QED BY <1>0, <1>1, <1>2, <1>3, <1>11, <2>1 DEF RecoveryTypes
<1>6. Numbered'
  BY <1>0, <1>1, <1>2, <1>4, <1>11 DEF Numbered, RecoveryTypes
<1>7. Unseen'
  BY <1>0, <1>1, <1>2, <1>4 DEF Unseen, Unshown
<1>8. OneSetup' /\ PhraseKnown'
  BY <1>0, <1>1, <1>2, <1>4 DEF OneSetup, Ours, PhraseKnown
<1>9. Written'
  <2> SUFFICES ASSUME NEW e \in Device PROVE
        /\ call'[e].pc # "idle" => modal'[e] # "closed"
        /\ master'[e] # 0 /\ blob'.by = master'[e] => Due(e)' \/ R!All(held'[e]) \subseteq R!All(blob') \/ late'[e] # {}
        /\ flight'[e].on => R!All(held'[e]) \subseteq R!All(flight'[e].blob) \/ timer'[e] \/ "dropped" \in late'[e] \/ "unwritten" \in late'[e]
    BY DEF Written
  <2>1. CASE e = d
    BY <1>0, <1>2, <1>3, <1>4, <2>1 DEF Written, Due
  <2>2. CASE e # d
    BY <1>0, <1>2, <1>4, <2>2 DEF Written, Due
  <2> QED BY <2>1, <2>2
<1>10. Taken'
  BY <1>0, <1>2 DEF Taken
<1> QED BY <1>5, <1>6, <1>7, <1>8, <1>9, <1>10 DEF RecoveryInv

\* A setup breaks off.
LEMMA SetupFailsKeeps ==
  ASSUME RecoveryInv, NEW d \in Device, R!SetupFails(d) PROVE RecoveryInv'
<1>0. RecoveryTypes /\ Numbered /\ Unseen /\ OneSetup /\ PhraseKnown /\ Written /\ Taken
  BY DEF RecoveryInv
<1>1. /\ call[d].pc \in {"bundle", "show"} /\ broken' = broken \cup {call[d].setup}
      /\ call' = [call EXCEPT ![d] = [pc |-> "idle", setup |-> 0, blob |-> [by |-> 0, keys |-> {}, maps |-> {}], mark |-> FALSE]]
  BY DEF R!SetupFails, R!Idle, R!NoBlob, R!Nothing
<1>4. /\ \A e \in Device \ {d} : call'[e] = call[e]
      /\ call'[d] = [pc |-> "idle", setup |-> 0, blob |-> [by |-> 0, keys |-> {}, maps |-> {}], mark |-> FALSE]
  BY <1>0, <1>1 DEF RecoveryTypes
<1>2. /\ salt' = salt /\ blob' = blob /\ verified' = verified /\ master' = master /\ held' = held
      /\ modal' = modal /\ boot' = boot /\ timer' = timer /\ flight' = flight /\ setups' = setups
      /\ shown' = shown /\ erased' = erased /\ crossed' = crossed /\ late' = late /\ aware' = aware
      /\ blind' = blind /\ banked' = banked /\ gone' = gone
  BY DEF R!SetupFails, R!server, R!history, R!Cache, R!Read
<1>5. RecoveryTypes'
  <2>1. [pc |-> "idle", setup |-> 0, blob |-> [by |-> 0, keys |-> {}, maps |-> {}], mark |-> FALSE] \in Calls
    BY DEF Calls, Bundle
  <2> QED BY <1>0, <1>1, <1>2, <2>1 DEF RecoveryTypes
<1>6. Numbered'
  <2>1. 0 <= setups
    BY <1>0 DEF RecoveryTypes
  <2>2. call'[d].setup = 0 /\ call'[d].pc = "idle"
    BY <1>4
  <2> QED BY <1>0, <1>2, <1>4, <2>1, <2>2 DEF Numbered
<1>7. Unseen'
  BY <1>0, <1>2, <1>4 DEF Unseen, Unshown
<1>8. OneSetup' /\ PhraseKnown'
  BY <1>0, <1>1, <1>2, <1>4 DEF OneSetup, Ours, PhraseKnown
<1>9. Written'
  <2> SUFFICES ASSUME NEW e \in Device PROVE
        /\ call'[e].pc # "idle" => modal'[e] # "closed"
        /\ master'[e] # 0 /\ blob'.by = master'[e] => Due(e)' \/ R!All(held'[e]) \subseteq R!All(blob') \/ late'[e] # {}
        /\ flight'[e].on => R!All(held'[e]) \subseteq R!All(flight'[e].blob) \/ timer'[e] \/ "dropped" \in late'[e] \/ "unwritten" \in late'[e]
    BY DEF Written
  <2>1. CASE e = d
    BY <1>0, <1>2, <1>4, <2>1 DEF Written, Due
  <2>2. CASE e # d
    BY <1>0, <1>2, <1>4, <2>2 DEF Written, Due
  <2> QED BY <2>1, <2>2
<1>10. Taken'
  BY <1>0, <1>2 DEF Taken
<1> QED BY <1>5, <1>6, <1>7, <1>8, <1>9, <1>10 DEF RecoveryInv

\* The phrase of the salt, which opens the bundle.
LEMMA PhraseKeeps ==
  ASSUME RecoveryInv, NEW d \in Device, NEW p \in shown, R!Enter(d, p) PROVE RecoveryInv'
<1>0. RecoveryTypes /\ Numbered /\ Unseen /\ OneSetup /\ PhraseKnown /\ Written /\ Taken
  BY DEF RecoveryInv
<1>1. /\ call[d].pc = "idle" /\ modal[d] \in {"verify", "prompt"} /\ p \in shown /\ p = salt
      /\ call' = [call EXCEPT ![d] = [pc |-> "restore", setup |-> p, blob |-> blob, mark |-> TRUE]]
  BY DEF R!Enter
<1>4. /\ \A e \in Device \ {d} : call'[e] = call[e]
      /\ call'[d].pc = "restore" /\ call'[d].setup = p
  BY <1>0, <1>1 DEF RecoveryTypes
<1>2. /\ salt' = salt /\ blob' = blob /\ verified' = verified /\ master' = master /\ held' = held
      /\ modal' = modal /\ boot' = boot /\ timer' = timer /\ flight' = flight /\ setups' = setups
      /\ shown' = shown /\ erased' = erased /\ broken' = broken /\ crossed' = crossed /\ late' = late
      /\ aware' = aware /\ blind' = blind /\ banked' = banked /\ gone' = gone
  BY DEF R!Enter, R!server, R!history, R!Cache, R!Read
<1>5. RecoveryTypes'
  <2>1. [pc |-> "restore", setup |-> p, blob |-> blob, mark |-> TRUE] \in Calls
    BY <1>0, <1>1 DEF RecoveryTypes, Calls, Bundle
  <2> QED BY <1>0, <1>1, <1>2, <2>1 DEF RecoveryTypes
<1>6. Numbered'
  <2>1. p # 0 /\ p <= setups
    BY <1>0, <1>1 DEF Numbered, RecoveryTypes
  <2> QED BY <1>0, <1>2, <1>4, <2>1 DEF Numbered
<1>7. Unseen'
  BY <1>0, <1>1, <1>2, <1>4 DEF Unseen, Unshown
<1>8. OneSetup' /\ PhraseKnown'
  <2>1. OneSetup'
    BY <1>0, <1>1, <1>2, <1>4 DEF OneSetup, Ours
  <2>2. \A e \in Device : Setting(e) => Setting(e)'
    BY <1>1, <1>4 DEF Setting
  <2>3. PhraseKnown'
    BY <1>0, <1>2, <2>2 DEF PhraseKnown, Ours
  <2> QED BY <2>1, <2>3
<1>9. Written'
  <2> SUFFICES ASSUME NEW e \in Device PROVE
        /\ call'[e].pc # "idle" => modal'[e] # "closed"
        /\ master'[e] # 0 /\ blob'.by = master'[e] => Due(e)' \/ R!All(held'[e]) \subseteq R!All(blob') \/ late'[e] # {}
        /\ flight'[e].on => R!All(held'[e]) \subseteq R!All(flight'[e].blob) \/ timer'[e] \/ "dropped" \in late'[e] \/ "unwritten" \in late'[e]
    BY DEF Written
  <2>1. CASE e = d
    BY <1>0, <1>1, <1>2, <1>4, <2>1 DEF Written, Due
  <2>2. CASE e # d
    BY <1>0, <1>2, <1>4, <2>2 DEF Written, Due
  <2> QED BY <2>1, <2>2
<1>10. Taken'
  BY <1>0, <1>2 DEF Taken
<1> QED BY <1>5, <1>6, <1>7, <1>8, <1>9, <1>10 DEF RecoveryInv

\* Keys of the bundle are added to the device's.
LEMMA RecoverKeeps ==
  ASSUME RecoveryInv, NEW d \in Device, R!Recover(d) PROVE RecoveryInv'
<1>0. RecoveryTypes /\ Numbered /\ Unseen /\ OneSetup /\ PhraseKnown /\ Written /\ Taken
  BY DEF RecoveryInv
<1> DEFINE b == call[d].blob
           H == R!Restored(d, b)
           due == timer[d] \/ ~(b.keys \subseteq R!Skipped(d, b))
<1>1. /\ call[d].pc = "restore" /\ master' = [master EXCEPT ![d] = call[d].setup]
      /\ held' = [held EXCEPT ![d] = H] /\ R!Missed(d, b)
      /\ timer' = [timer EXCEPT ![d] = due]
      /\ late' = [late EXCEPT ![d] = late[d] \cup (IF due THEN {} ELSE {"unwritten"})]
      /\ aware' = IF b = blob THEN aware \cup {d} ELSE aware
      /\ call' = [call EXCEPT ![d].pc = "mark"]
  BY DEF R!Recover, R!Cache, R!Read
<1>11. call[d].setup \in Nat /\ b \in Bundle /\ timer[d] \in BOOLEAN /\ due \in BOOLEAN
  BY <1>0 DEF RecoveryTypes, Calls
<1>13. /\ H \in Holdings /\ gone' \in SUBSET Key /\ gone \subseteq gone'
       /\ R!All(held[d]) \subseteq R!All(H) \cup gone' /\ R!All(b) \subseteq R!All(H) \cup gone'
  BY <1>0, <1>1, <1>11, TakingOver
<1> HIDE DEF b, H, due
<1>3. PICK t \in BOOLEAN, L \in SUBSET Fault :
        /\ late[d] \subseteq L /\ (t \/ "unwritten" \in L)
        /\ timer' = [timer EXCEPT ![d] = t] /\ late' = [late EXCEPT ![d] = L]
  <2>1. late[d] \in SUBSET Fault /\ "unwritten" \in Fault
    BY <1>0 DEF RecoveryTypes, Fault
  <2>2. CASE due
    <3>1. timer' = [timer EXCEPT ![d] = TRUE] /\ late' = [late EXCEPT ![d] = late[d]]
      BY <1>1, <1>11, <2>2
    <3> QED BY <2>1, <3>1
  <2>3. CASE ~due
    <3>1. timer' = [timer EXCEPT ![d] = FALSE] /\ late' = [late EXCEPT ![d] = late[d] \cup {"unwritten"}]
      BY <1>1, <1>11, <2>3
    <3> QED BY <2>1, <3>1
  <2> QED BY <2>2, <2>3
<1>12. /\ aware' \subseteq aware \cup {d}
       /\ d \in aware' => R!All(blob) \subseteq R!All(H) \cup gone'
  <2>1. blob = b \/ aware' = aware
    BY <1>1
  <2>2. d \in aware => R!All(blob) \subseteq R!All(H) \cup gone'
    BY <1>0, <1>13 DEF Taken
  <2> QED BY <1>1, <1>13, <2>1, <2>2
<1>4. /\ \A e \in Device \ {d} : /\ call'[e] = call[e] /\ master'[e] = master[e] /\ late'[e] = late[e]
                                 /\ held'[e] = held[e] /\ timer'[e] = timer[e]
      /\ call'[d].pc = "mark" /\ call'[d].setup = call[d].setup
      /\ master'[d] = call[d].setup /\ late'[d] = L /\ held'[d] = H /\ timer'[d] = t
  BY <1>0, <1>1, <1>3, <1>13 DEF RecoveryTypes
<1>2. /\ salt' = salt /\ blob' = blob /\ verified' = verified /\ modal' = modal /\ boot' = boot
      /\ flight' = flight /\ setups' = setups /\ shown' = shown /\ erased' = erased /\ broken' = broken
      /\ crossed' = crossed /\ blind' = blind /\ banked' = banked
  BY DEF R!Recover, R!server, R!history, R!Cache, R!Read
<1>5. RecoveryTypes'
  <2>4. \A c \in Calls : [c EXCEPT !.pc = "mark"] \in Calls
    BY DEF Calls
  <2>1. call' \in [Device -> Calls]
    BY <1>0, <1>1, <2>4 DEF RecoveryTypes
  <2>2. aware' \in SUBSET Device
    BY <1>0, <1>12 DEF RecoveryTypes
  <2> QED BY <1>0, <1>1, <1>2, <1>3, <1>11, <1>13, <2>1, <2>2 DEF RecoveryTypes
<1>6. Numbered'
  BY <1>0, <1>1, <1>2, <1>4 DEF Numbered
<1>7. Unseen'
  BY <1>0, <1>1, <1>2, <1>4 DEF Unseen, Unshown
<1>8. OneSetup' /\ PhraseKnown'
  <2>1. OneSetup'
    BY <1>0, <1>1, <1>2, <1>4 DEF OneSetup, Ours
  <2>2. \A e \in Device : Setting(e) => Setting(e)'
    BY <1>1, <1>4 DEF Setting
  <2>3. PhraseKnown'
    BY <1>0, <1>2, <2>2 DEF PhraseKnown, Ours
  <2> QED BY <2>1, <2>3
<1>9. Written'
  <2> SUFFICES ASSUME NEW e \in Device PROVE
        /\ call'[e].pc # "idle" => modal'[e] # "closed"
        /\ master'[e] # 0 /\ blob'.by = master'[e] => Due(e)' \/ R!All(held'[e]) \subseteq R!All(blob') \/ late'[e] # {}
        /\ flight'[e].on => R!All(held'[e]) \subseteq R!All(flight'[e].blob) \/ timer'[e] \/ "dropped" \in late'[e] \/ "unwritten" \in late'[e]
    BY DEF Written
  <2>1. CASE e = d
    BY <1>0, <1>1, <1>2, <1>3, <1>4, <2>1 DEF Written, Due
  <2>2. CASE e # d
    BY <1>0, <1>2, <1>4, <2>2 DEF Written, Due
  <2> QED BY <2>1, <2>2
<1>10. Taken'
  <2>1. \A e \in aware' : R!All(blob) \subseteq R!All(held'[e]) \cup gone'
    BY <1>0, <1>4, <1>12, <1>13 DEF Taken, RecoveryTypes
  <2>2. \A e \in Device : R!All(held[e]) \subseteq R!All(held'[e]) \cup gone'
    BY <1>4, <1>13
  <2>3. \A e \in Device : flight[e].on =>
          /\ R!All(flight[e].blob) \subseteq R!All(held'[e]) \cup gone'
          /\ (flight[e].aware => R!All(blob) \subseteq R!All(flight[e].blob) \cup gone')
    BY <1>0, <1>13, <2>2 DEF Taken
  <2>4. blind \/ banked \subseteq R!All(blob) \cup gone'
    BY <1>0, <1>13 DEF Taken
  <2> QED BY <1>2, <2>1, <2>3, <2>4 DEF Taken
<1> QED BY <1>5, <1>6, <1>7, <1>8, <1>9, <1>10 DEF RecoveryInv

\* The user has entered the phrase.
LEMMA MarkKeeps ==
  ASSUME RecoveryInv, NEW d \in Device, R!Mark(d) PROVE RecoveryInv'
<1>0. RecoveryTypes /\ Numbered /\ Unseen /\ OneSetup /\ PhraseKnown /\ Written /\ Taken
  BY DEF RecoveryInv
<1>1. /\ call[d].pc = "mark" /\ call' = [call EXCEPT ![d] = [pc |-> "idle", setup |-> 0, blob |-> [by |-> 0, keys |-> {}, maps |-> {}], mark |-> FALSE]]
      /\ verified' \in {verified, TRUE}
  BY DEF R!Mark, R!Idle, R!NoBlob, R!Nothing
<1>3. PICK m \in {modal[d], "free"} : modal' = [modal EXCEPT ![d] = m]
  <2>1. modal = [modal EXCEPT ![d] = modal[d]]
    BY <1>0 DEF RecoveryTypes
  <2> QED BY <2>1 DEF R!Mark
<1>4. /\ \A e \in Device \ {d} : call'[e] = call[e] /\ modal'[e] = modal[e]
      /\ call'[d] = [pc |-> "idle", setup |-> 0, blob |-> [by |-> 0, keys |-> {}, maps |-> {}], mark |-> FALSE] /\ modal'[d] = m
  BY <1>0, <1>1, <1>3 DEF RecoveryTypes
<1>2. /\ salt' = salt /\ blob' = blob /\ master' = master /\ held' = held /\ boot' = boot
      /\ timer' = timer /\ flight' = flight /\ setups' = setups /\ shown' = shown /\ erased' = erased
      /\ broken' = broken /\ crossed' = crossed /\ late' = late /\ aware' = aware /\ blind' = blind
      /\ banked' = banked /\ gone' = gone
  BY DEF R!Mark, R!server, R!history, R!Cache, R!Read
<1>5. RecoveryTypes'
  <2>1. [pc |-> "idle", setup |-> 0, blob |-> [by |-> 0, keys |-> {}, maps |-> {}], mark |-> FALSE] \in Calls /\ m \in {"closed", "free", "onboarding", "verify", "prompt"}
    BY <1>0 DEF Calls, Bundle, RecoveryTypes
  <2> QED BY <1>0, <1>1, <1>2, <1>3, <2>1 DEF RecoveryTypes
<1>6. Numbered'
  <2>1. 0 <= setups
    BY <1>0 DEF RecoveryTypes
  <2>2. call'[d].setup = 0 /\ call'[d].pc = "idle"
    BY <1>4
  <2> QED BY <1>0, <1>2, <1>4, <2>1, <2>2 DEF Numbered
<1>7. Unseen'
  BY <1>0, <1>2, <1>4 DEF Unseen, Unshown
<1>8. OneSetup' /\ PhraseKnown'
  <2>1. OneSetup'
    BY <1>0, <1>1, <1>2, <1>4 DEF OneSetup, Ours
  <2>2. \A e \in Device : Setting(e) => Setting(e)'
    BY <1>1, <1>4 DEF Setting
  <2>3. PhraseKnown'
    BY <1>0, <1>2, <2>2 DEF PhraseKnown, Ours
  <2> QED BY <2>1, <2>3
<1>9. Written'
  <2> SUFFICES ASSUME NEW e \in Device PROVE
        /\ call'[e].pc # "idle" => modal'[e] # "closed"
        /\ master'[e] # 0 /\ blob'.by = master'[e] => Due(e)' \/ R!All(held'[e]) \subseteq R!All(blob') \/ late'[e] # {}
        /\ flight'[e].on => R!All(held'[e]) \subseteq R!All(flight'[e].blob) \/ timer'[e] \/ "dropped" \in late'[e] \/ "unwritten" \in late'[e]
    BY DEF Written
  <2>1. CASE e = d
    BY <1>0, <1>1, <1>2, <1>3, <1>4, <2>1 DEF Written, Due
  <2>2. CASE e # d
    BY <1>0, <1>2, <1>4, <2>2 DEF Written, Due
  <2> QED BY <2>1, <2>2
<1>10. Taken'
  BY <1>0, <1>2 DEF Taken
<1> QED BY <1>5, <1>6, <1>7, <1>8, <1>9, <1>10 DEF RecoveryInv

\* A key is added, and a sync is due; or a group is left.
LEMMA AddKeyKeeps ==
  ASSUME RecoveryInv, NEW d \in Device, NEW k \in Key, R!AddKey(d, k) \/ R!Leave(d, k) PROVE RecoveryInv'
<1>0. RecoveryTypes /\ Numbered /\ Unseen /\ OneSetup /\ PhraseKnown /\ Written /\ Taken
  BY DEF RecoveryInv
<1>3. /\ held[d] \in Holdings /\ held[d].keys \in SUBSET Key /\ held[d].maps \in SUBSET Key
      /\ gone \in SUBSET Key /\ timer[d] \in BOOLEAN /\ timer = [timer EXCEPT ![d] = timer[d]]
      /\ held[d] = [keys |-> held[d].keys, maps |-> held[d].maps]
  BY <1>0 DEF RecoveryTypes, Holdings
<1>1. PICK H \in Holdings, t \in BOOLEAN :
        /\ held' = [held EXCEPT ![d] = H] /\ timer' = [timer EXCEPT ![d] = t]
        /\ gone' \in SUBSET Key /\ gone \subseteq gone'
        /\ R!All(held[d]) \subseteq R!All(H) \cup gone'
        /\ t \/ (t = timer[d] /\ R!All(H) \subseteq R!All(held[d]))
  <2> DEFINE old == R!Fellows(k, held[d].keys)
             put == IF R!Fellows(k, held[d].maps) = {} THEN old \union {k} ELSE {k}
             H1 == [keys |-> held[d].keys \union {k}, maps |-> held[d].maps]
             H2 == [keys |-> (held[d].keys \ old) \union {k}, maps |-> held[d].maps \union put]
             H3 == [keys |-> (held[d].keys \ old) \union {k}, maps |-> held[d].maps]
             H4 == [keys |-> held[d].keys \ {k}, maps |-> held[d].maps]
  <2>0. old \subseteq held[d].keys /\ put \subseteq old \union {k}
    BY DEF R!Fellows
  <2>1. H1 \in Holdings /\ H2 \in Holdings /\ H3 \in Holdings /\ H4 \in Holdings
    BY <1>3, <2>0 DEF Holdings
  <2>2. /\ R!All(held[d]) = held[d].keys \union held[d].maps
        /\ R!All(H1) = (held[d].keys \union {k}) \union held[d].maps
        /\ R!All(H2) = ((held[d].keys \ old) \union {k}) \union (held[d].maps \union put)
        /\ R!All(H3) = ((held[d].keys \ old) \union {k}) \union held[d].maps
        /\ R!All(H4) = (held[d].keys \ {k}) \union held[d].maps
    BY DEF R!All
  <2>3. CASE R!AddKey(d, k) /\ R!First(d, k)
    <3>1. held' = [held EXCEPT ![d] = H1] /\ timer' = [timer EXCEPT ![d] = TRUE] /\ gone' = gone
      <4>1. held' = [held EXCEPT ![d] = [held[d] EXCEPT !.keys = held[d].keys \union {k}]] /\ gone' = gone
        BY <2>3 DEF R!First
      <4>2. [held[d] EXCEPT !.keys = held[d].keys \union {k}] = H1
        BY <1>3 DEF Holdings
      <4> QED BY <2>3, <4>1, <4>2 DEF R!AddKey
    <3> HIDE DEF old, put, H1, H2, H3, H4
    <3> QED BY <1>3, <2>1, <2>2, <3>1
  <2>4. CASE R!AddKey(d, k) /\ R!Rotate(d, k)
    <3>1. /\ held' = [held EXCEPT ![d] = H2] /\ timer' = [timer EXCEPT ![d] = TRUE]
          /\ gone' = gone \union (old \ (held[d].maps \union put))
      BY <2>4 DEF R!AddKey, R!Rotate
    <3> HIDE DEF old, put, H1, H2, H3, H4
    <3>2. gone' \in SUBSET Key /\ gone \subseteq gone' /\ R!All(held[d]) \subseteq R!All(H2) \cup gone'
      BY <1>3, <2>0, <2>2, <3>1
    <3> QED BY <2>1, <3>1, <3>2
  <2>5. CASE R!AddKey(d, k) /\ R!Renew(d, k)
    <3>1. /\ held' = [held EXCEPT ![d] = H3] /\ timer' = [timer EXCEPT ![d] = TRUE] /\ gone' = gone \union old
      <4>1. /\ held' = [held EXCEPT ![d] = [held[d] EXCEPT !.keys = (held[d].keys \ old) \union {k}]]
            /\ gone' = gone \union old
        BY <2>5 DEF R!Renew
      <4>2. [held[d] EXCEPT !.keys = (held[d].keys \ old) \union {k}] = H3
        BY <1>3 DEF Holdings
      <4> QED BY <2>5, <4>1, <4>2 DEF R!AddKey
    <3> HIDE DEF old, put, H1, H2, H3, H4
    <3>2. gone' \in SUBSET Key /\ gone \subseteq gone' /\ R!All(held[d]) \subseteq R!All(H3) \cup gone'
      BY <1>3, <2>0, <2>2, <3>1
    <3> QED BY <2>1, <3>1, <3>2
  <2>6. CASE R!Leave(d, k)
    <3>1. held' = [held EXCEPT ![d] = H4] /\ timer' = timer /\ gone' = gone \union {k}
      <4>1. /\ held' = [held EXCEPT ![d] = [held[d] EXCEPT !.keys = held[d].keys \ {k}]]
            /\ timer' = timer /\ gone' = gone \union {k}
        BY <2>6 DEF R!Leave
      <4>2. [held[d] EXCEPT !.keys = held[d].keys \ {k}] = H4
        BY <1>3 DEF Holdings
      <4> QED BY <4>1, <4>2
    <3> HIDE DEF old, put, H1, H2, H3, H4
    <3>2. /\ gone' \in SUBSET Key /\ gone \subseteq gone' /\ R!All(held[d]) \subseteq R!All(H4) \cup gone'
          /\ R!All(H4) \subseteq R!All(held[d])
      BY <1>3, <2>2, <3>1
    <3> QED BY <1>3, <2>1, <3>1, <3>2
  <2> QED BY <2>3, <2>4, <2>5, <2>6 DEF R!AddKey
<1>4. /\ \A e \in Device \ {d} : held'[e] = held[e] /\ timer'[e] = timer[e]
      /\ held'[d] = H /\ timer'[d] = t
  BY <1>0, <1>1 DEF RecoveryTypes
<1>2. /\ salt' = salt /\ blob' = blob /\ verified' = verified /\ master' = master /\ modal' = modal
      /\ call' = call /\ boot' = boot /\ flight' = flight /\ setups' = setups /\ shown' = shown
      /\ erased' = erased /\ broken' = broken /\ crossed' = crossed /\ late' = late /\ aware' = aware
      /\ blind' = blind /\ banked' = banked
  BY DEF R!AddKey, R!Leave, R!server
<1>5. RecoveryTypes'
  BY <1>0, <1>1, <1>2 DEF RecoveryTypes
<1>6. Numbered'
  BY <1>0, <1>2 DEF Numbered
<1>7. Unseen'
  BY <1>0, <1>2 DEF Unseen, Unshown
<1>8. OneSetup' /\ PhraseKnown'
  BY <1>0, <1>2 DEF OneSetup, Ours, PhraseKnown, Setting
<1>9. Written'
  <2> SUFFICES ASSUME NEW e \in Device PROVE
        /\ call'[e].pc # "idle" => modal'[e] # "closed"
        /\ master'[e] # 0 /\ blob'.by = master'[e] => Due(e)' \/ R!All(held'[e]) \subseteq R!All(blob') \/ late'[e] # {}
        /\ flight'[e].on => R!All(held'[e]) \subseteq R!All(flight'[e].blob) \/ timer'[e] \/ "dropped" \in late'[e] \/ "unwritten" \in late'[e]
    BY DEF Written
  <2>1. CASE e = d
    <3>1. CASE t
      BY <1>0, <1>2, <1>4, <2>1, <3>1 DEF Written, Due
    <3>2. CASE t = timer[d] /\ R!All(H) \subseteq R!All(held[d])
      BY <1>0, <1>2, <1>4, <2>1, <3>2 DEF Written, Due
    <3> QED BY <1>1, <3>1, <3>2
  <2>2. CASE e # d
    BY <1>0, <1>2, <1>4, <2>2 DEF Written, Due
  <2> QED BY <2>1, <2>2
<1>10. Taken'
  <2>1. \A e \in Device : R!All(held[e]) \subseteq R!All(held'[e]) \cup gone'
    BY <1>1, <1>4
  <2>2. \A e \in aware : R!All(blob) \subseteq R!All(held'[e]) \cup gone'
    BY <1>0, <1>1, <2>1 DEF Taken, RecoveryTypes
  <2>3. \A e \in Device : flight[e].on =>
          /\ R!All(flight[e].blob) \subseteq R!All(held'[e]) \cup gone'
          /\ (flight[e].aware => R!All(blob) \subseteq R!All(flight[e].blob) \cup gone')
    BY <1>0, <1>1, <2>1 DEF Taken
  <2>4. blind \/ banked \subseteq R!All(blob) \cup gone'
    BY <1>0, <1>1 DEF Taken
  <2> QED BY <1>2, <2>2, <2>3, <2>4 DEF Taken
<1> QED BY <1>5, <1>6, <1>7, <1>8, <1>9, <1>10 DEF RecoveryInv

\* A sync holds all that the device holds when it begins.
LEMMA FireKeeps ==
  ASSUME RecoveryInv, NEW d \in Device, R!Fire(d) PROVE RecoveryInv'
<1>0. RecoveryTypes /\ Numbered /\ Unseen /\ OneSetup /\ PhraseKnown /\ Written /\ Taken
  BY DEF RecoveryInv
<1>1. timer' = [timer EXCEPT ![d] = FALSE]
  BY DEF R!Fire
<1>3. \/ /\ flight[d].on /\ flight' = flight /\ late' = [late EXCEPT ![d] = late[d] \cup {"dropped"}]
      \/ master[d] = 0 /\ ~flight[d].on /\ flight' = flight /\ late' = late
      \/ /\ master[d] # 0 /\ ~flight[d].on /\ late' = late
         /\ flight' = [flight EXCEPT ![d] = [on |-> TRUE, blob |-> [by |-> master[d], keys |-> held[d].keys, maps |-> held[d].maps], aware |-> d \in aware]]
  BY DEF R!Fire, R!Nothing
<1>4. PICK L \in SUBSET Fault, f \in [on : BOOLEAN, blob : Bundle, aware : BOOLEAN] :
        /\ late[d] \subseteq L /\ late' = [late EXCEPT ![d] = L] /\ flight' = [flight EXCEPT ![d] = f]
        /\ \/ f = flight[d] /\ (f.on => "dropped" \in L) /\ (f.on \/ master[d] = 0)
           \/ f.on /\ f.blob.by = master[d] /\ master[d] # 0 /\ R!All(f.blob) = R!All(held[d]) /\ (f.aware => d \in aware)
  <2>1. /\ late[d] \in SUBSET Fault /\ flight[d] \in [on : BOOLEAN, blob : Bundle, aware : BOOLEAN]
        /\ late = [late EXCEPT ![d] = late[d]] /\ flight = [flight EXCEPT ![d] = flight[d]]
        /\ late[d] \cup {"dropped"} \in SUBSET Fault
    BY <1>0 DEF RecoveryTypes, Fault
  <2>2. CASE flight[d].on /\ flight' = flight /\ late' = [late EXCEPT ![d] = late[d] \cup {"dropped"}]
    BY <2>1, <2>2
  <2>3. CASE master[d] = 0 /\ ~flight[d].on /\ flight' = flight /\ late' = late
    BY <2>1, <2>3
  <2>4. CASE /\ master[d] # 0 /\ ~flight[d].on /\ late' = late
             /\ flight' = [flight EXCEPT ![d] = [on |-> TRUE, blob |-> [by |-> master[d], keys |-> held[d].keys, maps |-> held[d].maps], aware |-> d \in aware]]
    <3>1. [on |-> TRUE, blob |-> [by |-> master[d], keys |-> held[d].keys, maps |-> held[d].maps], aware |-> d \in aware]
            \in [on : BOOLEAN, blob : Bundle, aware : BOOLEAN]
      <4>1. master[d] \in Nat /\ held[d] \in Holdings /\ (d \in aware) \in BOOLEAN
        BY <1>0 DEF RecoveryTypes
      <4> QED BY <4>1 DEF Bundle, Holdings
    <3>2. R!All([by |-> master[d], keys |-> held[d].keys, maps |-> held[d].maps]) = R!All(held[d])
      BY DEF R!All
    <3> QED BY <2>1, <2>4, <3>1, <3>2
  <2> QED BY <1>3, <2>2, <2>3, <2>4
<1>11. /\ \A e \in Device \ {d} : late'[e] = late[e] /\ flight'[e] = flight[e] /\ timer'[e] = timer[e]
       /\ late'[d] = L /\ flight'[d] = f /\ ~timer'[d]
  BY <1>0, <1>1, <1>4 DEF RecoveryTypes
<1>2. /\ salt' = salt /\ blob' = blob /\ verified' = verified /\ master' = master /\ held' = held
      /\ modal' = modal /\ call' = call /\ boot' = boot /\ setups' = setups /\ shown' = shown
      /\ erased' = erased /\ broken' = broken /\ crossed' = crossed /\ aware' = aware /\ blind' = blind
      /\ banked' = banked /\ gone' = gone
  BY DEF R!Fire, R!server, R!history, R!Cache, R!Read
<1>5. RecoveryTypes'
  BY <1>0, <1>1, <1>2, <1>4 DEF RecoveryTypes
<1>6. Numbered'
  BY <1>0, <1>2, <1>4, <1>11 DEF Numbered
<1>7. Unseen'
  BY <1>0, <1>2, <1>4, <1>11 DEF Unseen, Unshown
<1>8. OneSetup' /\ PhraseKnown'
  <2>1. OneSetup'
    BY <1>0, <1>2, <1>4, <1>11 DEF OneSetup, Ours
  <2>2. PhraseKnown'
    BY <1>0, <1>2 DEF PhraseKnown, Setting, Ours
  <2> QED BY <2>1, <2>2
<1>9. Written'
  <2> SUFFICES ASSUME NEW e \in Device PROVE
        /\ call'[e].pc # "idle" => modal'[e] # "closed"
        /\ master'[e] # 0 /\ blob'.by = master'[e] => Due(e)' \/ R!All(held'[e]) \subseteq R!All(blob') \/ late'[e] # {}
        /\ flight'[e].on => R!All(held'[e]) \subseteq R!All(flight'[e].blob) \/ timer'[e] \/ "dropped" \in late'[e] \/ "unwritten" \in late'[e]
    BY DEF Written
  <2>1. CASE e = d
    BY <1>0, <1>2, <1>4, <1>11, <2>1 DEF Written, Due
  <2>2. CASE e # d
    BY <1>0, <1>2, <1>11, <2>2 DEF Written, Due
  <2> QED BY <2>1, <2>2
<1>10. Taken'
  <2>1. \A e \in Device : flight'[e].on => /\ R!All(flight'[e].blob) \subseteq R!All(held[e]) \cup gone
                                          /\ (flight'[e].aware => R!All(blob) \subseteq R!All(flight'[e].blob) \cup gone)
    BY <1>0, <1>4, <1>11 DEF Taken
  <2> QED BY <1>0, <1>2, <2>1 DEF Taken
<1> QED BY <1>5, <1>6, <1>7, <1>8, <1>9, <1>10 DEF RecoveryInv

\* The server stores the bundle, or the request fails.
LEMMA PutKeeps ==
  ASSUME RecoveryInv, NEW d \in Device, R!Put(d) PROVE RecoveryInv'
<1>0. RecoveryTypes /\ Numbered /\ Unseen /\ OneSetup /\ PhraseKnown /\ Written /\ Taken
  BY DEF RecoveryInv
<1>1. flight[d].on
  BY DEF R!Put
<1>13. [on |-> FALSE, blob |-> [by |-> 0, keys |-> {}, maps |-> {}], aware |-> FALSE] \in [on : BOOLEAN, blob : Bundle, aware : BOOLEAN]
  BY DEF Bundle
<1>14. /\ flight[d].blob \in Bundle /\ flight[d].blob.by \in Nat /\ R!All(flight[d].blob) \in SUBSET Key
       /\ \A e \in Device : late[e] \in SUBSET Fault
  <2>1. flight[d].blob \in Bundle /\ \A e \in Device : late[e] \in SUBSET Fault
    BY <1>0 DEF RecoveryTypes
  <2> QED BY <2>1 DEF Bundle, R!All
<1>3. /\ \A e \in Device \ {d} : /\ flight'[e].on = flight[e].on /\ flight'[e].blob = flight[e].blob
                                /\ (flight'[e].aware => flight[e].aware)
                                /\ late[e] \subseteq late'[e]
      /\ ~flight'[d].on /\ flight'[d].blob = [by |-> 0, keys |-> {}, maps |-> {}]
      /\ flight' \in [Device -> [on : BOOLEAN, blob : Bundle, aware : BOOLEAN]]
      /\ late' \in [Device -> SUBSET Fault]
      /\ \/ /\ blob' = blob /\ blind' = blind /\ aware' = aware /\ banked' = banked /\ late'[d] # {}
         \/ /\ blob' = flight[d].blob /\ aware' = {d} /\ blind' = (blind \/ ~flight[d].aware)
            /\ banked' = banked \cup R!All(flight[d].blob) /\ \A e \in Device : ~flight'[e].aware
            /\ \A e \in Device \ {d} : R!All(held[e]) \subseteq R!All(flight[d].blob) \/ late'[e] # {}
            /\ R!All(held[d]) \subseteq R!All(flight[d].blob) \/ ("dropped" \in late[d] \/ "unwritten" \in late[d] => late'[d] # {})
  <2>1. CASE /\ blob' = blob /\ blind' = blind /\ aware' = aware /\ banked' = banked
             /\ late' = [late EXCEPT ![d] = late[d] \cup {"failed"}] /\ flight' = [flight EXCEPT ![d] = [on |-> FALSE, blob |-> [by |-> 0, keys |-> {}, maps |-> {}], aware |-> FALSE]]
    BY <1>0, <1>13, <1>14, <2>1 DEF RecoveryTypes, Fault
  <2>2. CASE /\ blob' = flight[d].blob /\ aware' = {d} /\ blind' = (blind \/ ~flight[d].aware)
             /\ banked' = banked \cup R!All(flight[d].blob)
             /\ flight' = [e \in Device |-> IF e = d THEN [on |-> FALSE, blob |-> [by |-> 0, keys |-> {}, maps |-> {}], aware |-> FALSE] ELSE [flight[e] EXCEPT !.aware = FALSE]]
             /\ late' = [e \in Device |->
                   LET whole == R!All(held[e]) \subseteq R!All(flight[d].blob)
                   IN CASE whole /\ e = d -> {}
                        [] ~whole /\ e = d -> late[e] \intersect {"dropped", "unwritten"}
                        [] ~whole /\ e # d -> late[e] \union {"overwritten"}
                        [] OTHER -> late[e]]
    <3>1. /\ flight'[d] = [on |-> FALSE, blob |-> [by |-> 0, keys |-> {}, maps |-> {}], aware |-> FALSE]
          /\ \A e \in Device \ {d} : flight'[e] = [flight[e] EXCEPT !.aware = FALSE]
      BY <2>2
    <3>2. \A f \in [on : BOOLEAN, blob : Bundle, aware : BOOLEAN] :
             /\ [f EXCEPT !.aware = FALSE] \in [on : BOOLEAN, blob : Bundle, aware : BOOLEAN]
             /\ [f EXCEPT !.aware = FALSE].on = f.on /\ [f EXCEPT !.aware = FALSE].blob = f.blob
             /\ ~[f EXCEPT !.aware = FALSE].aware
      OBVIOUS
    <3>3. /\ flight' \in [Device -> [on : BOOLEAN, blob : Bundle, aware : BOOLEAN]]
          /\ \A e \in Device : ~flight'[e].aware
          /\ \A e \in Device \ {d} : flight'[e].on = flight[e].on /\ flight'[e].blob = flight[e].blob
      BY <1>0, <1>13, <2>2, <3>1, <3>2 DEF RecoveryTypes
    <3>4. /\ \A e \in Device \ {d} : late'[e] = IF R!All(held[e]) \subseteq R!All(flight[d].blob) THEN late[e] ELSE late[e] \cup {"overwritten"}
          /\ late'[d] = IF R!All(held[d]) \subseteq R!All(flight[d].blob) THEN {} ELSE late[d] \cap {"dropped", "unwritten"}
      BY <2>2
    <3>5. late' \in [Device -> SUBSET Fault]
      <4>1. \A e \in Device : late'[e] \in SUBSET Fault
        BY <1>14, <3>4 DEF Fault
      <4>2. late' = [e \in Device |-> late'[e]]
        BY <2>2
      <4> QED BY <4>1, <4>2
    <3> QED BY <2>2, <3>1, <3>3, <3>4, <3>5
  <2>3. \/ /\ blob' = blob /\ blind' = blind /\ aware' = aware /\ banked' = banked
           /\ late' = [late EXCEPT ![d] = late[d] \cup {"failed"}] /\ flight' = [flight EXCEPT ![d] = [on |-> FALSE, blob |-> [by |-> 0, keys |-> {}, maps |-> {}], aware |-> FALSE]]
        \/ /\ blob' = flight[d].blob /\ aware' = {d} /\ blind' = (blind \/ ~flight[d].aware)
           /\ banked' = banked \cup R!All(flight[d].blob)
           /\ flight' = [e \in Device |-> IF e = d THEN [on |-> FALSE, blob |-> [by |-> 0, keys |-> {}, maps |-> {}], aware |-> FALSE] ELSE [flight[e] EXCEPT !.aware = FALSE]]
           /\ late' = [e \in Device |->
                 LET whole == R!All(held[e]) \subseteq R!All(flight[d].blob)
                 IN CASE whole /\ e = d -> {}
                      [] ~whole /\ e = d -> late[e] \intersect {"dropped", "unwritten"}
                      [] ~whole /\ e # d -> late[e] \union {"overwritten"}
                      [] OTHER -> late[e]]
    BY DEF R!Put, R!Grounded, R!NoBlob, R!Nothing
  <2> QED BY <2>1, <2>2, <2>3
<1>2. /\ salt' = salt /\ verified' = verified /\ master' = master /\ held' = held /\ modal' = modal
      /\ call' = call /\ boot' = boot /\ timer' = timer /\ setups' = setups /\ shown' = shown
      /\ erased' = erased /\ broken' = broken /\ crossed' = crossed /\ gone' = gone
  BY DEF R!Put, R!server, R!history, R!Cache, R!Read
<1>4. blob' = blob \/ blob' = flight[d].blob
  BY <1>3
<1>5. RecoveryTypes'
  <2>1. blob' \in Bundle /\ blind' \in BOOLEAN /\ aware' \in SUBSET Device /\ banked' \in SUBSET Key
    BY <1>0, <1>3, <1>14 DEF RecoveryTypes
  <2> QED BY <1>0, <1>2, <1>3, <2>1 DEF RecoveryTypes
<1>6. Numbered'
  <2>1. blob'.by <= setups /\ (blob'.by = 0 => blob' = R!NoBlob)
    BY <1>0, <1>1, <1>4 DEF Numbered
  <2>2. \A e \in Device : flight'[e].blob.by <= setups /\ (flight'[e].on => flight'[e].blob.by # 0)
    <3>1. 0 <= setups
      BY <1>0 DEF RecoveryTypes
    <3> QED BY <1>0, <1>3, <3>1 DEF Numbered
  <2> QED BY <1>0, <1>2, <2>1, <2>2 DEF Numbered, R!NoBlob
<1>7. Unseen'
  BY <1>0, <1>1, <1>2, <1>3, <1>4 DEF Unseen, Unshown
<1>8. OneSetup' /\ PhraseKnown'
  <2>1. OneSetup'
    BY <1>0, <1>1, <1>2, <1>3, <1>4 DEF OneSetup, Ours, Numbered
  <2>2. PhraseKnown'
    BY <1>0, <1>1, <1>2, <1>4 DEF PhraseKnown, Setting, Ours, OneSetup, Numbered
  <2> QED BY <2>1, <2>2
<1>9. Written'
  <2> SUFFICES ASSUME NEW e \in Device PROVE
        /\ call[e].pc # "idle" => modal[e] # "closed"
        /\ master[e] # 0 /\ blob'.by = master[e] => Due(e)' \/ R!All(held[e]) \subseteq R!All(blob') \/ late'[e] # {}
        /\ flight'[e].on => R!All(held[e]) \subseteq R!All(flight'[e].blob) \/ timer[e] \/ "dropped" \in late'[e] \/ "unwritten" \in late'[e]
    BY <1>2 DEF Written
  <2>1. CASE e = d
    BY <1>0, <1>1, <1>2, <1>3, <2>1 DEF Written, Due
  <2>2. CASE e # d
    BY <1>0, <1>2, <1>3, <2>2 DEF Written, Due
  <2> QED BY <2>1, <2>2
<1>10. Taken'
  <2>1. CASE blob' = blob /\ blind' = blind /\ aware' = aware /\ banked' = banked
    <3>1. \A e \in Device : flight'[e].on => /\ R!All(flight'[e].blob) \subseteq R!All(held[e]) \cup gone
                                            /\ (flight'[e].aware => R!All(blob) \subseteq R!All(flight'[e].blob) \cup gone)
      BY <1>0, <1>3 DEF Taken
    <3> QED BY <1>0, <1>2, <2>1, <3>1 DEF Taken
  <2>2. CASE /\ blob' = flight[d].blob /\ aware' = {d} /\ blind' = (blind \/ ~flight[d].aware)
             /\ banked' = banked \cup R!All(flight[d].blob) /\ \A e \in Device : ~flight'[e].aware
    <3>1. blind' \/ banked' \subseteq R!All(blob') \cup gone
      BY <1>0, <1>1, <2>2 DEF Taken
    <3>2. R!All(flight[d].blob) \subseteq R!All(held[d]) \cup gone
      BY <1>0, <1>1 DEF Taken
    <3>3. \A e \in Device : flight'[e].on => R!All(flight'[e].blob) \subseteq R!All(held[e]) \cup gone
      BY <1>0, <1>3 DEF Taken
    <3> QED BY <1>2, <2>2, <3>1, <3>2, <3>3 DEF Taken
  <2> QED BY <1>3, <2>1, <2>2
<1> QED BY <1>5, <1>6, <1>7, <1>8, <1>9, <1>10 DEF RecoveryInv

\* What apps forget when they close.
LEMMA Closes ==
  ASSUME RecoveryInv, NEW ds \in SUBSET Device, R!Closed(ds)
  PROVE  /\ modal' \in [Device -> {"closed", "free", "onboarding", "verify", "prompt"}]
         /\ call' \in [Device -> Calls]
         /\ boot' \in [Device -> [read : BOOLEAN, blob : Bundle]]
         /\ timer' \in [Device -> BOOLEAN]
         /\ flight' \in [Device -> [on : BOOLEAN, blob : Bundle, aware : BOOLEAN]]
         /\ \A d \in ds : /\ call[d].pc \notin {"salt", "meta"} /\ modal'[d] = "closed" /\ ~timer'[d]
                          /\ call'[d].pc = "idle" /\ call'[d].setup = 0
                          /\ boot'[d].blob = [by |-> 0, keys |-> {}, maps |-> {}]
                          /\ ~flight'[d].on /\ flight'[d].blob = [by |-> 0, keys |-> {}, maps |-> {}]
                          /\ (Setting(d) => call[d].setup \in broken')
         /\ \A d \in Device \ ds : /\ call'[d] = call[d] /\ modal'[d] = modal[d] /\ timer'[d] = timer[d]
                                   /\ boot'[d] = boot[d] /\ flight'[d] = flight[d]
         /\ broken \subseteq broken'
<1>0. RecoveryTypes
  BY DEF RecoveryInv
<1> DEFINE I == [pc |-> "idle", setup |-> 0, blob |-> [by |-> 0, keys |-> {}, maps |-> {}], mark |-> FALSE]
           B0 == [read |-> FALSE, blob |-> [by |-> 0, keys |-> {}, maps |-> {}]]
           G0 == [on |-> FALSE, blob |-> [by |-> 0, keys |-> {}, maps |-> {}], aware |-> FALSE]
<1>1. /\ modal' = [d \in Device |-> IF d \in ds THEN "closed" ELSE modal[d]]
      /\ timer' = [d \in Device |-> IF d \in ds THEN FALSE ELSE timer[d]]
      /\ \A d \in ds : call[d].pc \notin {"salt", "meta"}
  BY DEF R!Closed
<1>2. /\ call' = [d \in Device |-> IF d \in ds THEN I ELSE call[d]]
      /\ boot' = [d \in Device |-> IF d \in ds THEN B0 ELSE boot[d]]
      /\ flight' = [d \in Device |-> IF d \in ds THEN G0 ELSE flight[d]]
  BY DEF R!Closed, R!Idle, R!NotRead, R!Grounded, R!NoBlob, R!Nothing
<1>3. broken' = broken \union {call[d].setup : d \in {e \in ds : call[e].pc \in {"bundle", "show"}}}
  BY DEF R!Closed, R!InSetup
<1>4. /\ I \in Calls /\ I.pc = "idle" /\ I.setup = 0
      /\ B0 \in [read : BOOLEAN, blob : Bundle] /\ B0.blob = [by |-> 0, keys |-> {}, maps |-> {}]
      /\ G0 \in [on : BOOLEAN, blob : Bundle, aware : BOOLEAN] /\ ~G0.on /\ G0.blob = [by |-> 0, keys |-> {}, maps |-> {}]
  BY DEF Calls, Bundle
<1> HIDE DEF I, B0, G0
<1>5. /\ modal' \in [Device -> {"closed", "free", "onboarding", "verify", "prompt"}]
      /\ timer' \in [Device -> BOOLEAN]
  BY <1>0, <1>1 DEF RecoveryTypes
<1>6. call' \in [Device -> Calls]
  BY <1>0, <1>2, <1>4 DEF RecoveryTypes
<1>7. boot' \in [Device -> [read : BOOLEAN, blob : Bundle]]
  BY <1>0, <1>2, <1>4 DEF RecoveryTypes
<1>8. flight' \in [Device -> [on : BOOLEAN, blob : Bundle, aware : BOOLEAN]]
  BY <1>0, <1>2, <1>4 DEF RecoveryTypes
<1>9. \A d \in ds : Setting(d) => call[d].setup \in broken'
  BY <1>1, <1>3 DEF Setting
<1>10. \A d \in ds : /\ modal'[d] = "closed" /\ ~timer'[d] /\ call'[d] = I /\ boot'[d] = B0 /\ flight'[d] = G0
  BY <1>1, <1>2
<1>11. \A d \in Device \ ds : /\ call'[d] = call[d] /\ modal'[d] = modal[d] /\ timer'[d] = timer[d]
                              /\ boot'[d] = boot[d] /\ flight'[d] = flight[d]
  BY <1>1, <1>2
<1>12. broken \subseteq broken'
  BY <1>3
<1> QED BY <1>1, <1>4, <1>5, <1>6, <1>7, <1>8, <1>9, <1>10, <1>11, <1>12

\* An app closes, or the storage of its device is lost.
LEMMA CloseKeeps ==
  ASSUME RecoveryInv, NEW d \in Device, R!Close(d) \/ R!Lose(d) PROVE RecoveryInv'
<1>0. RecoveryTypes /\ Numbered /\ Unseen /\ OneSetup /\ PhraseKnown /\ Written /\ Taken
  BY DEF RecoveryInv
<1>1. R!Closed({d})
  BY DEF R!Close, R!Lose
<1>2. /\ salt' = salt /\ blob' = blob /\ verified' = verified /\ setups' = setups /\ shown' = shown
      /\ erased' = erased /\ crossed' = crossed /\ blind' = blind /\ banked' = banked /\ gone' = gone
  BY DEF R!Close, R!Lose, R!server
<1>3. /\ \A e \in Device \ {d} : master'[e] = master[e] /\ held'[e] = held[e] /\ late'[e] = late[e]
      /\ master'[d] \in {0, master[d]}
      /\ (held'[d] = held[d] /\ late'[d] = late[d]) \/ d \notin aware'
      /\ aware' \subseteq aware
      /\ master' \in [Device -> Nat] /\ held' \in [Device -> Holdings] /\ late' \in [Device -> SUBSET Fault]
  <2>1. CASE master' = master /\ held' = held /\ late' = late /\ aware' = aware
    BY <1>0, <2>1 DEF RecoveryTypes
  <2>2. CASE /\ master' = [master EXCEPT ![d] = 0] /\ held' = [held EXCEPT ![d] = [keys |-> {}, maps |-> {}]]
             /\ late' = [late EXCEPT ![d] = {}] /\ aware' = aware \ {d}
    BY <1>0, <2>2 DEF RecoveryTypes, Holdings
  <2> QED BY <2>1, <2>2 DEF R!Close, R!Lose, R!NoKeys, R!Nothing
<1>4. /\ modal' \in [Device -> {"closed", "free", "onboarding", "verify", "prompt"}]
      /\ call' \in [Device -> Calls]
      /\ boot' \in [Device -> [read : BOOLEAN, blob : Bundle]]
      /\ timer' \in [Device -> BOOLEAN]
      /\ flight' \in [Device -> [on : BOOLEAN, blob : Bundle, aware : BOOLEAN]]
  BY <1>1, Closes
<1>11. /\ call[d].pc \notin {"salt", "meta"} /\ modal'[d] = "closed"
       /\ call'[d].pc = "idle" /\ call'[d].setup = 0 /\ boot'[d].blob = [by |-> 0, keys |-> {}, maps |-> {}]
       /\ ~flight'[d].on /\ flight'[d].blob = [by |-> 0, keys |-> {}, maps |-> {}]
       /\ (Setting(d) => call[d].setup \in broken')
       /\ \A e \in Device \ {d} : /\ call'[e] = call[e] /\ modal'[e] = modal[e] /\ timer'[e] = timer[e]
                                  /\ boot'[e] = boot[e] /\ flight'[e] = flight[e]
       /\ broken \subseteq broken'
  BY <1>1, Closes
<1>5. RecoveryTypes'
  <2>1. aware' \in SUBSET Device
    BY <1>0, <1>3 DEF RecoveryTypes
  <2> QED BY <1>0, <1>2, <1>3, <1>4, <2>1 DEF RecoveryTypes
<1>6. Numbered'
  <2>1. 0 <= setups
    BY <1>0 DEF RecoveryTypes
  <2> QED BY <1>0, <1>2, <1>3, <1>11, <2>1 DEF Numbered, R!NoBlob, R!Nothing
<1>7. Unseen'
  <2>1. \A e \in Device : Unshown(e)' => e # d /\ Unshown(e) /\ call'[e].setup = call[e].setup /\ call[e].setup # 0
    BY <1>0, <1>11 DEF Unshown, Numbered
  <2> QED BY <1>0, <1>2, <1>3, <1>11, <2>1 DEF Unseen
<1>8. OneSetup' /\ PhraseKnown'
  <2>4. salt' = salt /\ erased' = erased /\ crossed' = crossed /\ blob' = blob
    BY <1>2
  <2>5. \A e \in Device : call'[e].pc # "idle" => call'[e] = call[e]
    BY <1>11
  <2>6. \A e \in Device : flight'[e].on => flight'[e] = flight[e]
    BY <1>11
  <2>8. \A e \in Device : master'[e] \in {0, master[e]}
    BY <1>3
  <2>9. 0 <= erased
    BY <1>0 DEF RecoveryTypes
  <2>10. ASSUME ~crossed, NEW e \in Device PROVE (master'[e] = salt \/ master'[e] <= erased)
    BY <1>0, <2>8, <2>9, <2>10 DEF OneSetup, Ours
  <2>11. ASSUME ~crossed, NEW e \in Device, flight'[e].on
         PROVE  (flight'[e].blob.by = salt \/ flight'[e].blob.by <= erased)
    BY <1>0, <2>6, <2>11 DEF OneSetup, Ours
  <2>12. ASSUME ~crossed, NEW e \in Device, call'[e].pc # "idle"
         PROVE  /\ call'[e].pc = "salt" => salt = 0 /\ \A f \in Device \ {e} : call'[f].pc # "salt"
                /\ call'[e].pc # "salt" => call'[e].setup = salt
                /\ call'[e].pc = "show" => blob.by # 0 /\ (blob.by = salt \/ blob.by <= erased)
    BY <1>0, <2>5, <2>12 DEF OneSetup, Ours
  <2>1. OneSetup'
    BY <2>4, <2>10, <2>11, <2>12 DEF OneSetup, Ours
  <2>2. \A e \in Device : Setting(e) => Setting(e)' \/ (~crossed => salt \in broken')
    BY <1>0, <1>11 DEF Setting, OneSetup
  <2>3. PhraseKnown'
    BY <1>0, <1>2, <1>11, <2>2 DEF PhraseKnown, Ours
  <2> QED BY <2>1, <2>3
<1>9. Written'
  <2> SUFFICES ASSUME NEW e \in Device PROVE
        /\ call'[e].pc # "idle" => modal'[e] # "closed"
        /\ master'[e] # 0 /\ blob'.by = master'[e] => Due(e)' \/ R!All(held'[e]) \subseteq R!All(blob') \/ late'[e] # {}
        /\ flight'[e].on => R!All(held'[e]) \subseteq R!All(flight'[e].blob) \/ timer'[e] \/ "dropped" \in late'[e] \/ "unwritten" \in late'[e]
    BY DEF Written
  <2>1. CASE e = d
    BY <1>11, <2>1 DEF Due
  <2>2. CASE e # d
    BY <1>0, <1>2, <1>3, <1>11, <2>2 DEF Written, Due
  <2> QED BY <2>1, <2>2
<1>10. Taken'
  <2>1. \A e \in aware' : R!All(blob) \subseteq R!All(held'[e]) \cup gone
    BY <1>0, <1>3 DEF Taken, RecoveryTypes
  <2>2. \A e \in Device : flight'[e].on => /\ R!All(flight'[e].blob) \subseteq R!All(held'[e]) \cup gone
                                           /\ (flight'[e].aware => R!All(blob) \subseteq R!All(flight'[e].blob) \cup gone)
    BY <1>0, <1>3, <1>11 DEF Taken
  <2> QED BY <1>0, <1>2, <2>1, <2>2 DEF Taken
<1> QED BY <1>5, <1>6, <1>7, <1>8, <1>9, <1>10 DEF RecoveryInv

\* The account is deleted: keys made until then are those of an erased account.
LEMMA EraseKeeps ==
  ASSUME RecoveryInv, NEW d \in Device, R!Erase(d) PROVE RecoveryInv'
<1>0. RecoveryTypes /\ Numbered
  BY DEF RecoveryInv
<1>1. R!Closed(Device)
  BY DEF R!Erase
<1>2. /\ salt' = 0 /\ blob' = [by |-> 0, keys |-> {}, maps |-> {}] /\ verified' = FALSE /\ setups' = setups /\ shown' = shown
      /\ erased' = setups /\ crossed' = FALSE /\ blind' = FALSE /\ banked' = {} /\ gone' = {} /\ aware' = {}
      /\ master' = [master EXCEPT ![d] = 0] /\ held' = [held EXCEPT ![d] = [keys |-> {}, maps |-> {}]] /\ late' = [e \in Device |-> {}]
  BY DEF R!Erase, R!Nothing, R!NoBlob, R!NoKeys
<1>3. \A e \in Device : master'[e] \in {0, master[e]}
  BY <1>0, <1>2 DEF RecoveryTypes
<1>4. /\ modal' \in [Device -> {"closed", "free", "onboarding", "verify", "prompt"}]
      /\ call' \in [Device -> Calls]
      /\ boot' \in [Device -> [read : BOOLEAN, blob : Bundle]]
      /\ timer' \in [Device -> BOOLEAN]
      /\ flight' \in [Device -> [on : BOOLEAN, blob : Bundle, aware : BOOLEAN]]
  BY <1>1, Closes
<1>11. \A e \in Device : /\ modal'[e] = "closed" /\ call'[e].pc = "idle" /\ call'[e].setup = 0
                         /\ boot'[e].blob = [by |-> 0, keys |-> {}, maps |-> {}]
                         /\ ~flight'[e].on /\ flight'[e].blob = [by |-> 0, keys |-> {}, maps |-> {}]
  BY <1>1, Closes
<1>12. setups \in Nat /\ 0 <= setups
  BY <1>0 DEF RecoveryTypes
<1>5. RecoveryTypes'
  <2>1. blob' \in Bundle
    BY <1>2 DEF Bundle
  <2>2. late' \in [Device -> SUBSET Fault] /\ master' \in [Device -> Nat] /\ held' \in [Device -> Holdings]
    BY <1>0, <1>2 DEF RecoveryTypes, Holdings
  <2> QED BY <1>0, <1>2, <1>4, <1>12, <2>1, <2>2 DEF RecoveryTypes
<1>6. Numbered'
  BY <1>0, <1>2, <1>3, <1>11, <1>12 DEF Numbered, R!NoBlob, R!Nothing
<1>7. Unseen'
  BY <1>11 DEF Unseen, Unshown
<1>8. OneSetup' /\ PhraseKnown'
  <2>1. \A e \in Device : master'[e] <= erased'
    BY <1>0, <1>2, <1>3, <1>12 DEF Numbered
  <2> QED BY <1>2, <1>11, <2>1 DEF OneSetup, PhraseKnown, Ours
<1>9. Written'
  BY <1>11 DEF Written, Due
<1>10. Taken'
  BY <1>2, <1>11 DEF Taken, R!All
<1> QED BY <1>5, <1>6, <1>7, <1>8, <1>9, <1>10 DEF RecoveryInv

\* Every step keeps the invariant.
LEMMA RecoveryNext == RecoveryInv /\ R!RNext => RecoveryInv'
<1> SUFFICES ASSUME RecoveryInv, R!RNext PROVE RecoveryInv'
  OBVIOUS
<1>1. ASSUME NEW d \in Device, R!Start(d) \/ R!Restore(d) PROVE RecoveryInv'
  BY <1>1, OpenKeeps, RestoreKeeps
<1>2. ASSUME NEW d \in Device,
             \/ R!InitHead(d) \/ R!InitSalt(d) \/ R!InitMeta(d) \/ R!FirstBundle(d) \/ R!Show(d) \/ R!SetupFails(d)
      PROVE  RecoveryInv'
  BY <1>2, InitHeadKeeps, InitSaltKeeps, InitMetaKeeps, FirstBundleKeeps, ShowKeeps, SetupFailsKeeps
<1>3. ASSUME NEW d \in Device, NEW p \in shown, R!Enter(d, p) PROVE RecoveryInv'
  BY <1>3, PhraseKeeps
<1>4. ASSUME NEW d \in Device, NEW k \in Key, R!AddKey(d, k) \/ R!Leave(d, k) PROVE RecoveryInv'
  BY <1>4, AddKeyKeeps
<1>5. ASSUME NEW d \in Device, R!Recover(d) \/ R!Mark(d) \/ R!Fire(d) \/ R!Put(d) PROVE RecoveryInv'
  BY <1>5, RecoverKeeps, MarkKeeps, FireKeeps, PutKeeps
<1>6. ASSUME NEW d \in Device, R!Close(d) \/ R!Lose(d) \/ R!Erase(d) PROVE RecoveryInv'
  BY <1>6, CloseKeeps, EraseKeeps
<1> QED BY <1>1, <1>2, <1>3, <1>4, <1>5, <1>6 DEF R!RNext

\* The invariant and the properties.
LEMMA RecoveryInvImplies == RecoveryInv => R!PhraseOpensTheBundle /\ R!BundleIsComplete
<1> SUFFICES ASSUME RecoveryInv PROVE R!PhraseOpensTheBundle /\ R!BundleIsComplete
  OBVIOUS
<1>0. RecoveryTypes /\ Numbered /\ OneSetup /\ PhraseKnown /\ Written /\ Taken
  BY DEF RecoveryInv
<1>1. R!PhraseOpensTheBundle
  <2> SUFFICES ASSUME salt # 0, ~crossed, salt \notin broken, \A d \in Device : ~Setting(d)
               PROVE  R!WayIn \/ R!Outlived
    BY DEF R!PhraseOpensTheBundle, R!Nothing, Setting
  <2>1. salt \in shown /\ blob.by # 0 /\ (blob.by = salt \/ blob.by <= erased)
    BY <1>0 DEF PhraseKnown, Ours
  <2>2. blob.by \in Nat /\ erased \in Nat
    BY <1>0 DEF RecoveryTypes, Bundle
  <2> QED BY <2>1, <2>2 DEF R!WayIn, R!Outlived
<1>2. R!KeysAreInTheBundle
  <2> SUFFICES ASSUME NEW d \in Device, R!Settled(d), master[d] # 0, blob.by = master[d]
               PROVE  R!All(held[d]) \subseteq R!All(blob) \/ late[d] # {}
    BY DEF R!KeysAreInTheBundle, R!Nothing
  <2>1. ~Due(d)
    BY DEF R!Settled, Due
  <2> QED BY <1>0, <2>1 DEF Written
<1>3. R!NoKeyIsForgotten
  BY <1>0 DEF Taken, R!NoKeyIsForgotten
<1> QED BY <1>1, <1>2, <1>3 DEF R!BundleIsComplete

\* A phrase that was shown opens the bundle, all keys of a device at rest are in
\* it and none that was in it is forgotten (recoveryRoutes.js, cmkBundleSync.js),
\* but for the causes the properties name: for any number of devices, keys,
\* setups, failures, losses and erasures.
THEOREM RecoveryInOrderHolds == MCSpec => []RecoveryInOrder
<1> DEFINE Inv == part = "recovery" => RecoveryInv
<1>1. MCInit => Inv
  <2>1. MCInit /\ part = "recovery" => R!RInit
    BY DEF MCInit
  <2> QED BY <2>1, RecoveryStart
<1>2. Inv /\ [ChatStep \/ RecoveryStep \/ ReadingStep]_<<part, cmk, recovery, reading>> => Inv'
  <2> SUFFICES ASSUME Inv, [ChatStep \/ RecoveryStep \/ ReadingStep]_<<part, cmk, recovery, reading>>, part' = "recovery"
               PROVE  RecoveryInv'
    OBVIOUS
  <2>1. part' = part /\ RecoveryInv
    BY DEF ChatStep, RecoveryStep, ReadingStep
  <2>2. CASE RecoveryStep
    BY <2>1, <2>2, RecoveryNext DEF RecoveryStep
  <2>3. CASE UNCHANGED recovery
    <3>1. /\ salt' = salt /\ blob' = blob /\ verified' = verified /\ master' = master /\ held' = held /\ modal' = modal
          /\ call' = call /\ boot' = boot /\ timer' = timer /\ flight' = flight /\ setups' = setups /\ shown' = shown
          /\ erased' = erased /\ broken' = broken /\ crossed' = crossed /\ late' = late /\ aware' = aware
          /\ blind' = blind /\ banked' = banked /\ gone' = gone
      BY <2>3 DEF recovery
    <3>2. RecoveryTypes' /\ Numbered' /\ Unseen'
      BY <2>1, <3>1 DEF RecoveryInv, RecoveryTypes, Numbered, Unseen, Unshown
    <3>3. OneSetup' /\ PhraseKnown' /\ Written' /\ Taken'
      BY <2>1, <3>1 DEF RecoveryInv, OneSetup, PhraseKnown, Written, Taken, Due, Ours, Setting
    <3> QED BY <3>2, <3>3 DEF RecoveryInv
  <2> QED BY <2>1, <2>2, <2>3 DEF ChatStep, ReadingStep
<1>3. Inv => RecoveryInOrder
  BY RecoveryInvImplies DEF RecoveryInOrder
<1> QED BY <1>1, <1>2, <1>3, PTL DEF MCSpec

(***************************************************************************)
(* Reading: the message, its pages and the jobs under way.                  *)
(***************************************************************************)
Tries == {"open", "await", "opened", "timer"}
Causes == {"GaveUp", "No", "Guard", "Asleep", "Loading", "Behind", "NoKey", "Crossed", "Store"}
Reactors == {"author", "reader"}
Budgets == [kind : {"dm", "v4", "group"}, mine : SUBSET {x1, x2}, keys : SUBSET {"none", "kv", "local"},
            edits : Nat, reacts : Nat, views : Nat, fails : Nat]
ReadJobs ==
  [op : Tries, p : Page, ver : Nat, att : Nat] \cup [op : {"write", "tell", "answer", "edited"}, p : Page, ver : Nat]
  \cup [op : {"asks", "kick"}, p : Page] \cup [op : {"list"}, p : Page, all : BOOLEAN]
  \cup [op : {"listed"}, p : Page, all : BOOLEAN, ver : Nat, rx : SUBSET Reactors]
  \cup [op : {"toggle", "snap"}, p : Page, n : Nat] \cup [op : {"put"}, p : Page, n : Nat, add : BOOLEAN]
  \cup [op : {"show", "reacted"}, p : Page, n : Nat, rx : SUBSET Reactors]
Views == [up : BOOLEAN, open : BOOLEAN, text : Int, raw : Nat, rx : SUBSET Reactors]

ReadTypes ==
  /\ row \in Nat /\ sent \in Nat /\ rx \in SUBSET Reactors
  /\ page \in [Page -> Views] /\ cache \in [Page -> {D!Absent} \cup Nat] /\ store \in [Page -> {D!Absent, 0}]
  /\ key \in [Page -> {"none", "kv", "local"}]
  /\ no \in SUBSET Page /\ asked \in SUBSET Page /\ guard \in SUBSET Page /\ other \in SUBSET Page
  /\ why \in [Page -> SUBSET Causes] /\ stuck \in [Page -> SUBSET Causes]
  /\ jobs \in SUBSET ReadJobs /\ budget \in Budgets

\* A group has no master key that a page could ask for, and only a direct message
\* waits for one. What was opened of a message of v4 is its first text.
Kinds ==
  /\ budget.kind = "group" => no = {} /\ \A x \in jobs : x.op \notin {"asks", "kick"}
  /\ \A x \in jobs : x.op = "await" => budget.kind = "dm"
  /\ budget.kind = "v4" => \A x \in jobs : x.op = "opened" => x.ver = 0

\* The page hears of the last edit and has the key to read it.
Coming(p) == key[p] # "none" /\ \E x \in jobs : x.op = "edited" /\ x.p = p /\ x.ver = row
Telling == \E x \in jobs : x.op = "tell"
EditGood(p) ==
  /\ page[p].text >= 0 => page[p].text = row \/ Coming(p)
  /\ page[p].text # D!Absent => page[p].raw = row \/ Coming(p)
  /\ cache[p] \in {D!Absent, row}
  /\ \A x \in jobs : x.p = p /\ x.op \in Tries \cup {"listed", "edited", "answer"} => x.ver = row
\* What a page without an excuse shows, keeps and loads is the text of the row,
\* unless it hears of that text, or all pages are still to be told.
EditPage(p) == why[p] = {} => Telling \/ EditGood(p)

\* A page that does not open the message, and will not try to, has a cause.
LockPage(p) ==
  /\ page[p].text = D!Gone \/ p \in no => stuck[p] # {}
  /\ page[p].text = D!Locked /\ stuck[p] = {} => \E x \in jobs : x.p = p /\ x.op \in Tries

\* The reactions a page shows and loads are those of the server, unless an event
\* will bring them.
Bringing == \E x \in jobs : x.op \in {"snap", "show"}
ReactGood(p) ==
  /\ page[p].text # D!Absent => page[p].rx = rx
  /\ \A x \in jobs : x.p = p /\ x.op \in {"listed", "reacted"} => x.rx = rx
ReactPage(p) == p \in other \/ Bringing \/ ReactGood(p)

PageInv(p) == EditPage(p) /\ LockPage(p) /\ ReactPage(p)
ReadInv == ReadTypes /\ Kinds /\ \A p \in Page : PageInv(p)

\* What the jobs have.
LEMMA JobHas ==
  ASSUME NEW t \in ReadJobs
  PROVE  /\ t.p \in Page
         /\ t.op \in Tries => t.ver \in Nat /\ t.att \in Nat
         /\ t.op \in {"write", "tell", "answer", "edited"} => t.ver \in Nat
         /\ t.op = "list" => t.all \in BOOLEAN
         /\ t.op = "listed" => t.all \in BOOLEAN /\ t.ver \in Nat /\ t.rx \in SUBSET Reactors
         /\ t.op \in {"toggle", "snap", "put", "show", "reacted"} => t.n \in Nat
         /\ t.op \in {"show", "reacted"} => t.rx \in SUBSET Reactors
  BY DEF ReadJobs, Tries

\* The jobs a step begins.
LEMMA NewJobs ==
  ASSUME NEW p \in Page, NEW v \in Nat, NEW n \in Nat, NEW all \in BOOLEAN, NEW u \in SUBSET Reactors
  PROVE  /\ \A o \in Tries : [op |-> o, p |-> p, ver |-> v, att |-> n] \in ReadJobs
         /\ \A o \in {"write", "tell", "answer", "edited"} : [op |-> o, p |-> p, ver |-> v] \in ReadJobs
         /\ \A o \in {"asks", "kick"} : [op |-> o, p |-> p] \in ReadJobs
         /\ [op |-> "list", p |-> p, all |-> all] \in ReadJobs
         /\ [op |-> "listed", p |-> p, all |-> all, ver |-> v, rx |-> u] \in ReadJobs
         /\ \A o \in {"toggle", "snap"} : [op |-> o, p |-> p, n |-> n] \in ReadJobs
         /\ [op |-> "put", p |-> p, n |-> n, add |-> all] \in ReadJobs
         /\ \A o \in {"show", "reacted"} : [op |-> o, p |-> p, n |-> n, rx |-> u] \in ReadJobs
  BY DEF ReadJobs

\* An attempt goes on as another job with the same text.
LEMMA NextTry ==
  ASSUME NEW t \in ReadJobs, t.op \in Tries
  PROVE  /\ \A o \in Tries : /\ [t EXCEPT !.op = o] \in ReadJobs
                             /\ [t EXCEPT !.op = o].op = o /\ [t EXCEPT !.op = o].p = t.p /\ [t EXCEPT !.op = o].ver = t.ver
         /\ \E x \in ReadJobs : x = [t EXCEPT !.op = "opened", !.ver = 0] /\ x.op = "opened" /\ x.p = t.p /\ x.ver = 0
         /\ \E x \in ReadJobs : x = [t EXCEPT !.op = "open", !.att = @ + 1] /\ x.op = "open" /\ x.p = t.p /\ x.ver = t.ver
<1>1. t \in [op : Tries, p : Page, ver : Nat, att : Nat]
  BY DEF ReadJobs, Tries
<1>2. [op : Tries, p : Page, ver : Nat, att : Nat] \subseteq ReadJobs
  BY DEF ReadJobs
<1>3. "opened" \in Tries /\ "open" \in Tries
  BY DEF Tries
<1>4. \A o \in Tries : /\ [t EXCEPT !.op = o] \in [op : Tries, p : Page, ver : Nat, att : Nat]
                       /\ [t EXCEPT !.op = o].op = o /\ [t EXCEPT !.op = o].p = t.p /\ [t EXCEPT !.op = o].ver = t.ver
  BY <1>1
<1>5. PICK x : x = [t EXCEPT !.op = "opened", !.ver = 0]
  OBVIOUS
<1>6. x \in [op : Tries, p : Page, ver : Nat, att : Nat] /\ x.op = "opened" /\ x.p = t.p /\ x.ver = 0
  BY <1>1, <1>3, <1>5
<1>7. PICK n \in Nat : n = t.att + 1
  BY <1>1
<1>8. PICK y : y = [t EXCEPT !.op = "open", !.att = n]
  OBVIOUS
<1>9. y \in [op : Tries, p : Page, ver : Nat, att : Nat] /\ y.op = "open" /\ y.p = t.p /\ y.ver = t.ver
  BY <1>1, <1>3, <1>8
<1>10. y = [t EXCEPT !.op = "open", !.att = @ + 1]
  BY <1>1, <1>7, <1>8
<1> QED BY <1>2, <1>4, <1>5, <1>6, <1>9, <1>10

\* Another text on a page.
LEMMA Patched ==
  ASSUME ReadTypes, NEW p \in Page, NEW v \in Int, D!Patch(p, v)
  PROVE  /\ page' \in [Page -> Views]
         /\ \A q \in Page : q # p => page'[q] = page[q]
         /\ page'[p].up = page[p].up /\ page'[p].open = page[p].open
         /\ page'[p].raw = page[p].raw /\ page'[p].rx = page[p].rx
         /\ page[p].text = D!Absent => page'[p].text = D!Absent
         /\ page[p].text # D!Absent => page'[p].text = v
<1>1. page \in [Page -> Views] /\ page[p] \in Views
  BY DEF ReadTypes
<1>2. CASE D!Shown(p)
  <2>1. page' = [page EXCEPT ![p].text = v]
    BY <1>2 DEF D!Patch
  <2>2. [page[p] EXCEPT !.text = v] \in Views
    BY <1>1 DEF Views
  <2> QED BY <1>1, <1>2, <2>1, <2>2 DEF D!Shown, Views
<1>3. CASE ~D!Shown(p)
  BY <1>1, <1>3 DEF D!Patch, D!Shown
<1> QED BY <1>2, <1>3

\* A page that a step leaves alone.
LEMMA Untouched ==
  ASSUME NEW q \in Page, PageInv(q), row' = row, rx' = rx,
         page'[q] = page[q], cache'[q] = cache[q], key'[q] = "none" <=> key[q] = "none",
         why'[q] = why[q], stuck'[q] = stuck[q], q \in no' <=> q \in no, q \in other => q \in other',
         \A x : x.p = q => (x \in jobs' <=> x \in jobs),
         \A x \in jobs : x.op \in {"tell", "snap", "show"} => x \in jobs'
  PROVE  PageInv(q)'
<1>1. Telling => Telling'
  BY DEF Telling
<1>2. Bringing => Bringing'
  BY DEF Bringing
<1>3. Coming(q) => Coming(q)'
  BY DEF Coming
<1>4. EditPage(q)'
  BY <1>1, <1>3 DEF PageInv, EditPage, EditGood
<1>5. LockPage(q)'
  BY DEF PageInv, LockPage
<1>6. ReactPage(q)'
  BY <1>2 DEF PageInv, ReactPage, ReactGood
<1> QED BY <1>4, <1>5, <1>6 DEF PageInv

\* An attempt at a page: what it shows next is what the attempt was begun with,
\* what was opened before, or that there is no key.
LEMMA TryStep ==
  ASSUME ReadInv, NEW t \in jobs, ReadTypes', Kinds', LockPage(t.p)',
         row' = row, rx' = rx, other' = other, t.op \in Tries \cup {"asks", "kick"},
         \A q \in Page : q # t.p => /\ page'[q] = page[q] /\ cache'[q] = cache[q] /\ why'[q] = why[q]
                                    /\ stuck'[q] = stuck[q] /\ (q \in no' <=> q \in no),
         \A q \in Page : key'[q] = "none" <=> key[q] = "none",
         \A x \in jobs : x # t => x \in jobs',
         \A x \in jobs' : \/ x \in jobs
                          \/ /\ x.p = t.p /\ x.op \in Tries \cup {"asks"}
                             /\ x.op \in Tries => t.op \in Tries /\ (x.ver = t.ver \/ why'[t.p] # {}),
         page'[t.p].raw = page[t.p].raw, page'[t.p].rx = page[t.p].rx,
         page'[t.p].text = D!Absent <=> page[t.p].text = D!Absent,
         \/ page'[t.p].text = page[t.p].text \/ page'[t.p].text < 0 \/ page'[t.p].text = cache[t.p]
         \/ (t.op \in Tries /\ page'[t.p].text = t.ver) \/ why'[t.p] # {},
         why'[t.p] = {} => why[t.p] = {},
         cache'[t.p] = cache[t.p] \/ (t.op \in Tries /\ cache'[t.p] = t.ver)
  PROVE  ReadInv'
<1>0. ReadTypes /\ Kinds /\ (\A q \in Page : PageInv(q)) /\ t \in ReadJobs
  BY DEF ReadInv, ReadTypes
<1>1. t.p \in Page
  BY <1>0, JobHas
<1>2. \A x \in jobs : x.op \in {"tell", "snap", "show", "edited", "listed", "answer", "reacted"} => x \in jobs'
  BY DEF Tries
<1>3. ASSUME NEW q \in Page, q # t.p PROVE PageInv(q)'
  <2>1. \A x : x.p = q => (x \in jobs' <=> x \in jobs)
    BY <1>3
  <2> QED BY <1>0, <1>2, <1>3, <2>1, Untouched
<1>4. EditPage(t.p)'
  <2> SUFFICES ASSUME why'[t.p] = {}, ~Telling PROVE EditGood(t.p)'
    BY <1>2 DEF EditPage, Telling
  <2>1. EditGood(t.p)
    BY <1>0, <1>1 DEF PageInv, EditPage
  <2>2. Coming(t.p) => Coming(t.p)'
    BY <1>1, <1>2 DEF Coming
  <2>3. \A x \in jobs' : x.p = t.p /\ x.op \in Tries \cup {"listed", "edited", "answer"} => x.ver = row'
    BY <2>1 DEF EditGood, Tries
  <2>4. t.op \in Tries => t.ver = row
    BY <2>1 DEF EditGood
  <2>5. cache'[t.p] \in {D!Absent, row'}
    BY <2>1, <2>4 DEF EditGood
  <2>6. page'[t.p].text >= 0 => page'[t.p].text = row' \/ Coming(t.p)'
    <3>1. page'[t.p].text \in Int /\ page[t.p].text \in Int
      BY <1>0, <1>1 DEF ReadTypes, Views
    <3> QED BY <2>1, <2>2, <2>4, <3>1 DEF EditGood, D!Absent
  <2> QED BY <2>1, <2>2, <2>3, <2>5, <2>6 DEF EditGood
<1>5. ReactPage(t.p)'
  <2>1. Bringing => Bringing'
    BY <1>2 DEF Bringing
  <2>2. ReactGood(t.p) => ReactGood(t.p)'
    BY DEF ReactGood, Tries
  <2> QED BY <1>0, <1>1, <2>1, <2>2 DEF PageInv, ReactPage
<1> QED BY <1>1, <1>3, <1>4, <1>5 DEF ReadInv, PageInv

\* The next attempt, or the end of the ladder.
LEMMA FailsFacts ==
  ASSUME ReadTypes, NEW t \in jobs, t.op \in Tries, D!Fails(t)
  PROVE  /\ jobs' \in SUBSET ReadJobs /\ \A x \in jobs : x # t => x \in jobs'
         /\ \A x \in jobs' : x \in jobs \/ (x.p = t.p /\ x.op = "timer" /\ x.ver = t.ver)
         /\ page' \in [Page -> Views] /\ \A q \in Page : q # t.p => page'[q] = page[q]
         /\ page'[t.p].raw = page[t.p].raw /\ page'[t.p].rx = page[t.p].rx
         /\ page'[t.p].text = D!Absent <=> page[t.p].text = D!Absent
         /\ page'[t.p].text = page[t.p].text \/ page'[t.p].text < 0
         /\ stuck' \in [Page -> SUBSET Causes] /\ \A q \in Page : q # t.p => stuck'[q] = stuck[q]
         /\ stuck[t.p] \subseteq stuck'[t.p]
         /\ \/ stuck'[t.p] # {}
            \/ page' = page /\ \E x \in jobs' : x.p = t.p /\ x.op = "timer"
<1>0. t \in ReadJobs /\ t.p \in Page /\ t.ver \in Nat /\ t.att \in Nat /\ jobs \in SUBSET ReadJobs
  BY JobHas DEF ReadTypes
<1>1. CASE t.att < Ladder
  <2>1. page' = page /\ stuck' = stuck /\ jobs' = (jobs \ {t}) \cup D!Again(t)
    BY <1>1 DEF D!Fails, D!Then
  <2>2. PICK x \in ReadJobs : x = [op |-> "timer", p |-> t.p, ver |-> t.ver, att |-> t.att]
    <3>1. "timer" \in Tries
      BY DEF Tries
    <3> QED BY <1>0, <3>1, NewJobs
  <2>3. D!Again(t) = {x} /\ x.op = "timer" /\ x.p = t.p /\ x.ver = t.ver
    BY <2>2 DEF D!Again
  <2>4. x \in jobs'
    BY <2>1, <2>3
  <2>5. /\ jobs' \in SUBSET ReadJobs /\ \A y \in jobs : y # t => y \in jobs'
        /\ \A y \in jobs' : y \in jobs \/ (y.p = t.p /\ y.op = "timer" /\ y.ver = t.ver)
    BY <1>0, <2>1, <2>3
  <2> QED BY <1>0, <2>1, <2>3, <2>4, <2>5 DEF ReadTypes
<1>2. CASE ~(t.att < Ladder)
  <2>1. /\ jobs' = jobs \ {t} /\ stuck' = [stuck EXCEPT ![t.p] = @ \cup {"GaveUp"}]
        /\ D!Patch(t.p, D!Gone) \/ page' = page
    BY <1>2 DEF D!Fails, D!Then
  <2>2. /\ page' \in [Page -> Views] /\ \A q \in Page : q # t.p => page'[q] = page[q]
        /\ page'[t.p].raw = page[t.p].raw /\ page'[t.p].rx = page[t.p].rx
        /\ page'[t.p].text = D!Absent <=> page[t.p].text = D!Absent
        /\ page'[t.p].text = page[t.p].text \/ page'[t.p].text < 0
    <3>1. CASE page' = page
      BY <3>1 DEF ReadTypes
    <3>2. CASE D!Patch(t.p, D!Gone)
      <4>1. D!Gone \in Int /\ D!Gone < 0 /\ D!Gone # D!Absent
        BY DEF D!Gone, D!Absent
      <4> QED BY <1>0, <3>2, <4>1, Patched
    <3> QED BY <2>1, <3>1, <3>2
  <2>3. /\ stuck' \in [Page -> SUBSET Causes] /\ \A q \in Page : q # t.p => stuck'[q] = stuck[q]
        /\ stuck'[t.p] = stuck[t.p] \cup {"GaveUp"}
    BY <1>0, <2>1 DEF ReadTypes, Causes
  <2> QED BY <1>0, <2>1, <2>2, <2>3
<1> QED BY <1>1, <1>2

LEMMA OpenRefusedKeeps ==
  ASSUME ReadInv, NEW t \in jobs, D!OpenRefused(t) PROVE ReadInv'
<1>0. ReadTypes /\ Kinds /\ t \in ReadJobs /\ t.p \in Page /\ PageInv(t.p)
  BY JobHas DEF ReadInv, ReadTypes
<1>1. /\ t.op = "open" /\ t.op \in Tries /\ t.p \in no /\ D!Patch(t.p, D!Gone) /\ jobs' = jobs \ {t}
      /\ row' = row /\ rx' = rx /\ sent' = sent /\ cache' = cache /\ store' = store /\ no' = no /\ why' = why
      /\ stuck' = stuck /\ key' = key /\ asked' = asked /\ guard' = guard /\ budget' = budget /\ other' = other
  BY DEF D!OpenRefused, D!Refused, D!Then, D!Rows, D!Keys, Tries
<1>2. D!Gone \in Int /\ D!Gone < 0 /\ D!Gone # D!Absent /\ D!Gone # D!Locked
  BY DEF D!Gone, D!Absent, D!Locked
<1>3. /\ page' \in [Page -> Views] /\ \A q \in Page : q # t.p => page'[q] = page[q]
      /\ page'[t.p].raw = page[t.p].raw /\ page'[t.p].rx = page[t.p].rx
      /\ page[t.p].text = D!Absent => page'[t.p].text = D!Absent
      /\ page[t.p].text # D!Absent => page'[t.p].text = D!Gone
  BY <1>0, <1>1, <1>2, Patched
<1>4. ReadTypes'
  BY <1>0, <1>1, <1>3 DEF ReadTypes
<1>5. Kinds'
  BY <1>0, <1>1 DEF Kinds
<1>6. LockPage(t.p)'
  BY <1>0, <1>1, <1>2, <1>3 DEF PageInv, LockPage
<1> QED BY <1>0, <1>1, <1>2, <1>3, <1>4, <1>5, <1>6, TryStep

LEMMA OpenKnownKeeps ==
  ASSUME ReadInv, NEW t \in jobs, D!OpenKnown(t) PROVE ReadInv'
<1>0. ReadTypes /\ Kinds /\ t \in ReadJobs /\ t.p \in Page /\ PageInv(t.p)
  BY JobHas DEF ReadInv, ReadTypes
<1>1. /\ t.op = "open" /\ t.op \in Tries /\ jobs' = jobs \ {t} /\ no' = no \ {t.p}
      /\ D!Known(t.p) # D!Absent /\ D!Patch(t.p, D!Known(t.p))
      /\ why' = IF D!V4 /\ t.ver > 0 THEN [why EXCEPT ![t.p] = @ \cup {"Store"}] ELSE why
      /\ row' = row /\ rx' = rx /\ sent' = sent /\ cache' = cache /\ store' = store
      /\ stuck' = stuck /\ key' = key /\ asked' = asked /\ guard' = guard /\ budget' = budget /\ other' = other
  BY DEF D!OpenKnown, D!Then, D!Rows, D!Keys, Tries
<1>2. /\ t.ver \in Nat /\ D!Known(t.p) \in Nat
      /\ D!V4 => D!Known(t.p) = 0
      /\ ~D!V4 => D!Known(t.p) = cache[t.p]
  <2>1. cache[t.p] \in {D!Absent} \cup Nat /\ store[t.p] \in {D!Absent, 0}
    BY <1>0 DEF ReadTypes
  <2> QED BY <1>0, <1>1, <2>1, JobHas DEF D!Known
<1>3. PICK v \in Nat : v = D!Known(t.p) /\ D!Patch(t.p, v)
  BY <1>1, <1>2
<1>4. /\ page' \in [Page -> Views] /\ \A q \in Page : q # t.p => page'[q] = page[q]
      /\ page'[t.p].raw = page[t.p].raw /\ page'[t.p].rx = page[t.p].rx
      /\ page[t.p].text = D!Absent => page'[t.p].text = D!Absent
      /\ page[t.p].text # D!Absent => page'[t.p].text = v
  BY <1>0, <1>3, Patched
<1>5. v # D!Absent /\ v # D!Gone /\ v # D!Locked /\ D!Absent # D!Gone /\ D!Absent # D!Locked
  BY DEF D!Gone, D!Absent, D!Locked
<1>6. /\ why' \in [Page -> SUBSET Causes] /\ (\A q \in Page : q # t.p => why'[q] = why[q])
      /\ why'[t.p] = {} => why[t.p] = {} /\ ~(D!V4 /\ t.ver > 0)
  <2>1. "Store" \in Causes
    BY DEF Causes
  <2> QED BY <1>0, <1>1, <2>1 DEF ReadTypes
<1>7. ReadTypes'
  BY <1>0, <1>1, <1>4, <1>6 DEF ReadTypes
<1>8. Kinds'
  BY <1>0, <1>1 DEF Kinds
<1>9. LockPage(t.p)'
  BY <1>0, <1>1, <1>4, <1>5 DEF PageInv, LockPage
<1>10. \/ page'[t.p].text = page[t.p].text \/ page'[t.p].text = cache[t.p]
       \/ page'[t.p].text = t.ver \/ why'[t.p] # {}
  BY <1>2, <1>3, <1>4, <1>6
<1> QED BY <1>0, <1>1, <1>4, <1>5, <1>6, <1>7, <1>8, <1>9, <1>10, TryStep

\* The key is stored once it was used.
LEMMA FetchedFacts ==
  ASSUME ReadTypes, NEW p \in Page, key' = D!Fetched(p)
  PROVE  key' \in [Page -> {"none", "kv", "local"}] /\ \A q \in Page : key'[q] = "none" <=> key[q] = "none"
  BY DEF ReadTypes, D!Fetched

\* An attempt without a key.
LEMMA FailsKeeps ==
  ASSUME ReadInv, NEW t \in jobs, t.op \in Tries, D!Fails(t),
         row' = row, rx' = rx, sent' = sent, cache' = cache, store' = store, no' = no, why' = why,
         key' = key, asked' = asked, guard' = guard, budget' = budget, other' = other
  PROVE  ReadInv'
<1>0. ReadTypes /\ Kinds /\ t \in ReadJobs /\ t.p \in Page /\ PageInv(t.p)
  BY JobHas DEF ReadInv, ReadTypes
<1>1. /\ jobs' \in SUBSET ReadJobs /\ \A x \in jobs : x # t => x \in jobs'
      /\ \A x \in jobs' : x \in jobs \/ (x.p = t.p /\ x.op = "timer" /\ x.ver = t.ver)
      /\ page' \in [Page -> Views] /\ \A q \in Page : q # t.p => page'[q] = page[q]
      /\ page'[t.p].raw = page[t.p].raw /\ page'[t.p].rx = page[t.p].rx
      /\ page'[t.p].text = D!Absent <=> page[t.p].text = D!Absent
      /\ page'[t.p].text = page[t.p].text \/ page'[t.p].text < 0
      /\ stuck' \in [Page -> SUBSET Causes] /\ \A q \in Page : q # t.p => stuck'[q] = stuck[q]
      /\ stuck[t.p] \subseteq stuck'[t.p]
      /\ \/ stuck'[t.p] # {}
         \/ page' = page /\ \E x \in jobs' : x.p = t.p /\ x.op = "timer"
  BY <1>0, FailsFacts
<1>2. ReadTypes'
  BY <1>0, <1>1 DEF ReadTypes
<1>3. Kinds'
  BY <1>0, <1>1 DEF Kinds
<1>4. LockPage(t.p)'
  BY <1>0, <1>1 DEF PageInv, LockPage, Tries
<1>5. \A x \in jobs' : \/ x \in jobs
                       \/ x.p = t.p /\ x.op \in Tries /\ x.ver = t.ver
  BY <1>1 DEF Tries
<1> QED BY <1>0, <1>1, <1>2, <1>3, <1>4, <1>5, TryStep

\* An attempt that opened the message.
LEMMA GotKey ==
  ASSUME ReadInv, NEW t \in jobs, t.op \in Tries, NEW y \in ReadJobs, y.op = "opened", y.p = t.p,
         y.ver = t.ver \/ why'[t.p] # {}, budget.kind = "v4" => y.ver = 0, jobs' = (jobs \ {t}) \cup {y},
         why' \in [Page -> SUBSET Causes], \A q \in Page : q # t.p => why'[q] = why[q], why'[t.p] = {} => why[t.p] = {},
         key' = D!Fetched(t.p), asked' \in SUBSET Page,
         row' = row, rx' = rx, sent' = sent, cache' = cache, store' = store, no' = no, page' = page,
         stuck' = stuck, guard' = guard, budget' = budget, other' = other
  PROVE  ReadInv'
<1>0. ReadTypes /\ Kinds /\ t \in ReadJobs /\ t.p \in Page /\ PageInv(t.p)
  BY JobHas DEF ReadInv, ReadTypes
<1>1. key' \in [Page -> {"none", "kv", "local"}] /\ \A q \in Page : key'[q] = "none" <=> key[q] = "none"
  BY <1>0, FetchedFacts
<1>2. ReadTypes'
  BY <1>0, <1>1 DEF ReadTypes
<1>3. Kinds'
  BY <1>0 DEF Kinds
<1>4. y \in jobs' /\ y.op \in Tries
  BY DEF Tries
<1>5. LockPage(t.p)'
  BY <1>0, <1>4 DEF PageInv, LockPage
<1>6. /\ \A x \in jobs : x # t => x \in jobs'
      /\ \A x \in jobs' : x \in jobs \/ (x.p = t.p /\ x.op \in Tries /\ (x.ver = t.ver \/ why'[t.p] # {}))
  BY <1>4
<1> QED BY <1>0, <1>1, <1>2, <1>3, <1>5, <1>6, TryStep

LEMMA OpenV4Keeps ==
  ASSUME ReadInv, NEW t \in jobs, D!OpenV4(t) PROVE ReadInv'
<1>0. ReadTypes /\ Kinds /\ t \in ReadJobs /\ t.p \in Page /\ PageInv(t.p)
  BY JobHas DEF ReadInv, ReadTypes
<1>1. /\ t.op = "open" /\ t.op \in Tries
      /\ row' = row /\ rx' = rx /\ sent' = sent /\ cache' = cache /\ store' = store /\ no' = no
      /\ asked' = asked /\ guard' = guard /\ budget' = budget /\ other' = other
  BY DEF D!OpenV4, D!Rows, Tries
<1>2. CASE key[t.p] = "none"
  <2>1. D!Fails(t) /\ why' = why /\ key' = key
    BY <1>2 DEF D!OpenV4
  <2> QED BY <1>1, <2>1, FailsKeeps
<1>3. CASE key[t.p] # "none"
  <2>1. /\ key' = D!Fetched(t.p) /\ page' = page /\ stuck' = stuck
        /\ jobs' = (jobs \ {t}) \cup {[t EXCEPT !.op = "opened", !.ver = 0]}
        /\ why' = IF t.ver > 0 THEN [why EXCEPT ![t.p] = @ \cup {"Store"}] ELSE why
    BY <1>3 DEF D!OpenV4, D!Then
  <2>2. PICK y \in ReadJobs : y = [t EXCEPT !.op = "opened", !.ver = 0] /\ y.op = "opened" /\ y.p = t.p /\ y.ver = 0
    BY <1>0, <1>1, NextTry
  <2>3. t.ver \in Nat
    BY <1>0, <1>1, JobHas
  <2>4. /\ why' \in [Page -> SUBSET Causes] /\ \A q \in Page : q # t.p => why'[q] = why[q]
        /\ why'[t.p] = {} => why[t.p] = {} /\ t.ver = 0
    <3>1. "Store" \in Causes
      BY DEF Causes
    <3> QED BY <1>0, <2>1, <2>3, <3>1 DEF ReadTypes
  <2>5. y.ver = t.ver \/ why'[t.p] # {}
    BY <2>2, <2>4
  <2>6. asked' \in SUBSET Page
    BY <1>0, <1>1 DEF ReadTypes
  <2> QED BY <1>1, <2>1, <2>2, <2>4, <2>5, <2>6, GotKey
<1> QED BY <1>2, <1>3

LEMMA OpenGroupKeeps ==
  ASSUME ReadInv, NEW t \in jobs, D!OpenGroup(t) PROVE ReadInv'
<1>0. ReadTypes /\ Kinds /\ t \in ReadJobs /\ t.p \in Page /\ PageInv(t.p)
  BY JobHas DEF ReadInv, ReadTypes
<1>1. /\ t.op = "open" /\ t.op \in Tries /\ budget.kind = "group"
      /\ row' = row /\ rx' = rx /\ sent' = sent /\ cache' = cache /\ store' = store /\ no' = no /\ why' = why
      /\ asked' = asked /\ guard' = guard /\ budget' = budget /\ other' = other
  BY DEF D!OpenGroup, D!Rows, D!Group, Tries
<1>2. CASE key[t.p] = "none"
  <2>1. D!Fails(t) /\ key' = key
    BY <1>2 DEF D!OpenGroup
  <2> QED BY <1>1, <2>1, FailsKeeps
<1>3. CASE key[t.p] # "none"
  <2>1. /\ key' = D!Fetched(t.p) /\ page' = page /\ stuck' = stuck
        /\ jobs' = (jobs \ {t}) \cup {[t EXCEPT !.op = "opened"]}
    BY <1>3 DEF D!OpenGroup, D!Then
  <2>2. PICK y \in ReadJobs : y = [t EXCEPT !.op = "opened"] /\ y.op = "opened" /\ y.p = t.p /\ y.ver = t.ver
    <3>1. "opened" \in Tries
      BY DEF Tries
    <3>2. /\ [t EXCEPT !.op = "opened"] \in ReadJobs /\ [t EXCEPT !.op = "opened"].op = "opened"
          /\ [t EXCEPT !.op = "opened"].p = t.p /\ [t EXCEPT !.op = "opened"].ver = t.ver
      BY <1>0, <1>1, <3>1, NextTry
    <3> QED BY <3>2
  <2>3. why' \in [Page -> SUBSET Causes] /\ asked' \in SUBSET Page
    BY <1>0, <1>1 DEF ReadTypes
  <2> QED BY <1>1, <2>1, <2>2, <2>3, GotKey
<1> QED BY <1>2, <1>3

LEMMA OpenDmKeeps ==
  ASSUME ReadInv, NEW t \in jobs, D!OpenDm(t) PROVE ReadInv'
<1>0. ReadTypes /\ Kinds /\ t \in ReadJobs /\ t.p \in Page /\ PageInv(t.p)
  BY JobHas DEF ReadInv, ReadTypes
<1>1. /\ t.op = "open" /\ t.op \in Tries /\ budget.kind = "dm"
      /\ row' = row /\ rx' = rx /\ sent' = sent /\ cache' = cache /\ store' = store /\ no' = no /\ why' = why
      /\ page' = page /\ stuck' = stuck /\ guard' = guard /\ budget' = budget /\ other' = other
  BY DEF D!OpenDm, D!Rows, D!Texts, Tries
<1>2. PICK y \in ReadJobs : y = [t EXCEPT !.op = "opened"] /\ y.op = "opened" /\ y.p = t.p /\ y.ver = t.ver
  <2>1. "opened" \in Tries
    BY DEF Tries
  <2>2. /\ [t EXCEPT !.op = "opened"] \in ReadJobs /\ [t EXCEPT !.op = "opened"].op = "opened"
        /\ [t EXCEPT !.op = "opened"].p = t.p /\ [t EXCEPT !.op = "opened"].ver = t.ver
    BY <1>0, <1>1, <2>1, NextTry
  <2> QED BY <2>2
<1>3. PICK w \in ReadJobs : w = [t EXCEPT !.op = "await"] /\ w.op = "await" /\ w.p = t.p /\ w.ver = t.ver
  <2>1. "await" \in Tries
    BY DEF Tries
  <2>2. /\ [t EXCEPT !.op = "await"] \in ReadJobs /\ [t EXCEPT !.op = "await"].op = "await"
        /\ [t EXCEPT !.op = "await"].p = t.p /\ [t EXCEPT !.op = "await"].ver = t.ver
    BY <1>0, <1>1, <2>1, NextTry
  <2> QED BY <2>2
<1>4. CASE key[t.p] # "none"
  <2>1. key' = D!Fetched(t.p) /\ asked' = asked /\ jobs' = (jobs \ {t}) \cup {y}
    BY <1>2, <1>4 DEF D!OpenDm, D!Then
  <2>2. why' \in [Page -> SUBSET Causes] /\ asked' \in SUBSET Page
    BY <1>0, <1>1, <2>1 DEF ReadTypes
  <2> QED BY <1>1, <1>2, <2>1, <2>2, GotKey
<1>5. CASE key[t.p] = "none"
  <2>1. PICK asks \in SUBSET {[op |-> "asks", p |-> t.p]} :
          /\ key' = key /\ asked' = asked \cup {t.p} /\ jobs' = (jobs \ {t}) \cup ({w} \cup asks)
    <3>1. /\ key' = key /\ asked' = asked \cup {t.p}
          /\ jobs' = (jobs \ {t}) \cup ({w} \cup IF t.p \in asked THEN {} ELSE {[op |-> "asks", p |-> t.p]})
      BY <1>3, <1>5 DEF D!OpenDm, D!Then
    <3>2. (IF t.p \in asked THEN {} ELSE {[op |-> "asks", p |-> t.p]}) \in SUBSET {[op |-> "asks", p |-> t.p]}
      OBVIOUS
    <3> QED BY <3>1, <3>2
  <2>2. [op |-> "asks", p |-> t.p] \in ReadJobs
    BY <1>0, NewJobs
  <2>3. jobs' \in SUBSET ReadJobs
    BY <1>0, <2>1, <2>2 DEF ReadTypes
  <2>4. /\ \A x \in jobs : x # t => x \in jobs'
        /\ \A x \in jobs' : x \in jobs \/ x = w \/ (x.p = t.p /\ x.op = "asks")
        /\ w \in jobs' /\ w.op \in Tries
    BY <1>3, <2>1 DEF Tries
  <2>5. ReadTypes'
    BY <1>0, <1>1, <2>1, <2>3 DEF ReadTypes
  <2>6. Kinds'
    BY <1>0, <1>1 DEF Kinds
  <2>7. LockPage(t.p)'
    BY <1>0, <1>1, <1>3, <2>4 DEF PageInv, LockPage
  <2>8. \A x \in jobs' : \/ x \in jobs
                         \/ /\ x.p = t.p /\ x.op \in Tries \cup {"asks"}
                            /\ x.op \in Tries => x.ver = t.ver
    BY <1>3, <2>4 DEF Tries
  <2> QED BY <1>0, <1>1, <2>1, <2>4, <2>5, <2>6, <2>7, <2>8, TryStep
<1> QED BY <1>4, <1>5

LEMMA AwaitKeeps ==
  ASSUME ReadInv, NEW t \in jobs, D!Await(t) PROVE ReadInv'
<1>0. ReadTypes /\ Kinds /\ t \in ReadJobs /\ t.p \in Page /\ PageInv(t.p)
  BY JobHas DEF ReadInv, ReadTypes
<1>1. /\ t.op = "await" /\ t.op \in Tries
      /\ row' = row /\ rx' = rx /\ sent' = sent /\ cache' = cache /\ store' = store /\ no' = no /\ why' = why
      /\ guard' = guard /\ budget' = budget /\ other' = other
  BY DEF D!Await, D!Rows, Tries
<1>2. CASE t.p \in no \/ key[t.p] = "none"
  <2>1. D!Fails(t) /\ key' = key /\ asked' = asked
    BY <1>2 DEF D!Await
  <2> QED BY <1>1, <2>1, FailsKeeps
<1>3. CASE ~(t.p \in no \/ key[t.p] = "none")
  <2>1. /\ key' = D!Fetched(t.p) /\ asked' = asked \ {t.p} /\ page' = page /\ stuck' = stuck
        /\ jobs' = (jobs \ {t}) \cup {[t EXCEPT !.op = "opened"]}
    BY <1>3 DEF D!Await, D!Then
  <2>2. PICK y \in ReadJobs : y = [t EXCEPT !.op = "opened"] /\ y.op = "opened" /\ y.p = t.p /\ y.ver = t.ver
    <3>1. "opened" \in Tries
      BY DEF Tries
    <3>2. /\ [t EXCEPT !.op = "opened"] \in ReadJobs /\ [t EXCEPT !.op = "opened"].op = "opened"
          /\ [t EXCEPT !.op = "opened"].p = t.p /\ [t EXCEPT !.op = "opened"].ver = t.ver
      BY <1>0, <1>1, <3>1, NextTry
    <3> QED BY <3>2
  <2>3. why' \in [Page -> SUBSET Causes] /\ asked' \in SUBSET Page
    BY <1>0, <1>1, <2>1 DEF ReadTypes
  <2>4. budget.kind = "v4" => y.ver = 0
    BY <1>0, <1>1, <2>2 DEF Kinds
  <2> QED BY <1>1, <2>1, <2>2, <2>3, <2>4, GotKey
<1> QED BY <1>2, <1>3

\* The text of an attempt is shown, and kept.
LEMMA OpenedKeeps ==
  ASSUME ReadInv, NEW t \in jobs, D!Opened(t) \/ D!OpenedGroup(t) PROVE ReadInv'
<1>0. ReadTypes /\ Kinds /\ t \in ReadJobs /\ t.p \in Page /\ PageInv(t.p)
  BY JobHas DEF ReadInv, ReadTypes
<1>1. /\ t.op = "opened" /\ t.op \in Tries /\ D!Patch(t.p, t.ver) /\ jobs' = jobs \ {t}
      /\ row' = row /\ rx' = rx /\ sent' = sent /\ why' = why /\ stuck' = stuck
      /\ key' = key /\ asked' = asked /\ guard' = guard /\ budget' = budget /\ other' = other
      /\ no' = no \ {t.p} \/ no' = no
  BY DEF D!Opened, D!OpenedGroup, D!Then, D!Rows, D!Keys, Tries
<1>2. /\ \/ cache' = cache /\ store' = [store EXCEPT ![t.p] = t.ver] /\ budget.kind = "v4"
         \/ cache' = [cache EXCEPT ![t.p] = t.ver] /\ store' = store
      /\ t.p \in no' => budget.kind = "group"
  BY DEF D!Opened, D!OpenedGroup, D!V4, D!Group
<1>3. t.ver \in Nat /\ (budget.kind = "v4" => t.ver = 0)
  BY <1>0, <1>1, JobHas DEF Kinds
<1>4. /\ page' \in [Page -> Views] /\ \A q \in Page : q # t.p => page'[q] = page[q]
      /\ page'[t.p].raw = page[t.p].raw /\ page'[t.p].rx = page[t.p].rx
      /\ page[t.p].text = D!Absent => page'[t.p].text = D!Absent
      /\ page[t.p].text # D!Absent => page'[t.p].text = t.ver
  BY <1>0, <1>1, <1>3, Patched
<1>5. t.ver # D!Absent /\ t.ver # D!Gone /\ t.ver # D!Locked /\ D!Absent # D!Gone /\ D!Absent # D!Locked
  BY <1>3 DEF D!Gone, D!Absent, D!Locked
<1>6. /\ cache' \in [Page -> {D!Absent} \cup Nat] /\ store' \in [Page -> {D!Absent, 0}]
      /\ \A q \in Page : q # t.p => cache'[q] = cache[q]
      /\ cache'[t.p] = cache[t.p] \/ cache'[t.p] = t.ver
  BY <1>0, <1>2, <1>3 DEF ReadTypes
<1>7. ReadTypes'
  BY <1>0, <1>1, <1>4, <1>6 DEF ReadTypes
<1>8. Kinds'
  BY <1>0, <1>1 DEF Kinds
<1>9. t.p \notin no'
  <2>1. budget.kind = "group" => no = {}
    BY <1>0 DEF Kinds
  <2> QED BY <1>1, <1>2, <2>1
<1>10. LockPage(t.p)'
  BY <1>4, <1>5, <1>9 DEF LockPage
<1> QED BY <1>0, <1>1, <1>4, <1>5, <1>6, <1>7, <1>8, <1>10, TryStep

LEMMA TimerKeeps ==
  ASSUME ReadInv, NEW t \in jobs, D!Timer(t) PROVE ReadInv'
<1>0. ReadTypes /\ Kinds /\ t \in ReadJobs /\ t.p \in Page /\ PageInv(t.p)
  BY JobHas DEF ReadInv, ReadTypes
<1>1. /\ t.op = "timer" /\ t.op \in Tries
      /\ row' = row /\ rx' = rx /\ sent' = sent /\ cache' = cache /\ store' = store /\ no' = no /\ why' = why
      /\ page' = page /\ stuck' = stuck /\ key' = key /\ asked' = asked
      /\ guard' = guard /\ budget' = budget /\ other' = other
  BY DEF D!Timer, D!Rows, D!Texts, D!Keys, Tries
<1>2. PICK y \in ReadJobs : y = [t EXCEPT !.op = "open", !.att = @ + 1] /\ y.op = "open" /\ y.p = t.p /\ y.ver = t.ver
  BY <1>0, <1>1, NextTry
<1>3. \/ jobs' = (jobs \ {t}) \cup {y}
      \/ jobs' = jobs \ {t} /\ (t.p \in no \/ page[t.p].text # D!Locked)
  BY <1>2 DEF D!Timer, D!Then, D!StillLocked
<1>4. /\ jobs' \in SUBSET ReadJobs /\ \A x \in jobs : x # t => x \in jobs'
      /\ \A x \in jobs' : x \in jobs \/ x = y
      /\ y \in jobs' \/ t.p \in no \/ page[t.p].text # D!Locked
  BY <1>0, <1>3 DEF ReadTypes
<1>5. ReadTypes'
  BY <1>0, <1>1, <1>4 DEF ReadTypes
<1>6. Kinds'
  BY <1>0, <1>1, <1>2, <1>4 DEF Kinds
<1>7. LockPage(t.p)'
  BY <1>0, <1>1, <1>2, <1>4 DEF PageInv, LockPage, Tries
<1>8. \A x \in jobs' : x \in jobs \/ (x.p = t.p /\ x.op \in Tries /\ x.ver = t.ver)
  BY <1>2, <1>4 DEF Tries
<1> QED BY <1>0, <1>1, <1>4, <1>5, <1>6, <1>7, <1>8, TryStep

LEMMA KickKeeps ==
  ASSUME ReadInv, NEW t \in jobs, D!Kick(t) PROVE ReadInv'
<1>0. ReadTypes /\ Kinds /\ t \in ReadJobs /\ t.p \in Page /\ PageInv(t.p)
  BY JobHas DEF ReadInv, ReadTypes
<1>1. /\ t.op = "kick" /\ t.op \notin Tries
      /\ row' = row /\ rx' = rx /\ sent' = sent /\ cache' = cache /\ store' = store /\ no' = no /\ why' = why
      /\ page' = page /\ stuck' = stuck /\ key' = key
      /\ guard' = guard /\ budget' = budget /\ other' = other
  BY DEF D!Kick, D!Rows, D!Texts, Tries
<1>2. /\ asked' \in SUBSET Page
      /\ jobs' = (jobs \ {t}) \cup {[op |-> "asks", p |-> t.p]} \/ jobs' = jobs \ {t}
  BY <1>0 DEF D!Kick, D!Then, ReadTypes
<1>3. [op |-> "asks", p |-> t.p] \in ReadJobs
  BY <1>0, NewJobs
<1>4. /\ jobs' \in SUBSET ReadJobs /\ \A x \in jobs : x # t => x \in jobs'
      /\ \A x \in jobs' : x \in jobs \/ (x.p = t.p /\ x.op = "asks" /\ x.op \notin Tries)
  BY <1>0, <1>2, <1>3 DEF ReadTypes, Tries
<1>5. ReadTypes'
  BY <1>0, <1>1, <1>2, <1>4 DEF ReadTypes
<1>6. Kinds'
  BY <1>0, <1>1, <1>4 DEF Kinds
<1>7. LockPage(t.p)'
  BY <1>0, <1>1, <1>4 DEF PageInv, LockPage
<1> QED BY <1>0, <1>1, <1>4, <1>5, <1>6, <1>7, TryStep

LEMMA PeerSaysNoKeeps ==
  ASSUME ReadInv, NEW t \in jobs, D!PeerSaysNo(t) PROVE ReadInv'
<1>0. ReadTypes /\ Kinds /\ t \in ReadJobs /\ t.p \in Page /\ PageInv(t.p)
  BY JobHas DEF ReadInv, ReadTypes
<1>1. /\ t.op = "asks" /\ t.op \notin Tries /\ jobs' = jobs \ {t}
      /\ row' = row /\ rx' = rx /\ sent' = sent /\ cache' = cache /\ store' = store /\ why' = why
      /\ key' = key /\ guard' = guard /\ budget' = budget /\ other' = other
  BY DEF D!PeerSaysNo, D!Then, D!Rows, Tries
<1>2. \/ page' = page /\ no' = no /\ asked' = asked /\ stuck' = stuck
      \/ /\ no' = no \cup {t.p} /\ asked' = asked \ {t.p} /\ stuck' = [stuck EXCEPT ![t.p] = @ \cup {"No"}]
         /\ page' = page \/ (page' = [page EXCEPT ![t.p].text = D!Gone] /\ page[t.p].text = D!Locked)
  <2>1. PICK new : new = [page EXCEPT ![t.p].text = D!Gone]
    OBVIOUS
  <2>2. \/ page' = page /\ no' = no /\ asked' = asked /\ stuck' = stuck
        \/ /\ no' = no \cup {t.p} /\ asked' = asked \ {t.p} /\ stuck' = [stuck EXCEPT ![t.p] = @ \cup {"No"}]
           /\ page' = IF D!StillLocked(t.p) THEN new ELSE page
    BY <2>1 DEF D!PeerSaysNo
  <2>3. \/ page' = page /\ no' = no /\ asked' = asked /\ stuck' = stuck
        \/ /\ no' = no \cup {t.p} /\ asked' = asked \ {t.p} /\ stuck' = [stuck EXCEPT ![t.p] = @ \cup {"No"}]
           /\ page' = page \/ (page' = new /\ page[t.p].text = D!Locked)
    BY <2>2 DEF D!StillLocked
  <2> QED BY <2>1, <2>3
<1>3. /\ page' \in [Page -> Views] /\ \A q \in Page : q # t.p => page'[q] = page[q]
      /\ page'[t.p].raw = page[t.p].raw /\ page'[t.p].rx = page[t.p].rx
      /\ page'[t.p].text = D!Absent <=> page[t.p].text = D!Absent
      /\ page'[t.p].text = page[t.p].text \/ page'[t.p].text < 0
  <2>1. page \in [Page -> Views] /\ D!Gone \in Int /\ D!Gone < 0 /\ D!Gone # D!Absent /\ D!Locked # D!Absent
    BY <1>0 DEF ReadTypes, D!Gone, D!Absent, D!Locked
  <2>2. [page[t.p] EXCEPT !.text = D!Gone] \in Views
    BY <1>0, <2>1 DEF Views
  <2> QED BY <1>0, <1>2, <2>1, <2>2 DEF Views
<1>4. /\ no' \in SUBSET Page /\ asked' \in SUBSET Page /\ stuck' \in [Page -> SUBSET Causes]
      /\ \A q \in Page : q # t.p => stuck'[q] = stuck[q] /\ (q \in no' <=> q \in no)
      /\ \/ page' = page /\ no' = no /\ stuck' = stuck
         \/ stuck'[t.p] # {}
  BY <1>0, <1>2 DEF ReadTypes, Causes
<1>5. ReadTypes'
  BY <1>0, <1>1, <1>3, <1>4 DEF ReadTypes
<1>6. Kinds'
  BY <1>0, <1>1 DEF Kinds
<1>7. LockPage(t.p)'
  BY <1>0, <1>1, <1>4 DEF PageInv, LockPage
<1> QED BY <1>0, <1>1, <1>3, <1>4, <1>5, <1>6, <1>7, TryStep

\* A list shows the row it read, and begins to open it.
LEMMA ShowsFacts ==
  ASSUME ReadInv, NEW t \in jobs, t.op = "listed", no' = no, cache' = cache,
         D!Shows(t, t.p, D!NewRow(t.p, t))
  PROVE  /\ jobs' \in SUBSET ReadJobs /\ \A x \in jobs : x # t => x \in jobs'
         /\ \A x \in jobs' : \/ x \in jobs /\ x # t
                             \/ x.p = t.p /\ x.op = "open" /\ x.ver = t.ver
                             \/ x.p = t.p /\ x.op = "kick" /\ budget.kind # "group"
         /\ page' \in [Page -> Views] /\ \A q \in Page : q # t.p => page'[q] = page[q]
         /\ page'[t.p].raw = t.ver /\ page'[t.p].rx = t.rx /\ page'[t.p].text \in {D!Locked, D!Gone}
         /\ stuck' \in [Page -> SUBSET Causes] /\ \A q \in Page : q # t.p => stuck'[q] = stuck[q]
         /\ guard' \in SUBSET Page
         /\ LockPage(t.p)'
<1>0. ReadTypes /\ Kinds /\ t \in ReadJobs /\ t.p \in Page /\ t.ver \in Nat /\ t.rx \in SUBSET Reactors /\ PageInv(t.p)
  BY JobHas DEF ReadInv, ReadTypes
<1>1. PICK new : new = D!NewRow(t.p, t)
  OBVIOUS
<1>2. /\ new \in [Page -> Views] /\ \A q \in Page : q # t.p => new[q] = page[q]
      /\ new[t.p].raw = t.ver /\ new[t.p].rx = t.rx /\ new[t.p].text = D!Locked
  <2>1. page \in [Page -> Views] /\ D!Locked \in Int
    BY <1>0 DEF ReadTypes, D!Locked
  <2>2. new = [page EXCEPT ![t.p] = [@ EXCEPT !.text = D!Locked, !.raw = t.ver, !.rx = t.rx]]
    BY <1>0, <1>1, <2>1 DEF D!NewRow, Views
  <2>3. PICK w : w = [page[t.p] EXCEPT !.text = D!Locked, !.raw = t.ver, !.rx = t.rx]
    OBVIOUS
  <2>4. w \in Views /\ w.text = D!Locked /\ w.raw = t.ver /\ w.rx = t.rx
    BY <1>0, <2>1, <2>3 DEF Views
  <2>5. new = [page EXCEPT ![t.p] = w]
    BY <2>2, <2>3
  <2> QED BY <1>0, <2>1, <2>4, <2>5
<1>3. PICK first : first = [op |-> "open", p |-> t.p, ver |-> new[t.p].raw, att |-> 0]
  OBVIOUS
<1>4. PICK kick : kick = [op |-> "kick", p |-> t.p]
  OBVIOUS
<1>5. /\ first \in ReadJobs /\ first.op = "open" /\ first.p = t.p /\ first.ver = t.ver /\ first.op \in Tries
      /\ kick \in ReadJobs /\ kick.op = "kick" /\ kick.p = t.p
  <2>1. "open" \in Tries
    BY DEF Tries
  <2> QED BY <1>0, <1>2, <1>3, <1>4, <2>1, NewJobs
<1>6. \/ /\ guard' = guard /\ page' = new /\ jobs' = jobs \ {t} /\ stuck' = [stuck EXCEPT ![t.p] = @ \cup {"Guard"}]
      \/ /\ guard' = guard \cup {t.p} /\ page' = new /\ stuck' = [stuck EXCEPT ![t.p] = {}]
         /\ jobs' = (jobs \ {t}) \cup {first} /\ budget.kind = "group"
      \/ /\ guard' = guard \cup {t.p} /\ page' = new /\ stuck' = [stuck EXCEPT ![t.p] = {}]
         /\ jobs' = (jobs \ {t}) \cup {first, kick} /\ budget.kind # "group" /\ t.p \notin no
      \/ /\ guard' = guard \cup {t.p} /\ page' = [new EXCEPT ![t.p].text = D!Gone] /\ stuck' = stuck
         /\ jobs' = jobs \ {t} /\ t.p \in no
  <2>1. \/ D!SkipSweep(t.p, new, t)
        \/ D!Group /\ D!SweepGroup(t.p, new, t)
        \/ ~D!Group /\ D!Sweep(t.p, new, t)
    BY <1>1 DEF D!Shows
  <2>2. CASE D!SkipSweep(t.p, new, t)
    BY <2>2 DEF D!SkipSweep, D!Then
  <2>3. CASE D!Group /\ D!SweepGroup(t.p, new, t)
    BY <1>3, <2>3 DEF D!SweepGroup, D!Then, D!Group
  <2>4. CASE ~D!Group /\ D!Sweep(t.p, new, t)
    BY <1>3, <1>4, <2>4 DEF D!Sweep, D!Then, D!Group
  <2> QED BY <2>1, <2>2, <2>3, <2>4
<1>7. budget.kind = "group" => t.p \notin no
  BY <1>0 DEF Kinds
<1>8. guard' \in SUBSET Page
  BY <1>0, <1>6 DEF ReadTypes
<1>9. D!Gone \in Int /\ D!Locked # D!Absent /\ D!Locked # D!Gone /\ D!Gone # D!Absent
  BY DEF D!Locked, D!Gone, D!Absent
<1>10. CASE page' = new /\ jobs' = jobs \ {t} /\ stuck' = [stuck EXCEPT ![t.p] = @ \cup {"Guard"}]
  <2>1. /\ stuck' \in [Page -> SUBSET Causes] /\ \A q \in Page : q # t.p => stuck'[q] = stuck[q]
        /\ stuck'[t.p] # {}
    BY <1>0, <1>10 DEF ReadTypes, Causes
  <2>2. LockPage(t.p)'
    BY <2>1 DEF LockPage
  <2>3. jobs' \in SUBSET ReadJobs /\ \A x \in jobs : x # t => x \in jobs' /\ \A y \in jobs' : y \in jobs /\ y # t
    BY <1>0, <1>10 DEF ReadTypes
  <2> QED BY <1>2, <1>8, <1>10, <2>1, <2>2, <2>3
<1>11. CASE /\ page' = new /\ stuck' = [stuck EXCEPT ![t.p] = {}] /\ t.p \notin no
            /\ \/ jobs' = (jobs \ {t}) \cup {first}
               \/ jobs' = (jobs \ {t}) \cup {first, kick} /\ budget.kind # "group"
  <2>1. stuck' \in [Page -> SUBSET Causes] /\ \A q \in Page : q # t.p => stuck'[q] = stuck[q]
    BY <1>0, <1>11 DEF ReadTypes
  <2>2. /\ jobs' \in SUBSET ReadJobs /\ \A x \in jobs : x # t => x \in jobs'
        /\ first \in jobs'
        /\ \A y \in jobs' : (y \in jobs /\ y # t) \/ y = first \/ (y = kick /\ budget.kind # "group")
    BY <1>0, <1>5, <1>11 DEF ReadTypes
  <2>3. LockPage(t.p)'
    BY <1>2, <1>5, <1>9, <1>11, <2>2 DEF LockPage
  <2> QED BY <1>2, <1>5, <1>8, <1>11, <2>1, <2>2, <2>3
<1>12. CASE page' = [new EXCEPT ![t.p].text = D!Gone] /\ stuck' = stuck /\ jobs' = jobs \ {t} /\ t.p \in no
  <2>1. /\ page' \in [Page -> Views] /\ \A q \in Page : q # t.p => page'[q] = page[q]
        /\ page'[t.p].raw = t.ver /\ page'[t.p].rx = t.rx /\ page'[t.p].text = D!Gone
    <3>1. PICK w : w = [new[t.p] EXCEPT !.text = D!Gone]
      OBVIOUS
    <3>2. w \in Views /\ w.text = D!Gone /\ w.raw = t.ver /\ w.rx = t.rx
      BY <1>0, <1>2, <1>9, <3>1 DEF Views
    <3>3. page' = [new EXCEPT ![t.p] = w]
      BY <1>12, <3>1
    <3> QED BY <1>0, <1>2, <3>2, <3>3
  <2>2. stuck' \in [Page -> SUBSET Causes] /\ stuck[t.p] # {}
    BY <1>0, <1>12 DEF ReadTypes, PageInv, LockPage
  <2>3. LockPage(t.p)'
    BY <1>12, <2>2 DEF LockPage
  <2>4. jobs' \in SUBSET ReadJobs /\ \A x \in jobs : x # t => x \in jobs' /\ \A y \in jobs' : y \in jobs /\ y # t
    BY <1>0, <1>12 DEF ReadTypes
  <2> QED BY <1>8, <1>12, <2>1, <2>2, <2>3, <2>4
<1> QED BY <1>6, <1>7, <1>10, <1>11, <1>12

\* A list that is shown: its row is the row, unless the page has an excuse.
LEMMA ShowsKeeps ==
  ASSUME ReadInv, NEW t \in jobs, t.op = "listed", D!Shows(t, t.p, D!NewRow(t.p, t)),
         row' = row, rx' = rx, sent' = sent, cache' = cache, store' = store, no' = no, key' = key,
         asked' = asked, budget' = budget
  PROVE  ReadInv'
<1>0. ReadTypes /\ Kinds /\ t \in ReadJobs /\ t.p \in Page /\ t.ver \in Nat /\ \A q \in Page : PageInv(q)
  BY JobHas DEF ReadInv, ReadTypes
<1>1. /\ jobs' \in SUBSET ReadJobs /\ \A x \in jobs : x # t => x \in jobs'
      /\ \A x \in jobs' : \/ x \in jobs /\ x # t
                          \/ x.p = t.p /\ x.op = "open" /\ x.ver = t.ver
                          \/ x.p = t.p /\ x.op = "kick" /\ budget.kind # "group"
      /\ page' \in [Page -> Views] /\ \A q \in Page : q # t.p => page'[q] = page[q]
      /\ page'[t.p].raw = t.ver /\ page'[t.p].rx = t.rx /\ page'[t.p].text \in {D!Locked, D!Gone}
      /\ stuck' \in [Page -> SUBSET Causes] /\ \A q \in Page : q # t.p => stuck'[q] = stuck[q]
      /\ guard' \in SUBSET Page
      /\ LockPage(t.p)'
  BY ShowsFacts
<1>2. /\ why' = [why EXCEPT ![t.p] = {}] \/ why' = why
      /\ \/ why' = why
         \/ /\ t.ver = row /\ cache[t.p] \in {D!Absent, row}
            /\ \A x \in jobs : x.p = t.p /\ x.op \in Tries \cup {"listed", "edited", "answer"} => x.ver = row
  BY DEF D!Shows, D!FreshWhy, D!At, Tries
<1>3. /\ other' = other \ {t.p} \/ other' = other
      /\ \/ other' = other
         \/ t.rx = rx /\ \A x \in jobs : x.p = t.p /\ x.op \in {"listed", "reacted"} /\ x # t => x.rx = rx
  BY DEF D!Shows, D!Agreed, D!At
<1>4. why' \in [Page -> SUBSET Causes] /\ other' \in SUBSET Page
  BY <1>0, <1>2, <1>3 DEF ReadTypes
<1>5. ReadTypes'
  BY <1>0, <1>1, <1>4 DEF ReadTypes
<1>6. Kinds'
  BY <1>0, <1>1 DEF Kinds
<1>7. \A x \in jobs : x.op \in {"tell", "snap", "show", "edited"} => x \in jobs'
  BY <1>1
<1>8. ASSUME NEW q \in Page, q # t.p PROVE PageInv(q)'
  <2>1. \A x : x.p = q => (x \in jobs' <=> x \in jobs)
    BY <1>1, <1>8
  <2>2. why'[q] = why[q] /\ (q \in other => q \in other')
    BY <1>0, <1>2, <1>3, <1>8 DEF ReadTypes
  <2> QED BY <1>0, <1>1, <1>7, <1>8, <2>1, <2>2, Untouched
<1>9. EditPage(t.p)'
  <2> SUFFICES ASSUME why'[t.p] = {}, ~Telling PROVE EditGood(t.p)'
    BY <1>7 DEF EditPage, Telling
  <2>1. /\ t.ver = row /\ cache[t.p] \in {D!Absent, row}
        /\ \A x \in jobs : x.p = t.p /\ x.op \in Tries \cup {"listed", "edited", "answer"} => x.ver = row
    <3>1. CASE why' = why
      <4>1. EditGood(t.p)
        BY <1>0, <3>1 DEF PageInv, EditPage
      <4> QED BY <4>1 DEF EditGood
    <3>2. CASE why' # why
      BY <1>2, <3>2
    <3> QED BY <3>1, <3>2
  <2>2. page'[t.p].text < 0
    BY <1>1 DEF D!Locked, D!Gone
  <2>3. page'[t.p].text \in Int
    BY <1>1 DEF D!Locked, D!Gone
  <2>4. \A x \in jobs' : x.p = t.p /\ x.op \in Tries \cup {"listed", "edited", "answer"} => x.ver = row'
    BY <1>1, <2>1 DEF Tries
  <2> QED BY <1>1, <2>1, <2>2, <2>3, <2>4 DEF EditGood
<1>10. ReactPage(t.p)'
  <2> SUFFICES ASSUME t.p \notin other', ~Bringing PROVE ReactGood(t.p)'
    BY <1>7 DEF ReactPage, Bringing
  <2>1. t.rx = rx /\ \A x \in jobs : x.p = t.p /\ x.op \in {"listed", "reacted"} /\ x # t => x.rx = rx
    <3>1. CASE other' = other
      <4>1. ReactGood(t.p)
        BY <1>0, <3>1 DEF PageInv, ReactPage
      <4> QED BY <4>1 DEF ReactGood
    <3>2. CASE other' # other
      BY <1>3, <3>2
    <3> QED BY <3>1, <3>2
  <2> QED BY <1>1, <2>1 DEF ReactGood
<1> QED BY <1>1, <1>5, <1>6, <1>8, <1>9, <1>10 DEF ReadInv, PageInv

\* A step that opens, edits and shows nothing: what it reads is what is there.
LEMMA QuietStep ==
  ASSUME ReadInv, ReadTypes', row' = row, rx' = rx, cache' = cache, why' = why, stuck' = stuck, no' = no,
         other' = other, budget'.kind = budget.kind, \A q \in Page : key[q] # "none" => key'[q] # "none",
         Telling => Telling', Bringing => Bringing',
         \A x \in jobs : x.op \in Tries \cup {"edited"} => x \in jobs',
         \A x \in jobs' : x.op \in Tries \cup {"listed", "edited", "answer", "reacted", "asks", "kick"} =>
                            x \in jobs \/ (x.op = "listed" /\ x.ver = row /\ x.rx = rx),
         \A q \in Page : /\ page'[q].raw = page[q].raw /\ page'[q].rx = page[q].rx
                         /\ page'[q].text = page[q].text \/ page'[q].text = D!Absent
  PROVE  ReadInv'
<1>0. ReadTypes /\ Kinds /\ \A q \in Page : PageInv(q)
  BY DEF ReadInv
<1>1. Kinds'
  BY <1>0 DEF Kinds, Tries
<1>2. D!Absent < 0 /\ D!Absent # D!Gone /\ D!Absent # D!Locked
  BY DEF D!Absent, D!Gone, D!Locked
<1>3. ASSUME NEW q \in Page PROVE PageInv(q)'
  <2>0. PageInv(q) /\ page[q].text \in Int /\ page'[q].text \in Int
    BY <1>0 DEF ReadTypes, Views
  <2>1. Coming(q) => Coming(q)'
    BY DEF Coming
  <2>2. EditGood(q) => EditGood(q)'
    <3>1. SUFFICES ASSUME EditGood(q) PROVE EditGood(q)'
      OBVIOUS
    <3>2. \A x \in jobs' : x.p = q /\ x.op \in Tries \cup {"listed", "edited", "answer"} => x.ver = row'
      BY <3>1 DEF EditGood, Tries
    <3> QED BY <1>2, <2>0, <2>1, <3>1, <3>2 DEF EditGood
  <2>3. LockPage(q)'
    BY <1>2, <2>0 DEF PageInv, LockPage
  <2>4. ReactGood(q) => ReactGood(q)'
    BY <2>0 DEF ReactGood
  <2> QED BY <2>0, <2>2, <2>3, <2>4 DEF PageInv, EditPage, ReactPage
<1> QED BY <1>1, <1>3 DEF ReadInv

\* Acts of the user spend the bounds.
LEMMA SpendFacts ==
  ASSUME ReadTypes, NEW what \in {"edits", "reacts", "views", "fails"}, D!Spend(what)
  PROVE  budget' \in Budgets /\ budget'.kind = budget.kind
<1>1. budget \in Budgets /\ budget[what] > 0 /\ budget' = [budget EXCEPT ![what] = @ - 1]
  BY DEF ReadTypes, D!Spend
<1>2. budget[what] \in Nat
  BY <1>1 DEF Budgets
<1>3. PICK n \in Nat : n = budget[what] - 1
  BY <1>1, <1>2
<1>4. budget' = [budget EXCEPT ![what] = n]
  BY <1>1, <1>3
<1> QED BY <1>1, <1>4 DEF Budgets

\* The fields of a page that a step of the user changes.
LEMMA PageFields ==
  ASSUME ReadTypes, NEW p \in Page, NEW b \in BOOLEAN
  PROVE  /\ [page EXCEPT ![p].up = b] \in [Page -> Views] /\ [page EXCEPT ![p].open = b] \in [Page -> Views]
         /\ [page EXCEPT ![p].open = b, ![p].text = D!Absent] \in [Page -> Views]
         /\ \A q \in Page : /\ [page EXCEPT ![p].up = b][q].raw = page[q].raw /\ [page EXCEPT ![p].up = b][q].rx = page[q].rx
                            /\ [page EXCEPT ![p].up = b][q].text = page[q].text
                            /\ [page EXCEPT ![p].open = b][q].raw = page[q].raw /\ [page EXCEPT ![p].open = b][q].rx = page[q].rx
                            /\ [page EXCEPT ![p].open = b][q].text = page[q].text
                            /\ [page EXCEPT ![p].open = b, ![p].text = D!Absent][q].raw = page[q].raw
                            /\ [page EXCEPT ![p].open = b, ![p].text = D!Absent][q].rx = page[q].rx
                            /\ [page EXCEPT ![p].open = b, ![p].text = D!Absent][q].text \in {page[q].text, D!Absent}
<1>1. page \in [Page -> Views] /\ D!Absent \in Int
  BY DEF ReadTypes, D!Absent
<1>2. /\ [page[p] EXCEPT !.up = b] \in Views /\ [page[p] EXCEPT !.open = b] \in Views
      /\ [page[p] EXCEPT !.open = b, !.text = D!Absent] \in Views
  BY <1>1 DEF Views
<1>3. [page EXCEPT ![p].up = b] = [page EXCEPT ![p] = [page[p] EXCEPT !.up = b]]
  BY <1>1
<1>4. [page EXCEPT ![p].open = b] = [page EXCEPT ![p] = [page[p] EXCEPT !.open = b]]
  BY <1>1
<1>5. [page EXCEPT ![p].open = b, ![p].text = D!Absent] = [page EXCEPT ![p] = [page[p] EXCEPT !.open = b, !.text = D!Absent]]
  BY <1>1 DEF Views
<1> QED BY <1>1, <1>2, <1>3, <1>4, <1>5 DEF Views

LEMMA ViewKeeps ==
  ASSUME ReadInv, NEW p \in Page,
         \/ D!Select(p) \/ D!Close(p) \/ D!Sleep(p) \/ D!Resume(p) \/ D!GuardEnds(p) \/ D!PendingEnds(p)
  PROVE  ReadInv'
<1>0. ReadTypes
  BY DEF ReadInv
<1>1. /\ row' = row /\ rx' = rx /\ sent' = sent /\ cache' = cache /\ store' = store /\ why' = why /\ stuck' = stuck
      /\ no' = no /\ other' = other /\ key' = key
  BY DEF D!Select, D!Close, D!Sleep, D!Resume, D!GuardEnds, D!PendingEnds, D!Rows, D!Keys, D!Texts
<1>2. asked' \in SUBSET Page /\ guard' \in SUBSET Page
  BY <1>0 DEF ReadTypes, D!Select, D!Close, D!Sleep, D!Resume, D!GuardEnds, D!PendingEnds, D!Keys
<1>3. budget' \in Budgets /\ budget'.kind = budget.kind
  <2>1. D!Spend("views") \/ budget' = budget
    BY DEF D!Select, D!Close, D!Sleep, D!Resume, D!GuardEnds, D!PendingEnds
  <2> QED BY <1>0, <2>1, SpendFacts DEF ReadTypes
<1>4. \/ page' = page \/ page' = [page EXCEPT ![p].up = TRUE] \/ page' = [page EXCEPT ![p].up = FALSE]
      \/ page' = [page EXCEPT ![p].open = TRUE] \/ page' = [page EXCEPT ![p].open = FALSE, ![p].text = D!Absent]
  BY DEF D!Select, D!Close, D!Sleep, D!Resume, D!GuardEnds, D!PendingEnds, D!Texts
<1>5. /\ page' \in [Page -> Views]
      /\ \A q \in Page : /\ page'[q].raw = page[q].raw /\ page'[q].rx = page[q].rx
                         /\ page'[q].text = page[q].text \/ page'[q].text = D!Absent
  <2>1. CASE page' = page
    BY <1>0, <2>1 DEF ReadTypes
  <2>2. CASE page' = [page EXCEPT ![p].up = TRUE]
    BY <1>0, <2>2, PageFields
  <2>5. CASE page' = [page EXCEPT ![p].up = FALSE]
    BY <1>0, <2>5, PageFields
  <2>3. CASE page' = [page EXCEPT ![p].open = TRUE]
    BY <1>0, <2>3, PageFields
  <2>4. CASE page' = [page EXCEPT ![p].open = FALSE, ![p].text = D!Absent]
    BY <1>0, <2>4, PageFields
  <2> QED BY <1>4, <2>1, <2>2, <2>3, <2>4, <2>5
<1>6. jobs' = jobs \/ \E all \in BOOLEAN : jobs' = jobs \cup {[op |-> "list", p |-> p, all |-> all]}
  BY DEF D!Select, D!Close, D!Sleep, D!Resume, D!GuardEnds, D!PendingEnds
<1>7. jobs' \in SUBSET ReadJobs /\ jobs \subseteq jobs' /\ \A x \in jobs' : x \in jobs \/ x.op = "list"
  <2>1. CASE jobs' = jobs
    BY <1>0, <2>1 DEF ReadTypes
  <2>2. CASE \E all \in BOOLEAN : jobs' = jobs \cup {[op |-> "list", p |-> p, all |-> all]}
    <3>1. PICK all \in BOOLEAN : jobs' = jobs \cup {[op |-> "list", p |-> p, all |-> all]}
      BY <2>2
    <3>2. PICK y : y = [op |-> "list", p |-> p, all |-> all]
      OBVIOUS
    <3>3. y \in ReadJobs /\ y.op = "list"
      BY <3>2 DEF ReadJobs
    <3> QED BY <1>0, <3>1, <3>2, <3>3 DEF ReadTypes
  <2> QED BY <1>6, <2>1, <2>2
<1>8. ReadTypes'
  BY <1>0, <1>1, <1>2, <1>3, <1>5, <1>7 DEF ReadTypes
<1>9. (Telling => Telling') /\ (Bringing => Bringing')
  BY <1>7 DEF Telling, Bringing
<1>10. \A x \in jobs' : x.op \in Tries \cup {"listed", "edited", "answer", "reacted", "asks", "kick"} => x \in jobs
  BY <1>7 DEF Tries
<1> QED BY <1>1, <1>3, <1>5, <1>7, <1>8, <1>9, <1>10, QuietStep

LEMMA ListReadKeeps ==
  ASSUME ReadInv, NEW t \in jobs, D!ListRead(t) PROVE ReadInv'
<1>0. ReadTypes /\ t \in ReadJobs /\ t.p \in Page
  BY JobHas DEF ReadInv, ReadTypes
<1>1. /\ t.op = "list" /\ row' = row /\ rx' = rx /\ sent' = sent /\ cache' = cache /\ store' = store /\ why' = why /\ stuck' = stuck
      /\ no' = no /\ other' = other /\ key' = key /\ asked' = asked /\ guard' = guard /\ page' = page
  BY DEF D!ListRead, D!Rows, D!Keys, D!Texts
<1>2. budget' \in Budgets /\ budget'.kind = budget.kind
  <2>1. D!Spend("fails") \/ budget' = budget
    BY DEF D!ListRead
  <2> QED BY <1>0, <2>1, SpendFacts DEF ReadTypes
<1>3. PICK y : y = [op |-> "listed", p |-> t.p, all |-> t.all, ver |-> row, rx |-> rx]
  OBVIOUS
<1>4. y \in ReadJobs /\ y.op = "listed" /\ y.ver = row /\ y.rx = rx
  BY <1>0, <1>1, <1>3, JobHas, NewJobs DEF ReadTypes
<1>5. jobs' = (jobs \ {t}) \cup {y} \/ jobs' = jobs \ {t}
  BY <1>3 DEF D!ListRead, D!Then
<1>6. /\ jobs' \in SUBSET ReadJobs /\ \A x \in jobs : x.op # "list" => x \in jobs'
      /\ \A x \in jobs' : x \in jobs \/ (x.op = "listed" /\ x.ver = row /\ x.rx = rx)
  BY <1>0, <1>1, <1>4, <1>5 DEF ReadTypes
<1>7. ReadTypes'
  BY <1>0, <1>1, <1>2, <1>6 DEF ReadTypes
<1>8. (Telling => Telling') /\ (Bringing => Bringing')
  BY <1>6 DEF Telling, Bringing
<1>9. \A x \in jobs : x.op \in Tries \cup {"edited"} => x \in jobs'
  BY <1>6 DEF Tries
<1> QED BY <1>1, <1>2, <1>6, <1>7, <1>8, <1>9, QuietStep

\* A list that comes when the chat was closed.
LEMMA DroppedKeeps ==
  ASSUME ReadInv, NEW t \in jobs, t.op = "listed", jobs' = jobs \ {t},
         row' = row, rx' = rx, sent' = sent, cache' = cache, store' = store, why' = why, stuck' = stuck,
         no' = no, other' = other, key' = key, asked' = asked, guard' = guard, page' = page, budget' = budget
  PROVE  ReadInv'
<1>0. ReadTypes
  BY DEF ReadInv
<1>1. ReadTypes'
  BY <1>0 DEF ReadTypes
<1>2. (Telling => Telling') /\ (Bringing => Bringing')
  BY DEF Telling, Bringing
<1>3. \A x \in jobs : x.op \in Tries \cup {"edited"} => x \in jobs'
  BY DEF Tries
<1> QED BY <1>1, <1>2, <1>3, QuietStep

LEMMA ListedKeeps ==
  ASSUME ReadInv, NEW t \in jobs, D!Listed(t) PROVE ReadInv'
<1>1. /\ t.op = "listed" /\ row' = row /\ rx' = rx /\ sent' = sent /\ cache' = cache /\ store' = store
      /\ no' = no /\ key' = key /\ asked' = asked /\ budget' = budget
  BY DEF D!Listed, D!Rows
<1>2. \/ D!Shows(t, t.p, D!NewRow(t.p, t))
      \/ /\ jobs' = jobs \ {t} /\ page' = page /\ guard' = guard /\ stuck' = stuck /\ why' = why /\ other' = other
  BY DEF D!Listed, D!Then
<1> QED BY <1>1, <1>2, ShowsKeeps, DroppedKeeps

\* Reactions on a page that shows the message already.
LEMMA RefreshedKeeps ==
  ASSUME ReadInv, NEW t \in jobs, D!Refreshed(t) PROVE ReadInv'
<1>0. ReadTypes /\ Kinds /\ t \in ReadJobs /\ t.p \in Page /\ \A q \in Page : PageInv(q)
  BY JobHas DEF ReadInv, ReadTypes
<1>1. /\ t.op = "listed" /\ row' = row /\ rx' = rx /\ sent' = sent /\ cache' = cache /\ store' = store
      /\ no' = no /\ key' = key /\ asked' = asked /\ budget' = budget
  BY DEF D!Refreshed, D!Rows
<1>2. \/ D!Shows(t, t.p, D!NewRow(t.p, t))
      \/ /\ jobs' = jobs \ {t} /\ page' = page /\ guard' = guard /\ stuck' = stuck /\ why' = why /\ other' = other
      \/ /\ jobs' = jobs \ {t} /\ guard' = guard /\ stuck' = stuck /\ why' = why
         /\ page' = (IF t.rx # {} THEN [page EXCEPT ![t.p].rx = t.rx] ELSE page)
         /\ other' = D!Agreed(t, page'[t.p].rx)
  BY DEF D!Refreshed, D!Then
<1>3. CASE /\ jobs' = jobs \ {t} /\ guard' = guard /\ stuck' = stuck /\ why' = why
           /\ page' = (IF t.rx # {} THEN [page EXCEPT ![t.p].rx = t.rx] ELSE page)
           /\ other' = D!Agreed(t, page'[t.p].rx)
  <2>1. /\ page' \in [Page -> Views] /\ \A q \in Page : q # t.p => page'[q] = page[q]
        /\ page'[t.p].raw = page[t.p].raw /\ page'[t.p].text = page[t.p].text
        /\ page'[t.p].rx = t.rx \/ page'[t.p].rx = page[t.p].rx
    <3>1. page \in [Page -> Views] /\ t.rx \in SUBSET Reactors
      BY <1>0, <1>1, JobHas DEF ReadTypes
    <3>2. PICK w : w = [page[t.p] EXCEPT !.rx = t.rx]
      OBVIOUS
    <3>3. w \in Views /\ w.raw = page[t.p].raw /\ w.text = page[t.p].text /\ w.rx = t.rx
      BY <1>0, <3>1, <3>2 DEF Views
    <3>4. page' = [page EXCEPT ![t.p] = w] \/ page' = page
      BY <1>3, <3>2
    <3> QED BY <1>0, <3>1, <3>3, <3>4
  <2>2. /\ other' = other \ {t.p} \/ other' = other
        /\ \/ other' = other
           \/ page'[t.p].rx = rx /\ \A x \in jobs : x.p = t.p /\ x.op \in {"listed", "reacted"} /\ x # t => x.rx = rx
    BY <1>3 DEF D!Agreed, D!At
  <2>3. jobs' \in SUBSET ReadJobs /\ other' \in SUBSET Page
    BY <1>0, <1>3, <2>2 DEF ReadTypes
  <2>4. ReadTypes'
    BY <1>0, <1>1, <1>3, <2>1, <2>3 DEF ReadTypes
  <2>5. Kinds'
    BY <1>0, <1>1, <1>3 DEF Kinds
  <2>6. \A x \in jobs : x.op \in Tries \cup {"tell", "snap", "show", "edited"} => x \in jobs'
    BY <1>1, <1>3 DEF Tries
  <2>7. ASSUME NEW q \in Page, q # t.p PROVE PageInv(q)'
    <3>1. \A x : x.p = q => (x \in jobs' <=> x \in jobs)
      BY <1>3, <2>7
    <3>2. q \in other => q \in other'
      BY <2>2, <2>7
    <3> QED BY <1>0, <1>1, <1>3, <2>1, <2>6, <2>7, <3>1, <3>2, Untouched
  <2>8. EditPage(t.p)'
    <3>1. Telling => Telling'
      BY <2>6 DEF Telling
    <3>2. Coming(t.p) => Coming(t.p)'
      BY <1>1, <2>6 DEF Coming
    <3>3. EditGood(t.p) => EditGood(t.p)'
      BY <1>1, <1>3, <2>1, <3>2 DEF EditGood
    <3> QED BY <1>0, <1>3, <3>1, <3>3 DEF PageInv, EditPage
  <2>9. LockPage(t.p)'
    BY <1>0, <1>1, <1>3, <2>1, <2>6 DEF PageInv, LockPage
  <2>10. ReactPage(t.p)'
    <3> SUFFICES ASSUME t.p \notin other', ~Bringing PROVE ReactGood(t.p)'
      BY <2>6 DEF ReactPage, Bringing
    <3>1. CASE other' = other
      <4>1. ReactGood(t.p)
        BY <1>0, <3>1 DEF PageInv, ReactPage
      <4> QED BY <1>1, <1>3, <2>1, <4>1 DEF ReactGood
    <3>2. CASE other' # other
      BY <1>1, <1>3, <2>1, <2>2, <3>2 DEF ReactGood
    <3> QED BY <3>1, <3>2
  <2> QED BY <2>4, <2>5, <2>7, <2>8, <2>9, <2>10 DEF ReadInv, PageInv
<1> QED BY <1>1, <1>2, <1>3, ShowsKeeps, DroppedKeeps

\* A page that is loaded again begins anew.
LEMMA ReloadPageKeeps ==
  ASSUME ReadInv, NEW p \in Page, D!Reload(p) PROVE ReadInv'
<1>0. ReadTypes /\ Kinds /\ \A q \in Page : PageInv(q)
  BY DEF ReadInv
<1>1. /\ row' = row /\ rx' = rx /\ sent' = sent /\ store' = store /\ key' = key
      /\ jobs' = {t \in jobs : t.p # p \/ t.op \in D!AtServer}
      /\ page' = [page EXCEPT ![p] = [up |-> TRUE, open |-> FALSE, text |-> D!Absent, raw |-> 0, rx |-> {}]]
      /\ cache' = [cache EXCEPT ![p] = D!Absent] /\ no' = no \ {p} /\ asked' = asked \ {p} /\ guard' = guard \ {p}
      /\ why' = [why EXCEPT ![p] = {}] /\ stuck' = [stuck EXCEPT ![p] = {}] /\ other' = other \ {p}
  BY DEF D!Reload, D!Rows
<1>2. budget' \in Budgets /\ budget'.kind = budget.kind
  BY <1>0, SpendFacts DEF D!Reload
<1>3. /\ page' \in [Page -> Views] /\ \A q \in Page : q # p => page'[q] = page[q]
      /\ page'[p].text = D!Absent
  BY <1>0, <1>1 DEF ReadTypes, Views, D!Absent
<1>4. ReadTypes'
  BY <1>0, <1>1, <1>2, <1>3 DEF ReadTypes
<1>5. Kinds'
  BY <1>0, <1>1, <1>2 DEF Kinds
<1>6. \A x \in jobs : x.op \in {"tell", "snap", "show"} => x \in jobs'
  BY <1>1 DEF D!AtServer
<1>7. ASSUME NEW q \in Page, q # p PROVE PageInv(q)'
  <2>1. \A x : x.p = q => (x \in jobs' <=> x \in jobs)
    BY <1>1, <1>7
  <2>2. /\ page'[q] = page[q] /\ cache'[q] = cache[q] /\ why'[q] = why[q] /\ stuck'[q] = stuck[q]
        /\ (q \in no' <=> q \in no) /\ (q \in other => q \in other') /\ (key'[q] = "none" <=> key[q] = "none")
    BY <1>0, <1>1, <1>3, <1>7 DEF ReadTypes
  <2> QED BY <1>0, <1>1, <1>6, <2>1, <2>2, Untouched
<1>8. PageInv(p)'
  <2>1. cache'[p] = D!Absent
    BY <1>0, <1>1 DEF ReadTypes
  <2>2. \A x \in jobs' : x.p = p => x.op \in D!AtServer
    BY <1>1
  <2>3. EditPage(p)'
    BY <1>3, <2>1, <2>2 DEF EditPage, EditGood, D!AtServer, D!Absent, Tries
  <2>4. LockPage(p)'
    BY <1>1, <1>3 DEF LockPage, D!Absent, D!Gone, D!Locked
  <2>5. ReactPage(p)'
    BY <1>3, <2>2 DEF ReactPage, ReactGood, D!AtServer
  <2> QED BY <2>3, <2>4, <2>5 DEF PageInv
<1> QED BY <1>4, <1>5, <1>7, <1>8 DEF ReadInv

\* The key comes; after a rotation the page opens the message again.
LEMMA KeyComesKeeps ==
  ASSUME ReadInv, NEW p \in Page, NEW r \in BOOLEAN, D!KeyComes(p, r) PROVE ReadInv'
<1>0. ReadTypes /\ Kinds /\ \A q \in Page : PageInv(q)
  BY DEF ReadInv
<1>1. /\ row' = row /\ rx' = rx /\ sent' = sent /\ page' = page /\ cache' = cache /\ store' = store /\ no' = no /\ why' = why
      /\ stuck' = stuck /\ asked' = asked /\ other' = other /\ key[p] = "none"
  BY DEF D!KeyComes, D!Rows, D!Texts
<1>2. /\ key' \in [Page -> {"none", "kv", "local"}] /\ \A q \in Page : q # p => key'[q] = key[q]
      /\ \A q \in Page : key[q] # "none" => key'[q] # "none"
  BY <1>0, <1>1 DEF D!KeyComes, ReadTypes
<1>3. guard' \in SUBSET Page
  BY <1>0 DEF D!KeyComes, ReadTypes
<1>4. budget' \in Budgets /\ budget'.kind = budget.kind
  BY <1>0, SpendFacts DEF D!KeyComes
<1>5. PICK y : y = [op |-> "open", p |-> p, ver |-> page[p].raw, att |-> 0]
  OBVIOUS
<1>6. y \in ReadJobs /\ y.op = "open" /\ y.p = p /\ y.ver = page[p].raw /\ y.op \in Tries
  <2>1. page[p].raw \in Nat
    BY <1>0 DEF ReadTypes, Views
  <2>2. "open" \in Tries
    BY DEF Tries
  <2> QED BY <1>5, <2>1, <2>2, NewJobs
<1>7. jobs' = jobs \/ (jobs' = jobs \cup {y} /\ page[p].text = D!Locked)
  BY <1>5 DEF D!KeyComes, D!StillLocked
<1>8. /\ jobs' \in SUBSET ReadJobs /\ jobs \subseteq jobs'
      /\ \A x \in jobs' : x \in jobs \/ (x = y /\ page[p].text = D!Locked)
  BY <1>0, <1>6, <1>7 DEF ReadTypes
<1>9. ReadTypes'
  BY <1>0, <1>1, <1>2, <1>3, <1>4, <1>8 DEF ReadTypes
<1>10. Kinds'
  BY <1>0, <1>1, <1>4, <1>6, <1>8 DEF Kinds
<1>11. (Telling => Telling') /\ (Bringing => Bringing')
  BY <1>8 DEF Telling, Bringing
<1>12. ASSUME NEW q \in Page PROVE PageInv(q)'
  <2>0. PageInv(q)
    BY <1>0
  <2>1. EditGood(q) => EditGood(q)'
    <3> SUFFICES ASSUME EditGood(q) PROVE EditGood(q)'
      OBVIOUS
    <3>1. Coming(q) => Coming(q)'
      BY <1>1, <1>2, <1>8 DEF Coming
    <3>2. q = p /\ page[p].text = D!Locked => page[p].raw = row
      BY <1>1 DEF EditGood, Coming, D!Locked, D!Absent
    <3>3. \A x \in jobs' : x.p = q /\ x.op \in Tries \cup {"listed", "edited", "answer"} => x.ver = row'
      BY <1>1, <1>6, <1>8, <3>2 DEF EditGood
    <3> QED BY <1>1, <3>1, <3>3 DEF EditGood
  <2>2. LockPage(q)'
    BY <1>1, <1>8, <2>0 DEF PageInv, LockPage
  <2>3. ReactGood(q) => ReactGood(q)'
    BY <1>1, <1>6, <1>8 DEF ReactGood
  <2> QED BY <1>1, <1>11, <2>0, <2>1, <2>2, <2>3 DEF PageInv, EditPage, ReactPage
<1> QED BY <1>9, <1>10, <1>12 DEF ReadInv

\* An edit goes on as another job with the same text.
LEMMA NextEdit ==
  ASSUME NEW t \in ReadJobs, t.op \in {"write", "tell"}, NEW o \in {"tell", "answer"}
  PROVE  \E y \in ReadJobs : y = [t EXCEPT !.op = o] /\ y.op = o /\ y.p = t.p /\ y.ver = t.ver
<1>1. t \in [op : {"write", "tell", "answer", "edited"}, p : Page, ver : Nat]
  BY DEF ReadJobs, Tries
<1>2. PICK y : y = [t EXCEPT !.op = o]
  OBVIOUS
<1>3. y \in [op : {"write", "tell", "answer", "edited"}, p : Page, ver : Nat] /\ y.op = o /\ y.p = t.p /\ y.ver = t.ver
  BY <1>1, <1>2
<1> QED BY <1>2, <1>3 DEF ReadJobs

LEMMA PostKeeps ==
  ASSUME ReadInv, NEW p \in Page, D!EditDm(p) \/ D!EditGroup(p) \/ D!React(p) PROVE ReadInv'
<1>0. ReadTypes
  BY DEF ReadInv
<1>1. /\ row' = row /\ rx' = rx /\ page' = page /\ cache' = cache /\ store' = store /\ no' = no /\ why' = why
      /\ stuck' = stuck /\ key' = key /\ asked' = asked /\ guard' = guard /\ other' = other
  BY DEF D!EditDm, D!EditGroup, D!React, D!Rows, D!Texts, D!Keys
<1>2. budget' \in Budgets /\ budget'.kind = budget.kind
  BY <1>0, SpendFacts DEF D!EditDm, D!EditGroup, D!React
<1>3. /\ sent' \in Nat
      /\ \E y \in ReadJobs : jobs' = jobs \cup {y} /\ y.op \in {"write", "toggle"}
  <2>1. CASE D!EditDm(p) \/ D!EditGroup(p)
    <3>1. sent' = sent + 1 /\ jobs' = jobs \cup {[op |-> "write", p |-> p, ver |-> sent + 1]}
      BY <2>1 DEF D!EditDm, D!EditGroup, D!Post
    <3>2. PICK v \in Nat : v = sent + 1
      BY <1>0 DEF ReadTypes
    <3>3. PICK y : y = [op |-> "write", p |-> p, ver |-> v]
      OBVIOUS
    <3>4. y \in ReadJobs /\ y.op = "write"
      BY <3>3 DEF ReadJobs
    <3> QED BY <3>1, <3>2, <3>3, <3>4
  <2>2. CASE D!React(p)
    <3>1. sent' = sent /\ jobs' = jobs \cup {[op |-> "toggle", p |-> p, n |-> budget.reacts]}
      BY <2>2 DEF D!React, D!Rows
    <3>2. budget.reacts \in Nat /\ sent \in Nat
      BY <1>0 DEF ReadTypes, Budgets
    <3>3. PICK y : y = [op |-> "toggle", p |-> p, n |-> budget.reacts]
      OBVIOUS
    <3>4. y \in ReadJobs /\ y.op = "toggle"
      BY <3>2, <3>3 DEF ReadJobs
    <3> QED BY <3>1, <3>2, <3>3, <3>4
  <2> QED BY <2>1, <2>2
<1>4. jobs' \in SUBSET ReadJobs /\ jobs \subseteq jobs' /\ \A x \in jobs' : x \in jobs \/ x.op \in {"write", "toggle"}
  BY <1>0, <1>3 DEF ReadTypes
<1>5. ReadTypes'
  BY <1>0, <1>1, <1>2, <1>3, <1>4 DEF ReadTypes
<1>6. (Telling => Telling') /\ (Bringing => Bringing')
  BY <1>4 DEF Telling, Bringing
<1>7. \A x \in jobs' : x.op \in Tries \cup {"listed", "edited", "answer", "reacted", "asks", "kick"} => x \in jobs
  BY <1>4 DEF Tries
<1> QED BY <1>1, <1>2, <1>4, <1>5, <1>6, <1>7, QuietStep

\* The row: all pages are still to be told.
LEMMA WriteKeeps ==
  ASSUME ReadInv, NEW t \in jobs, D!Write(t) PROVE ReadInv'
<1>0. ReadTypes /\ Kinds /\ t \in ReadJobs /\ t.p \in Page /\ \A q \in Page : PageInv(q)
  BY JobHas DEF ReadInv, ReadTypes
<1>1. /\ t.op = "write" /\ rx' = rx /\ sent' = sent /\ page' = page /\ cache' = cache /\ store' = store /\ no' = no /\ why' = why
      /\ stuck' = stuck /\ key' = key /\ asked' = asked /\ guard' = guard /\ other' = other
  BY DEF D!Write, D!Texts, D!Keys
<1>2. budget' \in Budgets /\ budget'.kind = budget.kind
  <2>1. D!Spend("fails") \/ budget' = budget
    BY DEF D!Write
  <2> QED BY <1>0, <2>1, SpendFacts DEF ReadTypes
<1>3. t.ver \in Nat
  BY <1>0, <1>1, JobHas
<1>4. PICK y \in ReadJobs : y = [t EXCEPT !.op = "tell"] /\ y.op = "tell" /\ y.p = t.p /\ y.ver = t.ver
  BY <1>0, <1>1, NextEdit
<1>5. \/ row' = t.ver /\ jobs' = (jobs \ {t}) \cup {y}
      \/ row' = row /\ jobs' = jobs \ {t}
  BY <1>4 DEF D!Write, D!Then
<1>6. /\ jobs' \in SUBSET ReadJobs /\ row' \in Nat
      /\ \A x \in jobs : x.op # "write" => x \in jobs'
      /\ \A x \in jobs' : x \in jobs \/ x.op = "tell"
  BY <1>0, <1>1, <1>3, <1>4, <1>5 DEF ReadTypes
<1>7. ReadTypes'
  BY <1>0, <1>1, <1>2, <1>6 DEF ReadTypes
<1>8. CASE row' = row
  <2>1. (Telling => Telling') /\ (Bringing => Bringing')
    BY <1>6 DEF Telling, Bringing
  <2>2. /\ \A x \in jobs : x.op \in Tries \cup {"edited"} => x \in jobs'
        /\ \A x \in jobs' : x.op \in Tries \cup {"listed", "edited", "answer", "reacted", "asks", "kick"} => x \in jobs
    BY <1>6 DEF Tries
  <2> QED BY <1>1, <1>2, <1>7, <1>8, <2>1, <2>2, QuietStep
<1>9. CASE row' # row
  <2>1. y \in jobs'
    BY <1>5, <1>9
  <2>2. Telling' /\ (Bringing => Bringing')
    BY <1>4, <1>6, <2>1 DEF Telling, Bringing
  <2>3. ASSUME NEW q \in Page PROVE PageInv(q)'
    <3>1. EditPage(q)'
      BY <2>2 DEF EditPage
    <3>2. LockPage(q)'
      BY <1>0, <1>1, <1>6 DEF PageInv, LockPage, Tries
    <3>3. ReactPage(q)'
      BY <1>0, <1>1, <1>6, <2>2 DEF PageInv, ReactPage, ReactGood
    <3> QED BY <3>1, <3>2, <3>3 DEF PageInv
  <2>4. Kinds'
    BY <1>0, <1>1, <1>2, <1>6 DEF Kinds
  <2> QED BY <1>7, <2>3, <2>4 DEF ReadInv
<1> QED BY <1>8, <1>9

\* Each page is told, or has an excuse.
LEMMA TellKeeps ==
  ASSUME ReadInv, NEW t \in jobs, D!Tell(t) PROVE ReadInv'
<1>0. ReadTypes /\ Kinds /\ t \in ReadJobs /\ t.p \in Page /\ \A q \in Page : PageInv(q)
  BY JobHas DEF ReadInv, ReadTypes
<1>1. /\ t.op = "tell" /\ row' = row /\ rx' = rx /\ sent' = sent /\ page' = page /\ store' = store /\ no' = no
      /\ stuck' = stuck /\ key' = key /\ asked' = asked /\ guard' = guard /\ other' = other /\ budget' = budget
      /\ cache' = [p \in Page |-> IF page[p].up THEN D!Absent ELSE cache[p]]
      /\ why' = [p \in Page |-> D!Excuse(p, t.ver)]
  BY DEF D!Tell, D!Rows, D!Keys, D!Hears
<1>2. t.ver \in Nat
  BY <1>0, <1>1, JobHas
<1>3. PICK y \in ReadJobs : y = [t EXCEPT !.op = "answer"] /\ y.op = "answer" /\ y.p = t.p /\ y.ver = t.ver
  BY <1>0, <1>1, NextEdit
<1>4. PICK news : news = {[op |-> "edited", p |-> p, ver |-> t.ver] : p \in {q \in Page : D!Hears(q) /\ D!Shown(q)}}
  OBVIOUS
<1>5. jobs' = (jobs \ {t}) \cup (news \cup {y})
  BY <1>3, <1>4 DEF D!Tell, D!Then
<1>6. /\ \A x \in news : x \in ReadJobs /\ x.op = "edited" /\ x.ver = t.ver
      /\ \A q \in Page : page[q].up /\ page[q].text # D!Absent => \E x \in news : x.op = "edited" /\ x.p = q /\ x.ver = t.ver
  <2>1. \A q \in Page : [op |-> "edited", p |-> q, ver |-> t.ver] \in ReadJobs
    BY <1>2 DEF ReadJobs
  <2>2. ASSUME NEW x \in news PROVE x \in ReadJobs /\ x.op = "edited" /\ x.ver = t.ver
    <3>1. PICK q \in Page : x = [op |-> "edited", p |-> q, ver |-> t.ver]
      BY <1>4
    <3> QED BY <2>1, <3>1
  <2>3. ASSUME NEW q \in Page, page[q].up, page[q].text # D!Absent
        PROVE  \E x \in news : x.op = "edited" /\ x.p = q /\ x.ver = t.ver
    <3>1. PICK x : x = [op |-> "edited", p |-> q, ver |-> t.ver]
      OBVIOUS
    <3>2. x \in news
      BY <1>4, <2>3, <3>1 DEF D!Hears, D!Shown
    <3>3. x.op = "edited" /\ x.p = q /\ x.ver = t.ver
      BY <3>1
    <3> QED BY <3>2, <3>3
  <2> QED BY <2>2, <2>3
<1>7. /\ jobs' \in SUBSET ReadJobs
      /\ \A x \in jobs : x.op # "tell" => x \in jobs'
      /\ \A x \in jobs' : x \in jobs \/ (x.op \in {"edited", "answer"} /\ x.ver = t.ver)
      /\ news \subseteq jobs'
  BY <1>0, <1>1, <1>3, <1>5, <1>6 DEF ReadTypes
<1>8. ASSUME NEW q \in Page
      PROVE  /\ D!Excuse(q, t.ver) \in SUBSET Causes
             /\ D!Excuse(q, t.ver) = {} =>
                  /\ page[q].up /\ key[q] # "none" /\ t.ver = row
                  /\ \A x \in jobs : x.p = q /\ x.op \in Tries \cup {"listed", "edited", "answer"} => x.ver = row
  <2>1. D!Excuse(q, t.ver) \in SUBSET Causes
    BY DEF D!Excuse, Causes
  <2>2. ASSUME D!Excuse(q, t.ver) = {}
        PROVE  /\ page[q].up /\ key[q] # "none" /\ t.ver = row
               /\ ~\E x \in D!At(q, {"listed"}) : x.ver # row
               /\ ~\E x \in D!At(q, {"open", "opened", "await", "timer"}) : x.ver # row
               /\ ~\E x \in D!At(q, {"edited", "answer"}) : x.ver # t.ver
    BY <2>2 DEF D!Excuse
  <2> QED BY <2>1, <2>2 DEF D!At, Tries
<1>9. cache' \in [Page -> {D!Absent} \cup Nat] /\ why' \in [Page -> SUBSET Causes]
  BY <1>0, <1>1, <1>8 DEF ReadTypes
<1>10. ReadTypes'
  BY <1>0, <1>1, <1>7, <1>9 DEF ReadTypes
<1>11. Kinds'
  BY <1>0, <1>1, <1>7 DEF Kinds
<1>12. ASSUME NEW q \in Page PROVE PageInv(q)'
  <2>1. EditPage(q)'
    <3> SUFFICES ASSUME why'[q] = {} PROVE EditGood(q)'
      BY DEF EditPage
    <3>1. /\ page[q].up /\ key[q] # "none" /\ t.ver = row
          /\ \A x \in jobs : x.p = q /\ x.op \in Tries \cup {"listed", "edited", "answer"} => x.ver = row
      BY <1>1, <1>8
    <3>2. cache'[q] = D!Absent
      BY <1>1, <3>1
    <3>3. page'[q].text # D!Absent => Coming(q)'
      BY <1>1, <1>6, <1>7, <3>1 DEF Coming
    <3>4. page'[q].text >= 0 => page'[q].text # D!Absent
      BY <1>0, <1>1 DEF ReadTypes, Views, D!Absent
    <3>5. \A x \in jobs' : x.p = q /\ x.op \in Tries \cup {"listed", "edited", "answer"} => x.ver = row'
      BY <1>1, <1>7, <3>1
    <3> QED BY <3>2, <3>3, <3>4, <3>5 DEF EditGood
  <2>2. LockPage(q)'
    BY <1>0, <1>1, <1>7 DEF PageInv, LockPage, Tries
  <2>3. ReactPage(q)'
    <3>1. Bringing => Bringing'
      BY <1>7 DEF Bringing
    <3>2. ReactGood(q) => ReactGood(q)'
      BY <1>1, <1>7 DEF ReactGood
    <3> QED BY <1>0, <1>1, <3>1, <3>2 DEF PageInv, ReactPage
  <2> QED BY <2>1, <2>2, <2>3 DEF PageInv
<1> QED BY <1>10, <1>11, <1>12 DEF ReadInv

\* The event brings the text.
LEMMA EditedKeeps ==
  ASSUME ReadInv, NEW t \in jobs, D!EditedDm(t) \/ D!EditedGroup(t) PROVE ReadInv'
<1>0. ReadTypes /\ Kinds /\ t \in ReadJobs /\ t.p \in Page /\ \A q \in Page : PageInv(q)
  BY JobHas DEF ReadInv, ReadTypes
<1>1. /\ t.op = "edited" /\ row' = row /\ rx' = rx /\ sent' = sent /\ cache' = cache /\ store' = store /\ no' = no
      /\ why' = why /\ stuck' = stuck /\ asked' = asked /\ guard' = guard /\ other' = other /\ budget' = budget
      /\ key' = D!Fetched(t.p) /\ jobs' = jobs \ {t}
      /\ page' = IF key[t.p] # "none" THEN D!NewText(t) ELSE page
  BY DEF D!EditedDm, D!EditedGroup, D!Then, D!Rows
<1>2. t.ver \in Nat /\ t.ver \in Int
  BY <1>0, <1>1, JobHas
<1>3. key' \in [Page -> {"none", "kv", "local"}] /\ \A q \in Page : key'[q] = "none" <=> key[q] = "none"
  BY <1>0, <1>1, FetchedFacts
<1>4. D!Absent \in Int /\ D!Absent < 0 /\ D!Gone < 0 /\ D!Locked < 0
  BY DEF D!Absent, D!Gone, D!Locked
<1>5. /\ page' \in [Page -> Views] /\ \A q \in Page : q # t.p => page'[q] = page[q]
      /\ page'[t.p].rx = page[t.p].rx
      /\ \/ page'[t.p] = page[t.p] /\ (page[t.p].text = D!Absent \/ key[t.p] = "none")
         \/ page'[t.p].text = t.ver /\ page'[t.p].raw = t.ver /\ page[t.p].text # D!Absent
  <2>1. page \in [Page -> Views] /\ page[t.p] \in Views
    BY <1>0 DEF ReadTypes
  <2>2. PICK w : w = [page[t.p] EXCEPT !.text = t.ver, !.raw = t.ver]
    OBVIOUS
  <2>3. w \in Views /\ w.text = t.ver /\ w.raw = t.ver /\ w.rx = page[t.p].rx
    BY <1>2, <2>1, <2>2 DEF Views
  <2>4. [page EXCEPT ![t.p].text = t.ver, ![t.p].raw = t.ver] = [page EXCEPT ![t.p] = w]
    BY <1>0, <2>1, <2>2 DEF Views
  <2>5. \/ page' = page /\ (page[t.p].text = D!Absent \/ key[t.p] = "none")
        \/ page' = [page EXCEPT ![t.p] = w] /\ page[t.p].text # D!Absent
    BY <1>1, <2>4 DEF D!NewText, D!Shown
  <2> QED BY <1>0, <2>1, <2>3, <2>5
<1>6. ReadTypes'
  BY <1>0, <1>1, <1>3, <1>5 DEF ReadTypes
<1>7. Kinds'
  BY <1>0, <1>1 DEF Kinds
<1>8. \A x \in jobs : x.op \in Tries \cup {"tell", "snap", "show"} => x \in jobs'
  BY <1>1 DEF Tries
<1>9. ASSUME NEW q \in Page, q # t.p PROVE PageInv(q)'
  <2>1. \A x : x.p = q => (x \in jobs' <=> x \in jobs)
    BY <1>1, <1>9
  <2> QED BY <1>0, <1>1, <1>3, <1>5, <1>8, <1>9, <2>1, Untouched
<1>10. EditPage(t.p)'
  <2> SUFFICES ASSUME why'[t.p] = {}, ~Telling PROVE EditGood(t.p)'
    BY <1>8 DEF EditPage, Telling
  <2>1. EditGood(t.p)
    BY <1>0, <1>1 DEF PageInv, EditPage
  <2>2. t.ver = row /\ \A x \in jobs' : x.p = t.p /\ x.op \in Tries \cup {"listed", "edited", "answer"} => x.ver = row'
    BY <1>1, <2>1 DEF EditGood
  <2>3. CASE page'[t.p].text = t.ver /\ page'[t.p].raw = t.ver
    BY <1>1, <2>1, <2>2, <2>3 DEF EditGood
  <2>4. CASE page'[t.p] = page[t.p] /\ page[t.p].text = D!Absent
    <3>1. ~(page'[t.p].text >= 0) /\ page'[t.p].text = D!Absent
      BY <1>4, <2>4
    <3>2. cache'[t.p] \in {D!Absent, row'}
      BY <1>1, <2>1 DEF EditGood
    <3> QED BY <2>2, <3>1, <3>2 DEF EditGood
  <2>5. CASE page'[t.p] = page[t.p] /\ key[t.p] = "none"
    <3>1. ~Coming(t.p)
      BY <2>5 DEF Coming
    <3> QED BY <1>1, <2>1, <2>2, <2>5, <3>1 DEF EditGood
  <2> QED BY <1>5, <2>3, <2>4, <2>5
<1>11. LockPage(t.p)'
  <2>1. /\ page'[t.p].text = D!Gone => page[t.p].text = D!Gone
        /\ page'[t.p].text = D!Locked => page[t.p].text = D!Locked
    BY <1>2, <1>4, <1>5
  <2> QED BY <1>0, <1>1, <1>8, <2>1 DEF PageInv, LockPage
<1>12. ReactPage(t.p)'
  <2>1. Bringing => Bringing'
    BY <1>8 DEF Bringing
  <2>2. page'[t.p].text # D!Absent => page[t.p].text # D!Absent
    BY <1>5
  <2>3. ReactGood(t.p) => ReactGood(t.p)'
    BY <1>1, <1>5, <2>2 DEF ReactGood
  <2> QED BY <1>0, <1>1, <2>1, <2>3 DEF PageInv, ReactPage
<1> QED BY <1>6, <1>7, <1>9, <1>10, <1>11, <1>12 DEF ReadInv, PageInv

\* The answer brings the text to the page that edited.
LEMMA AnswerKeeps ==
  ASSUME ReadInv, NEW t \in jobs, D!Answer(t) PROVE ReadInv'
<1>0. ReadTypes /\ Kinds /\ t \in ReadJobs /\ t.p \in Page /\ \A q \in Page : PageInv(q)
  BY JobHas DEF ReadInv, ReadTypes
<1>1. /\ t.op = "answer" /\ row' = row /\ rx' = rx /\ sent' = sent /\ store' = store /\ no' = no
      /\ why' = why /\ stuck' = stuck /\ key' = key /\ asked' = asked /\ guard' = guard /\ other' = other
      /\ jobs' = jobs \ {t}
      /\ \/ cache' = [cache EXCEPT ![t.p] = D!Absent] /\ D!Patch(t.p, t.ver) /\ budget' = budget
         \/ cache' = cache /\ page' = page /\ D!Spend("fails")
  BY DEF D!Answer, D!Then, D!Rows, D!Keys
<1>2. t.ver \in Nat
  BY <1>0, <1>1, JobHas
<1>3. budget' \in Budgets /\ budget'.kind = budget.kind
  BY <1>0, <1>1, SpendFacts DEF ReadTypes
<1>4. D!Absent \in Int /\ D!Absent < 0 /\ D!Gone < 0 /\ D!Locked < 0
  BY DEF D!Absent, D!Gone, D!Locked
<1>5. /\ page' \in [Page -> Views] /\ \A q \in Page : q # t.p => page'[q] = page[q]
      /\ page'[t.p].rx = page[t.p].rx /\ page'[t.p].raw = page[t.p].raw
      /\ page'[t.p].text = D!Absent <=> page[t.p].text = D!Absent
      /\ page'[t.p].text = page[t.p].text \/ page'[t.p].text = t.ver
  <2>1. CASE page' = page
    BY <1>0, <2>1 DEF ReadTypes
  <2>2. CASE D!Patch(t.p, t.ver)
    BY <1>0, <1>2, <1>4, <2>2, Patched
  <2> QED BY <1>1, <2>1, <2>2
<1>6. /\ cache' \in [Page -> {D!Absent} \cup Nat] /\ \A q \in Page : q # t.p => cache'[q] = cache[q]
      /\ cache'[t.p] = cache[t.p] \/ cache'[t.p] = D!Absent
  BY <1>0, <1>1 DEF ReadTypes
<1>7. ReadTypes'
  BY <1>0, <1>1, <1>3, <1>5, <1>6 DEF ReadTypes
<1>8. Kinds'
  BY <1>0, <1>1, <1>3 DEF Kinds
<1>9. \A x \in jobs : x.op \in Tries \cup {"tell", "snap", "show", "edited"} => x \in jobs'
  BY <1>1 DEF Tries
<1>10. ASSUME NEW q \in Page, q # t.p PROVE PageInv(q)'
  <2>1. \A x : x.p = q => (x \in jobs' <=> x \in jobs)
    BY <1>1, <1>10
  <2> QED BY <1>0, <1>1, <1>5, <1>6, <1>9, <1>10, <2>1, Untouched
<1>11. EditPage(t.p)'
  <2> SUFFICES ASSUME why'[t.p] = {}, ~Telling PROVE EditGood(t.p)'
    BY <1>9 DEF EditPage, Telling
  <2>1. EditGood(t.p)
    BY <1>0, <1>1 DEF PageInv, EditPage
  <2>2. t.ver = row /\ \A x \in jobs' : x.p = t.p /\ x.op \in Tries \cup {"listed", "edited", "answer"} => x.ver = row'
    BY <1>1, <2>1 DEF EditGood
  <2>3. Coming(t.p) => Coming(t.p)'
    BY <1>1, <1>9 DEF Coming
  <2>4. cache'[t.p] \in {D!Absent, row'}
    BY <1>1, <1>6, <2>1 DEF EditGood
  <2>5. page'[t.p].text >= 0 => page'[t.p].text = row' \/ Coming(t.p)'
    BY <1>1, <1>5, <2>1, <2>2, <2>3 DEF EditGood
  <2>6. page'[t.p].text # D!Absent => page'[t.p].raw = row' \/ Coming(t.p)'
    BY <1>1, <1>5, <2>1, <2>3 DEF EditGood
  <2> QED BY <2>2, <2>4, <2>5, <2>6 DEF EditGood
<1>12. LockPage(t.p)'
  <2>1. /\ page'[t.p].text = D!Gone => page[t.p].text = D!Gone
        /\ page'[t.p].text = D!Locked => page[t.p].text = D!Locked
    BY <1>2, <1>4, <1>5
  <2> QED BY <1>0, <1>1, <1>9, <2>1 DEF PageInv, LockPage
<1>13. ReactPage(t.p)'
  <2>1. Bringing => Bringing'
    BY <1>9 DEF Bringing
  <2>2. ReactGood(t.p) => ReactGood(t.p)'
    BY <1>1, <1>5 DEF ReactGood
  <2> QED BY <1>0, <1>1, <2>1, <2>2 DEF PageInv, ReactPage
<1> QED BY <1>7, <1>8, <1>10, <1>11, <1>12, <1>13 DEF ReadInv, PageInv

\* Requests about reactions: what is stored is also sent.
LEMMA ToggleKeeps ==
  ASSUME ReadInv, NEW t \in jobs, D!Toggle(t) \/ D!Snap(t) PROVE ReadInv'
<1>0. ReadTypes /\ t \in ReadJobs /\ t.p \in Page
  BY JobHas DEF ReadInv, ReadTypes
<1>1. /\ t.op \in {"toggle", "snap"} /\ row' = row /\ rx' = rx /\ sent' = sent /\ page' = page /\ cache' = cache /\ store' = store
      /\ no' = no /\ why' = why /\ stuck' = stuck /\ key' = key /\ asked' = asked /\ guard' = guard /\ other' = other
      /\ budget' = budget
  BY DEF D!Toggle, D!Snap, D!Rows, D!Texts, D!Keys
<1>2. t.n \in Nat /\ rx \in SUBSET Reactors
  BY <1>0, <1>1, JobHas DEF ReadTypes
<1>3. \E y \in ReadJobs : jobs' = (jobs \ {t}) \cup {y} /\ ((y.op = "put" /\ t.op = "toggle") \/ y.op = "show")
  <2>1. CASE D!Toggle(t)
    <3>1. PICK b \in BOOLEAN : b = (D!User(t.p) \notin rx)
      OBVIOUS
    <3>2. PICK y : y = [op |-> "put", p |-> t.p, n |-> t.n, add |-> b]
      OBVIOUS
    <3>3. y \in ReadJobs /\ y.op = "put"
      BY <1>0, <1>2, <3>2 DEF ReadJobs
    <3>4. t.op = "toggle" /\ jobs' = (jobs \ {t}) \cup {y}
      BY <2>1, <3>1, <3>2 DEF D!Toggle, D!Then
    <3> QED BY <3>3, <3>4
  <2>2. CASE D!Snap(t)
    <3>1. PICK y : y = [op |-> "show", p |-> t.p, n |-> t.n, rx |-> rx]
      OBVIOUS
    <3>2. y \in ReadJobs /\ y.op = "show"
      BY <1>0, <1>2, <3>1 DEF ReadJobs
    <3> QED BY <2>2, <3>1, <3>2 DEF D!Snap, D!Then
  <2> QED BY <2>1, <2>2
<1>4. PICK y \in ReadJobs : jobs' = (jobs \ {t}) \cup {y} /\ ((y.op = "put" /\ t.op = "toggle") \/ y.op = "show")
  BY <1>3
<1>5. ReadTypes'
  BY <1>0, <1>1, <1>4 DEF ReadTypes
<1>6. Telling => Telling'
  BY <1>1, <1>4 DEF Telling
<1>7. Bringing => Bringing'
  <2>1. CASE y.op = "show"
    BY <1>4, <2>1 DEF Bringing
  <2>2. CASE t.op = "toggle"
    BY <1>4, <2>2 DEF Bringing
  <2> QED BY <1>4, <2>1, <2>2
<1>8. /\ \A x \in jobs : x.op \in Tries \cup {"edited"} => x \in jobs'
      /\ \A x \in jobs' : x.op \in Tries \cup {"listed", "edited", "answer", "reacted", "asks", "kick"} => x \in jobs
  BY <1>1, <1>4 DEF Tries
<1> QED BY <1>1, <1>5, <1>6, <1>7, <1>8, QuietStep

LEMMA PutKeepsReactions ==
  ASSUME ReadInv, NEW t \in jobs, D!Put(t) PROVE ReadInv'
<1>0. ReadTypes /\ Kinds /\ t \in ReadJobs /\ t.p \in Page /\ \A q \in Page : PageInv(q)
  BY JobHas DEF ReadInv, ReadTypes
<1>1. /\ t.op = "put" /\ row' = row /\ sent' = sent /\ page' = page /\ cache' = cache /\ store' = store
      /\ no' = no /\ why' = why /\ stuck' = stuck /\ key' = key /\ asked' = asked /\ guard' = guard /\ other' = other
      /\ budget' = budget /\ jobs' = (jobs \ {t}) \cup {[op |-> "snap", p |-> t.p, n |-> t.n]}
      /\ rx' = IF t.add THEN rx \cup {D!User(t.p)} ELSE rx \ {D!User(t.p)}
  BY DEF D!Put, D!Then, D!Texts, D!Keys
<1>2. PICK y : y = [op |-> "snap", p |-> t.p, n |-> t.n]
  OBVIOUS
<1>3. y \in ReadJobs /\ y.op = "snap"
  BY <1>0, <1>1, <1>2, JobHas DEF ReadJobs
<1>4. /\ jobs' \in SUBSET ReadJobs /\ y \in jobs' /\ \A x \in jobs' : x \in jobs \/ x = y
      /\ \A x \in jobs : x.op # "put" => x \in jobs'
  BY <1>0, <1>1, <1>2, <1>3 DEF ReadTypes
<1>5. rx' \in SUBSET Reactors
  BY <1>0, <1>1 DEF ReadTypes, D!User, Reactors
<1>6. ReadTypes'
  BY <1>0, <1>1, <1>4, <1>5 DEF ReadTypes
<1>7. Kinds'
  BY <1>0, <1>1, <1>3, <1>4 DEF Kinds
<1>8. ASSUME NEW q \in Page PROVE PageInv(q)'
  <2>1. Telling => Telling'
    BY <1>4 DEF Telling
  <2>2. Coming(q) => Coming(q)'
    BY <1>1, <1>4 DEF Coming
  <2>3. EditGood(q) => EditGood(q)'
    <3>1. SUFFICES ASSUME EditGood(q) PROVE EditGood(q)'
      OBVIOUS
    <3>2. \A x \in jobs' : x.p = q /\ x.op \in Tries \cup {"listed", "edited", "answer"} => x.ver = row'
      BY <1>1, <1>3, <1>4, <3>1 DEF EditGood, Tries
    <3> QED BY <1>1, <2>2, <3>1, <3>2 DEF EditGood
  <2>4. EditPage(q)'
    BY <1>0, <1>1, <2>1, <2>3 DEF PageInv, EditPage
  <2>5. LockPage(q)'
    BY <1>0, <1>1, <1>4 DEF PageInv, LockPage, Tries
  <2>6. ReactPage(q)'
    BY <1>3, <1>4 DEF ReactPage, Bringing
  <2> QED BY <2>4, <2>5, <2>6 DEF PageInv
<1> QED BY <1>6, <1>7, <1>8 DEF ReadInv

\* Every page hears of all reactions, or may show others.
LEMMA ShowKeepsReactions ==
  ASSUME ReadInv, NEW t \in jobs, D!Show(t) PROVE ReadInv'
<1>0. ReadTypes /\ Kinds /\ t \in ReadJobs /\ t.p \in Page /\ \A q \in Page : PageInv(q)
  BY JobHas DEF ReadInv, ReadTypes
<1>1. /\ t.op = "show" /\ row' = row /\ rx' = rx /\ sent' = sent /\ cache' = cache /\ store' = store
      /\ no' = no /\ why' = why /\ stuck' = stuck /\ key' = key /\ asked' = asked /\ guard' = guard
      /\ budget' = budget /\ jobs' = (jobs \ {t}) \cup {[t EXCEPT !.op = "reacted"]}
      /\ page' = [p \in Page |-> IF page[p].up /\ page[p].text # D!Absent THEN [page[p] EXCEPT !.rx = t.rx] ELSE page[p]]
      /\ \A p \in Page \ other' : t.rx = rx /\ page[p].up /\ \A x \in jobs : x.p = p /\ x.op \in {"listed", "reacted"} => x.rx = rx
      /\ other' \in SUBSET Page
  <2>1. other' = {p \in Page : t.rx # rx \/ ~D!Hears(p) \/ \E x \in D!At(p, {"listed", "reacted"}) : x.rx # rx}
    BY DEF D!Show
  <2>2. \A p \in Page \ other' : t.rx = rx /\ page[p].up /\ \A x \in jobs : x.p = p /\ x.op \in {"listed", "reacted"} => x.rx = rx
    BY <2>1 DEF D!At, D!Hears
  <2> QED BY <2>1, <2>2 DEF D!Show, D!Then, D!Rows, D!Keys, D!Hears, D!Shown
<1>2. t.rx \in SUBSET Reactors /\ t \in [op : {"show", "reacted"}, p : Page, n : Nat, rx : SUBSET Reactors]
  BY <1>0, <1>1, JobHas DEF ReadJobs, Tries
<1>3. PICK y : y = [t EXCEPT !.op = "reacted"]
  OBVIOUS
<1>4. y \in ReadJobs /\ y.op = "reacted" /\ y.p = t.p /\ y.rx = t.rx
  BY <1>2, <1>3 DEF ReadJobs
<1>5. /\ jobs' \in SUBSET ReadJobs /\ \A x \in jobs' : x \in jobs \/ x = y
      /\ \A x \in jobs : x.op # "show" => x \in jobs'
  BY <1>0, <1>1, <1>3, <1>4 DEF ReadTypes
<1>6. ASSUME NEW q \in Page
      PROVE  /\ page'[q] \in Views /\ page'[q].text = page[q].text /\ page'[q].raw = page[q].raw
             /\ page[q].up /\ page[q].text # D!Absent => page'[q].rx = t.rx
  <2>1. page[q] \in Views
    BY <1>0 DEF ReadTypes
  <2>2. PICK w : w = [page[q] EXCEPT !.rx = t.rx]
    OBVIOUS
  <2>3. w \in Views /\ w.text = page[q].text /\ w.raw = page[q].raw /\ w.rx = t.rx
    BY <1>2, <2>1, <2>2 DEF Views
  <2>4. page'[q] = IF page[q].up /\ page[q].text # D!Absent THEN w ELSE page[q]
    BY <1>1, <2>2
  <2> QED BY <2>1, <2>3, <2>4
<1>7. page' \in [Page -> Views]
  BY <1>1, <1>6
<1>8. ReadTypes'
  BY <1>0, <1>1, <1>5, <1>7 DEF ReadTypes
<1>9. Kinds'
  BY <1>0, <1>1, <1>4, <1>5 DEF Kinds
<1>10. ASSUME NEW q \in Page PROVE PageInv(q)'
  <2>1. Telling => Telling'
    BY <1>5 DEF Telling
  <2>2. Coming(q) => Coming(q)'
    BY <1>1, <1>5 DEF Coming
  <2>3. EditGood(q) => EditGood(q)'
    <3>1. SUFFICES ASSUME EditGood(q) PROVE EditGood(q)'
      OBVIOUS
    <3>2. \A x \in jobs' : x.p = q /\ x.op \in Tries \cup {"listed", "edited", "answer"} => x.ver = row'
      BY <1>1, <1>4, <1>5, <3>1 DEF EditGood, Tries
    <3> QED BY <1>1, <1>6, <2>2, <3>1, <3>2 DEF EditGood
  <2>4. EditPage(q)'
    BY <1>0, <1>1, <2>1, <2>3 DEF PageInv, EditPage
  <2>5. LockPage(q)'
    BY <1>0, <1>1, <1>5, <1>6 DEF PageInv, LockPage, Tries
  <2>6. ReactPage(q)'
    <3> SUFFICES ASSUME q \notin other' PROVE ReactGood(q)'
      BY DEF ReactPage
    <3> QED BY <1>1, <1>4, <1>5, <1>6 DEF ReactGood
  <2> QED BY <2>4, <2>5, <2>6 DEF PageInv
<1> QED BY <1>8, <1>9, <1>10 DEF ReadInv

LEMMA ReactedKeeps ==
  ASSUME ReadInv, NEW t \in jobs, D!Reacted(t) PROVE ReadInv'
<1>0. ReadTypes /\ Kinds /\ t \in ReadJobs /\ t.p \in Page /\ \A q \in Page : PageInv(q)
  BY JobHas DEF ReadInv, ReadTypes
<1>1. /\ t.op = "reacted" /\ row' = row /\ rx' = rx /\ sent' = sent /\ cache' = cache /\ store' = store
      /\ no' = no /\ why' = why /\ stuck' = stuck /\ key' = key /\ asked' = asked /\ guard' = guard /\ other' = other
      /\ budget' = budget /\ jobs' = jobs \ {t}
      /\ page' = IF page[t.p].text # D!Absent THEN [page EXCEPT ![t.p].rx = t.rx] ELSE page
  BY DEF D!Reacted, D!Then, D!Rows, D!Keys, D!Shown
<1>2. /\ page' \in [Page -> Views]
      /\ \A q \in Page : /\ page'[q].text = page[q].text /\ page'[q].raw = page[q].raw
                         /\ q # t.p => page'[q] = page[q]
      /\ page[t.p].text # D!Absent => page'[t.p].rx = t.rx
  <2>1. page \in [Page -> Views] /\ t.rx \in SUBSET Reactors
    BY <1>0, <1>1, JobHas DEF ReadTypes
  <2>2. PICK w : w = [page[t.p] EXCEPT !.rx = t.rx]
    OBVIOUS
  <2>3. w \in Views /\ w.text = page[t.p].text /\ w.raw = page[t.p].raw /\ w.rx = t.rx
    BY <1>0, <2>1, <2>2 DEF Views
  <2>4. page' = IF page[t.p].text # D!Absent THEN [page EXCEPT ![t.p] = w] ELSE page
    BY <1>1, <2>2
  <2> QED BY <1>0, <2>1, <2>3, <2>4
<1>3. ReadTypes'
  BY <1>0, <1>1, <1>2 DEF ReadTypes
<1>4. Kinds'
  BY <1>0, <1>1 DEF Kinds
<1>5. \A x \in jobs : x.op # "reacted" => x \in jobs'
  BY <1>1
<1>6. ASSUME NEW q \in Page PROVE PageInv(q)'
  <2>1. (Telling => Telling') /\ (Bringing => Bringing')
    BY <1>5 DEF Telling, Bringing
  <2>2. Coming(q) => Coming(q)'
    BY <1>1, <1>5 DEF Coming
  <2>3. EditGood(q) => EditGood(q)'
    BY <1>1, <1>2, <2>2 DEF EditGood
  <2>4. EditPage(q)'
    BY <1>0, <1>1, <2>1, <2>3 DEF PageInv, EditPage
  <2>5. LockPage(q)'
    BY <1>0, <1>1, <1>2, <1>5 DEF PageInv, LockPage, Tries
  <2>6. ReactGood(q) => ReactGood(q)'
    BY <1>1, <1>2 DEF ReactGood
  <2>7. ReactPage(q)'
    BY <1>0, <1>1, <2>1, <2>6 DEF PageInv, ReactPage
  <2> QED BY <2>4, <2>5, <2>7 DEF PageInv
<1> QED BY <1>3, <1>4, <1>6 DEF ReadInv

LEMMA ReadNext == ReadInv /\ D!RNext => ReadInv'
<1> SUFFICES ASSUME ReadInv, D!RNext PROVE ReadInv'
  OBVIOUS
<1>1. ASSUME NEW p \in Page,
             \/ D!GuardEnds(p) \/ D!PendingEnds(p) \/ D!Select(p) \/ D!Close(p) \/ D!Sleep(p) \/ D!Resume(p) \/ D!Reload(p)
             \/ D!EditDm(p) \/ D!EditGroup(p) \/ D!React(p) \/ \E r \in BOOLEAN : D!KeyComes(p, r)
      PROVE  ReadInv'
  BY <1>1, ViewKeeps, ReloadPageKeeps, PostKeeps, KeyComesKeeps
<1>2. ASSUME NEW t \in jobs,
             \/ D!OpenRefused(t) \/ D!OpenKnown(t) \/ D!OpenV4(t) \/ D!OpenGroup(t) \/ D!OpenDm(t) \/ D!Await(t)
             \/ D!Opened(t) \/ D!OpenedGroup(t) \/ D!Timer(t) \/ D!Kick(t) \/ D!PeerSaysNo(t)
      PROVE  ReadInv'
  BY <1>2, OpenRefusedKeeps, OpenKnownKeeps, OpenV4Keeps, OpenGroupKeeps, OpenDmKeeps, AwaitKeeps, OpenedKeeps,
     TimerKeeps, KickKeeps, PeerSaysNoKeeps
<1>3. ASSUME NEW t \in jobs,
             \/ D!Refreshed(t) \/ D!ListRead(t) \/ D!Listed(t) \/ D!Write(t) \/ D!Tell(t) \/ D!EditedDm(t) \/ D!EditedGroup(t)
             \/ D!Answer(t) \/ D!Toggle(t) \/ D!Put(t) \/ D!Snap(t) \/ D!Show(t) \/ D!Reacted(t)
      PROVE  ReadInv'
  BY <1>3, RefreshedKeeps, ListReadKeeps, ListedKeeps, WriteKeeps, TellKeeps, EditedKeeps, AnswerKeeps, ToggleKeeps,
     PutKeepsReactions, ShowKeepsReactions, ReactedKeeps
<1> QED BY <1>1, <1>2, <1>3 DEF D!RNext

LEMMA ReadLimitsAreBudgets == ReadLimits \subseteq Budgets
  BY DEF ReadLimits, Reads, Budgets

LEMMA ReadStart == D!RInit => ReadInv
<1> SUFFICES ASSUME D!RInit PROVE ReadInv
  OBVIOUS
<1>1. PICK a \in budget.mine :
        /\ page = [p \in Page |-> [up |-> TRUE, open |-> TRUE, text |-> IF p = a THEN 0 ELSE D!Locked, raw |-> 0, rx |-> {}]]
        /\ jobs = {[op |-> "open", p |-> p, ver |-> 0, att |-> 0] : p \in Page \ {a}}
        /\ store = [p \in Page |-> IF p = a /\ D!V4 THEN 0 ELSE D!Absent]
        /\ key \in [Page -> budget.keys] /\ key[a] = "local"
  BY DEF D!RInit
<1>2. /\ budget \in Budgets /\ row = 0 /\ rx = {} /\ sent = 0 /\ no = {} /\ asked = {} /\ guard = {} /\ other = {}
      /\ cache = [p \in Page |-> D!Absent] /\ why = [p \in Page |-> {}] /\ stuck = [p \in Page |-> {}]
  BY ReadLimitsAreBudgets DEF D!RInit
<1>3. budget.keys \in SUBSET {"none", "kv", "local"}
  BY <1>2 DEF Budgets
<1>4. D!Locked \in Int /\ D!Locked < 0 /\ D!Locked # D!Gone
  BY DEF D!Locked, D!Gone
<1>5. \A x \in jobs : x \in ReadJobs /\ x.op = "open" /\ x.ver = 0
  BY <1>1 DEF ReadJobs, Tries
<1>6. \A q \in Page : q # a => \E x \in jobs : x.op = "open" /\ x.p = q
  <2> SUFFICES ASSUME NEW q \in Page, q # a PROVE \E x \in jobs : x.op = "open" /\ x.p = q
    OBVIOUS
  <2>1. PICK x : x = [op |-> "open", p |-> q, ver |-> 0, att |-> 0]
    OBVIOUS
  <2>2. x \in jobs
    BY <1>1, <2>1
  <2> QED BY <2>1, <2>2
<1>7. page \in [Page -> Views]
  BY <1>1, <1>4 DEF Views
<1>8. ReadTypes
  BY <1>1, <1>2, <1>3, <1>5, <1>7 DEF ReadTypes
<1>9. Kinds
  BY <1>2, <1>5 DEF Kinds
<1>10. ASSUME NEW q \in Page PROVE PageInv(q)
  <2>1. /\ page[q].raw = 0 /\ page[q].rx = {} /\ page[q].text = IF q = a THEN 0 ELSE D!Locked
        /\ cache[q] = D!Absent /\ q \notin no
    BY <1>1, <1>2
  <2>2. EditPage(q)
    BY <1>2, <1>4, <1>5, <2>1 DEF EditPage, EditGood
  <2>3. LockPage(q)
    BY <1>2, <1>4, <1>6, <2>1 DEF LockPage, Tries, D!Gone, D!Locked
  <2>4. ReactPage(q)
    BY <1>2, <1>5, <2>1 DEF ReactPage, ReactGood
  <2> QED BY <2>2, <2>3, <2>4 DEF PageInv
<1> QED BY <1>8, <1>9, <1>10 DEF ReadInv

LEMMA ReadInvImplies == ReadInv => D!ReadInOrder
<1> SUFFICES ASSUME ReadInv, jobs = {}, NEW p \in Page
             PROVE  /\ page[p].text >= 0 /\ why[p] = {} => page[p].text = row
                    /\ page[p].text \in {D!Locked, D!Gone} /\ key[p] # "none" => stuck[p] # {}
                    /\ p \notin other /\ D!Shown(p) => page[p].rx = rx
  BY DEF D!ReadInOrder, D!EditIsShown, D!LockedHasACause, D!ReactionsAgree
<1>1. EditPage(p) /\ LockPage(p) /\ ReactPage(p) /\ ~Telling /\ ~Coming(p) /\ ~Bringing
  BY DEF ReadInv, PageInv, Telling, Coming, Bringing
<1> QED BY <1>1 DEF EditPage, EditGood, LockPage, ReactPage, ReactGood, D!Shown

\* What a page shows, when nothing is under way, is the text and the reactions of
\* the server, and it opened the message if it has the key (chat.svelte.js,
\* chatPipeline.js, chatRoutes.js), but for the causes the properties name: for
\* any number of pages, attempts, edits, reactions, views and failures.
THEOREM ReadInOrderHolds == MCSpec => []ReadInOrder
<1> DEFINE Inv == part = "reading" => ReadInv
<1>1. MCInit => Inv
  <2>1. MCInit /\ part = "reading" => D!RInit
    BY DEF MCInit
  <2> QED BY <2>1, ReadStart
<1>2. Inv /\ [ChatStep \/ RecoveryStep \/ ReadingStep]_<<part, cmk, recovery, reading>> => Inv'
  <2> SUFFICES ASSUME Inv, [ChatStep \/ RecoveryStep \/ ReadingStep]_<<part, cmk, recovery, reading>>, part' = "reading"
               PROVE  ReadInv'
    OBVIOUS
  <2>1. part' = part /\ ReadInv
    BY DEF ChatStep, RecoveryStep, ReadingStep
  <2>2. CASE ReadingStep
    BY <2>1, <2>2, ReadNext DEF ReadingStep
  <2>3. CASE UNCHANGED reading
    <3>1. /\ row' = row /\ rx' = rx /\ page' = page /\ cache' = cache /\ store' = store /\ key' = key /\ no' = no
          /\ asked' = asked /\ guard' = guard /\ jobs' = jobs /\ budget' = budget /\ sent' = sent /\ why' = why
          /\ stuck' = stuck /\ other' = other
      BY <2>3 DEF reading
    <3>2. ReadTypes'
      BY <2>1, <3>1 DEF ReadInv, ReadTypes
    <3>3. (Telling => Telling') /\ (Bringing => Bringing')
      BY <3>1 DEF Telling, Bringing
    <3> QED BY <2>1, <3>1, <3>2, <3>3, QuietStep
  <2> QED BY <2>1, <2>2, <2>3 DEF ChatStep, RecoveryStep
<1>3. Inv => ReadInOrder
  BY ReadInvImplies DEF ReadInOrder
<1> QED BY <1>1, <1>2, <1>3, PTL DEF MCSpec

===============================================================================

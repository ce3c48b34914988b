--------------------------- MODULE OneTimePrekeys ---------------------------
(***************************************************************************)
(* The life of the one-time prekeys (OPKs) of ONE device, its owner:       *)
(*                                                                         *)
(*   owner   keeps the private halves in one sealed IndexedDB record,      *)
(*           generates, publishes and tops up public halves                *)
(*           (pqxdhKeys.js, pqxdhPublish.js), and removes a private half   *)
(*           when a peer's handshake uses it (consumeForResponder);        *)
(*   server  stores public halves as D1 rows, hands each fetch of the      *)
(*           bundle at most one of them (prekeyDO.js), and rations them    *)
(*           per requester and time window (opkCapDecision).               *)
(*                                                                         *)
(* Every read-modify-write of the owner's record is two steps, because the *)
(* code awaits between the read and the write and holds no lock.  The      *)
(* server's consume is one step: it runs inside blockConcurrencyWhile.     *)
(* Private halves and D1 rows are identified by the number of the key, in  *)
(* the order the keys were generated.                                      *)
(***************************************************************************)
EXTENDS Integers, FiniteSets

CONSTANTS
  Requester,   \* users that fetch the owner's bundle
  Fetch,       \* the fetches made in a behaviour
  By,          \* By[f] is the user that makes fetch f
  Tab,         \* instances of the app of the owner that publish
  Target,      \* OPK_TARGET, the pool size aimed at
  LowWater,    \* OPK_LOW_WATER, below it the pool is topped up
  Cap,         \* OPKs a requester may draw per window
  Window,      \* length of that window, in ticks of the clock
  Skew,        \* how far a reading of the clock may lag behind the latest
  MaxOpk,      \* bound: keys generated
  MaxNow,      \* bound: last instant
  MaxAccepts,  \* bound: acceptances of one handshake that are counted
  AlarmFails,  \* whether setting the cleanup alarm may fail
  Todo,        \* the result of a fetch that was not made yet
  NoOpk,       \* the result of a fetch that got no OPK ("SPK only")
  None         \* an absent record

ASSUME PrekeyAssumption ==
  /\ By \in [Fetch -> Requester]
  /\ IsFiniteSet(Fetch)
  /\ Target \in Nat \ {0} /\ LowWater \in Nat /\ Cap \in Nat
  /\ Window \in Nat \ {0} /\ Skew \in Nat /\ 2 * Skew <= Window
  /\ MaxOpk \in Nat /\ MaxNow \in Nat /\ MaxAccepts \in Nat
  /\ AlarmFails \in BOOLEAN
  /\ Todo \notin Nat /\ NoOpk \notin Nat
  /\ None \notin Nat /\ None \notin [bucket : Nat, count : Nat]

Opk == 1..MaxOpk

VARIABLES
  priv,     \* owner: keys whose private half is in the record pqxdh:opks
  next,     \* owner: number of keys generated so far
  marker,   \* owner: pqxdh:published:<device> is set
  pub,      \* owner: pub[t], where publisher t stands and what it read
  cons,     \* owner: cons[r], the consume in progress in r's session, or none
  accepts,  \* history: accepts[f], times the handshake of f was accepted
  clobbered,    \* history: keys another write put into or took from the record between
            \* the read and the write of a step
  bundle,   \* server: the KV bundle exists
  row,      \* server: row[k] of the table pqxdh_opk
  caps,     \* server: caps[r], the stored window counter of r, or none
  alarm,    \* server: when the cleanup alarm fires, or none
  now,      \* the clock
  got,      \* got[f]: Todo, an OPK, or NoOpk
  win       \* history: win[f], the window fetch f was counted in

ownerVars  == <<priv, next, marker, pub, cons, accepts, clobbered>>
serverVars == <<bundle, row, caps, alarm>>
fetchVars  == <<got, win>>
vars == <<ownerVars, serverVars, fetchVars, now>>

\* pub[t]: the step t is at, the record it is about to write, the keys it
\* generated, the marker as it read it, and the size of the top-up it decided.
IdlePub == [pc |-> "idle", keys |-> {}, new |-> {}, mark |-> FALSE, need |-> 0]

Init ==
  /\ priv = {} /\ next = 0 /\ marker = FALSE
  /\ pub = [t \in Tab |-> IdlePub]
  /\ cons = [r \in Requester |-> None]
  /\ accepts = [f \in Fetch |-> 0]
  /\ clobbered = {}
  /\ bundle = FALSE
  /\ row = [k \in Opk |-> "absent"]
  /\ caps = [r \in Requester |-> None]
  /\ alarm = None
  /\ now = 0
  /\ got = [f \in Fetch |-> Todo]
  /\ win = [f \in Fetch |-> 0]

-----------------------------------------------------------------------------
(* The owner: publishing and topping up (publishPqxdhBundleIfNeeded).      *)

\* The next n keys to be generated.
Fresh(n) == (next + 1)..(next + n)

\* Slip: the loop goes on while the pool is not above the target.
Missing_OneMore(n) == IF n <= Target THEN Target + 1 - n ELSE 0

\* How many keys n keys lack to the target.
Missing(n) == IF n < Target THEN Target - n ELSE 0

\* The newest Target keys of a set: bundle.opks.slice(-OPK_TARGET).
Newest(S) == {k \in S : Cardinality({j \in S : j > k}) < Target}

Free == {k \in Opk : row[k] = "free"}

\* A write of the record whose step read S: what differs was another's.
Overwrites(S) == clobbered' = clobbered \cup (S \ priv) \cup (priv \ S)

\* ensureOpkPool, first half: read the record, generate what is missing.
\* The marker was read just before (buildPublishBundle is called after it).
PoolRead(t) ==
  LET need == Missing(Cardinality(priv))
  IN /\ pub[t].pc = "idle"
     /\ next + need <= MaxOpk
     /\ next' = next + need
     /\ pub' = [pub EXCEPT ![t] = [pc |-> "pool", keys |-> priv \cup Fresh(need),
                                   new |-> Fresh(need), mark |-> marker, need |-> 0]]
     /\ UNCHANGED <<priv, marker, cons, accepts, clobbered, serverVars, fetchVars, now>>

\* ensureOpkPool, second half: write the record back if keys were added.
StoreRecord(t) ==
  IF pub[t].new # {} THEN priv' = pub[t].keys /\ Overwrites(pub[t].keys \ pub[t].new)
                     ELSE UNCHANGED <<priv, clobbered>>

PoolWrite(t) ==
  /\ pub[t].pc = "pool"
  /\ StoreRecord(t)
  /\ pub' = [pub EXCEPT ![t].pc = IF pub[t].mark THEN "count" ELSE "publish"]
  /\ UNCHANGED <<next, marker, cons, accepts, serverVars, fetchVars, now>>

\* Slip: INSERT OR REPLACE.
InsertOrIgnore_Replaces(ks) == [k \in Opk |-> IF k \in ks THEN "free" ELSE row[k]]

\* INSERT OR IGNORE: a row that exists, consumed or not, stays as it is.
InsertOrIgnore(ks) ==
  [k \in Opk |-> IF k \in ks /\ row[k] = "absent" THEN "free" ELSE row[k]]

\* POST /e2e/pqxdh/upload: the bundle goes to KV, then the keys to D1.  The
\* request may be refused or lost, the D1 batch may fail (the request then
\* still succeeds), and so may the answer: ok is what the owner sees.
Upload(ks, ok) ==
  \/ /\ ~ok
     /\ UNCHANGED <<bundle, row>>
  \/ /\ bundle' = TRUE
     /\ row' \in {row, InsertOrIgnore(ks)}

Publish(t) ==
  /\ pub[t].pc = "publish"
  /\ \E ok \in BOOLEAN :
       /\ Upload(Newest(pub[t].keys), ok)
       /\ marker' = (marker \/ ok)
  /\ pub' = [pub EXCEPT ![t] = IdlePub]
  /\ UNCHANGED <<priv, next, cons, accepts, clobbered, caps, alarm, fetchVars, now>>

\* GET /e2e/pqxdh/opk-count: stop here if the request fails or enough are left.
\* The server answers 0 when it cannot read the table.
CountOpks(t) ==
  /\ pub[t].pc = "count"
  /\ \/ pub' = [pub EXCEPT ![t] = IdlePub]
     \/ \E n \in {Cardinality(Free), 0} :
          /\ n < LowWater
          /\ pub' = [pub EXCEPT ![t] = [IdlePub EXCEPT !.pc = "topup", !.need = Missing(n)]]
  /\ UNCHANGED <<priv, next, marker, cons, accepts, clobbered, serverVars, fetchVars, now>>

\* topUpOpks, first half: read the record, generate as many as are missing.
TopUpRead(t) ==
  LET n == pub[t].need
  IN /\ pub[t].pc = "topup"
     /\ next + n <= MaxOpk
     /\ next' = next + n
     /\ pub' = [pub EXCEPT ![t] = [pc |-> "store", keys |-> priv \cup Fresh(n),
                                   new |-> Fresh(n), mark |-> FALSE, need |-> 0]]
     /\ UNCHANGED <<priv, marker, cons, accepts, clobbered, serverVars, fetchVars, now>>

TopUpWrite(t) ==
  /\ pub[t].pc = "store"
  /\ StoreRecord(t)
  /\ pub' = [pub EXCEPT ![t].pc = "send"]
  /\ UNCHANGED <<next, marker, cons, accepts, serverVars, fetchVars, now>>

TopUpSend(t) ==
  /\ pub[t].pc = "send"
  /\ \E ok \in BOOLEAN : Upload(pub[t].new, ok)
  /\ pub' = [pub EXCEPT ![t] = IdlePub]
  /\ UNCHANGED <<priv, next, marker, cons, accepts, clobbered, caps, alarm, fetchVars, now>>

-----------------------------------------------------------------------------
(* The owner: accepting a handshake (consumeForResponder).                 *)

\* The first message of fetch f's session reaches the owner, for the first
\* time or again.  Messages of one requester are handled one at a time (the
\* session lock), those of different requesters overlap.  A key that is not
\* in the record makes the code throw: no step.
ConsumeRead(f) ==
  /\ got[f] \in priv
  /\ accepts[f] < MaxAccepts
  /\ cons[By[f]] = None
  /\ cons' = [cons EXCEPT ![By[f]] = [fetch |-> f, keys |-> priv]]
  /\ UNCHANGED <<priv, next, marker, pub, accepts, clobbered, serverVars, fetchVars, now>>

\* Slip: the private half stays.
Spend_Not(S, k) == S

\* The record without the private half that was used.
Spend(S, k) == S \ {k}

ConsumeWrite(r) ==
  /\ cons[r] # None
  /\ LET f == cons[r].fetch
     IN /\ priv' = Spend(cons[r].keys, got[f])
        /\ accepts' = [accepts EXCEPT ![f] = @ + 1]
  /\ Overwrites(cons[r].keys)
  /\ cons' = [cons EXCEPT ![r] = None]
  /\ UNCHANGED <<next, marker, pub, serverVars, fetchVars, now>>

-----------------------------------------------------------------------------
(* The server: one fetch of the bundle (PrekeyDO./consume).                *)

\* Slip: the window of the clock, even if it is earlier than the stored one.
Bucket_Backwards(r, t) == t \div Window

\* opkCapDecision: the window never goes back below the stored one, and a
\* later window starts counting again.
Bucket(r, t) ==
  LET b == t \div Window
  IN IF caps[r] # None /\ caps[r].bucket > b THEN caps[r].bucket ELSE b

Drawn(r, t) ==
  IF caps[r] # None /\ caps[r].bucket = Bucket(r, t) THEN caps[r].count ELSE 0

\* Instants the server's clock may read.
Reading == {t \in (now - Skew)..now : t >= 0}

\* Slip: the row is deleted instead of marked.
Draw_Deletes(f, t) ==
  LET r == By[f]
  IN /\ Drawn(r, t) < Cap
     /\ \E k \in Free :
          /\ row' = [row EXCEPT ![k] = "absent"]
          /\ got' = [got EXCEPT ![f] = k]
     /\ caps' = [caps EXCEPT ![r] = [bucket |-> Bucket(r, t), count |-> Drawn(r, t) + 1]]
     /\ win' = [win EXCEPT ![f] = Bucket(r, t)]

\* A free row is marked consumed and returned; the counter is stored only
\* then.  The code takes the oldest row; which one it is matters to no
\* property, so it is left open.
Draw(f, t) ==
  LET r == By[f]
  IN /\ Drawn(r, t) < Cap
     /\ \E k \in Free :
          /\ row' = [row EXCEPT ![k] = "consumed"]
          /\ got' = [got EXCEPT ![f] = k]
     /\ caps' = [caps EXCEPT ![r] = [bucket |-> Bucket(r, t), count |-> Drawn(r, t) + 1]]
     /\ win' = [win EXCEPT ![f] = Bucket(r, t)]

\* Over the cap, no free row, no answer from the object or from D1: the bundle
\* goes out without an OPK.  A row may have been consumed in vain, when the
\* counter could not be stored or the answer was lost.
SpkOnly(f) ==
  /\ got' = [got EXCEPT ![f] = NoOpk]
  /\ row' \in {row} \cup {[row EXCEPT ![k] = "consumed"] : k \in Free}
  /\ UNCHANGED <<caps, win>>

\* When the counters are deleted: long after the window t falls into.
CleanupAt(t) == t + 2 * Window

SetAlarm(t) == alarm' = CleanupAt(t)
KeepAlarm == UNCHANGED alarm

FetchBundle(f) ==
  /\ got[f] = Todo
  /\ bundle
  /\ \E t \in Reading :
       \/ Draw(f, t) /\ (SetAlarm(t) \/ (AlarmFails /\ KeepAlarm))
       \/ SpkOnly(f) /\ (SetAlarm(t) \/ KeepAlarm)
  /\ UNCHANGED <<ownerVars, bundle, now>>

\* The cleanup alarm: storage.deleteAll().
Alarm ==
  /\ alarm # None
  /\ now >= alarm
  /\ caps' = [r \in Requester |-> None]
  /\ alarm' = None
  /\ UNCHANGED <<ownerVars, bundle, row, fetchVars, now>>

Tick ==
  /\ now < MaxNow
  /\ now' = now + 1
  /\ UNCHANGED <<ownerVars, serverVars, fetchVars>>

Owner(t) ==
  \/ PoolRead(t) \/ PoolWrite(t) \/ Publish(t)
  \/ CountOpks(t) \/ TopUpRead(t) \/ TopUpWrite(t) \/ TopUpSend(t)

Next ==
  \/ \E t \in Tab : Owner(t)
  \/ \E f \in Fetch : ConsumeRead(f) \/ FetchBundle(f)
  \/ \E r \in Requester : ConsumeWrite(r)
  \/ Alarm
  \/ Tick

Spec == Init /\ [][Next]_vars

-----------------------------------------------------------------------------
(* Properties *)

PubState ==
  [pc : {"idle", "pool", "publish", "count", "topup", "store", "send"},
   keys : SUBSET Opk, new : SUBSET Opk, mark : BOOLEAN, need : 0..Target]

TypeOK ==
  /\ priv \subseteq Opk
  /\ next \in 0..MaxOpk
  /\ marker \in BOOLEAN
  /\ pub \in [Tab -> PubState]
  /\ cons \in [Requester -> {None} \cup [fetch : Fetch, keys : SUBSET Opk]]
  /\ accepts \in [Fetch -> 0..MaxAccepts]
  /\ clobbered \subseteq Opk
  /\ bundle \in BOOLEAN
  /\ row \in [Opk -> {"absent", "free", "consumed"}]
  /\ caps \in [Requester -> {None} \cup [bucket : Nat, count : Nat]]
  /\ alarm \in {None} \cup Nat
  /\ now \in 0..MaxNow
  /\ got \in [Fetch -> {Todo, NoOpk} \cup Opk]
  /\ win \in [Fetch -> Nat]

\* No OPK is handed out twice, however often the owner uploads it again
\* (a lost answer to the first upload, a top-up that overlaps a publish).
HandedOutOnce ==
  \A f, g \in Fetch : got[f] \in Opk /\ got[f] = got[g] => f = g

\* No requester draws more than Cap OPKs in one window, although the counters
\* are deleted by the alarm and the clock may read a little less than before
\* (PrekeyDO; it takes an alarm that is set whenever an OPK is drawn).
CapPerWindow ==
  \A r \in Requester : \A w \in {win[f] : f \in Fetch} :
    Cardinality({f \in Fetch : By[f] = r /\ got[f] \in Opk /\ win[f] = w}) <= Cap

\* The owner's record agrees with what became of its keys: the private half of
\* a key that was handed out is there until the handshake built on it is accepted
\* (stored before it is offered, kept while the handshake is under way) and gone
\* from then on, unless a step wrote the record over what another had put into it
\* or taken from it since the step read it (pqxdhKeys.js).
RecordHasACause ==
  \A f \in Fetch : got[f] \in Opk \ clobbered => (got[f] \in priv <=> accepts[f] = 0)

\* A consumed row stays consumed: no upload revives it (the tombstone).
TombstonePermanent ==
  [][\A k \in Opk : row[k] = "consumed" => row'[k] = "consumed"]_row

\* The whole of it, uploads that are repeated, refused or lost and fetches that
\* fail half-way included, behaves like a pool that offers every key once and
\* gives it out once (upload and bundle of e2eRoutes, PrekeyDO).
Pool == INSTANCE PrekeyPool WITH free <- Free, spent <- {k \in Opk : row[k] = "consumed"}
ImplementsPool == Pool!Spec

\* pqxdhKeys.consumeForResponder: the OPK is deleted locally, "one-time": once
\* a handshake was accepted, its private half never comes back.
ConsumedStaysConsumed ==
  \A f \in Fetch : accepts[f] > 0 => got[f] \notin priv

\* pqxdhKeys.topUpOpks: old private halves stay, since the handshake that uses
\* them may still be on its way: a key handed out and not yet accepted is held.
HandedIsHeld ==
  \A f \in Fetch : got[f] \in Opk /\ accepts[f] = 0 => got[f] \in priv
=============================================================================

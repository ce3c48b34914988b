----------------------------- MODULE PrekeyPool -----------------------------
(***************************************************************************)
(* What the prekey service promises, whoever calls it and however often a  *)
(* call is repeated: a key is offered once, leaves the pool for good when  *)
(* it is given out, and a fetch gets one answer, a key or none.            *)
(***************************************************************************)
CONSTANTS
  Opk,      \* the keys
  Fetch,    \* the fetches
  Todo,     \* the answer of a fetch that was not made yet
  NoOpk     \* the answer without a key

VARIABLES
  free,     \* keys that can be given out
  spent,    \* keys that cannot be given out any more
  got       \* got[f]: the answer to fetch f

pool == <<free, spent, got>>

Init ==
  /\ free = {} /\ spent = {}
  /\ got = [f \in Fetch |-> Todo]

\* Some keys that were never in the pool come into it.
Offer ==
  /\ \E S \in SUBSET (Opk \ (free \cup spent)) : free' = free \cup S
  /\ UNCHANGED <<spent, got>>

Spend(k) ==
  /\ free' = free \ {k}
  /\ spent' = spent \cup {k}

Answer(f, a) ==
  /\ got[f] = Todo
  /\ got' = [got EXCEPT ![f] = a]

Hand(f) == \E k \in free : Answer(f, k) /\ Spend(k)

\* No key is handed out; one may be lost.
Refuse(f) ==
  /\ Answer(f, NoOpk)
  /\ \/ UNCHANGED <<free, spent>>
     \/ \E k \in free : Spend(k)

Next == Offer \/ \E f \in Fetch : Hand(f) \/ Refuse(f)

Spec == Init /\ [][Next]_pool
=============================================================================

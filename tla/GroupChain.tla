----------------------------- MODULE GroupChain -----------------------------
(* The keys of one member's messages in a group. A message key is derived from *)
(* the sender key of the device, the handle and a count. Taking the next count *)
(* is a read and a write (nextGroupChainIndex); setMyGSK writes the key and    *)
(* then the counter. A second device starts with the key that the first left   *)
(* at the server, or makes its own.                                            *)
EXTENDS Naturals, FiniteSets

CONSTANTS Devs, MaxSteps

VARIABLES key, past, count, doing, made, used, twice, blurred, steps

chain == <<key, past, count, doing, made, used, twice, blurred, steps>>

NoKey == 0
GskIds == 1..(1 + MaxSteps)

ChainTypeOK ==
  /\ key \in [Devs -> GskIds \cup {NoKey}] /\ count \in [Devs -> 0..MaxSteps] /\ made \in GskIds
  /\ \A d \in Devs : past[d] \subseteq GskIds /\ key[d] \notin past[d]
  /\ twice \subseteq used /\ blurred \subseteq GskIds

(* One device has made a key and sent nothing with it.                         *)
Init ==
  \E d \in Devs :
    /\ key = [x \in Devs |-> IF x = d THEN 1 ELSE NoKey] /\ past = [x \in Devs |-> {}]
    /\ count = [x \in Devs |-> 0] /\ doing = {} /\ made = 1
    /\ used = {} /\ twice = {} /\ blurred = {} /\ steps = 0

Begin == steps < MaxSteps /\ steps' = steps + 1

(* A departure, a request or the first send makes a key; the first send of a   *)
(* device without one takes the other's if it is there (ensureMyGSK).          *)
NewKey(d) == /\ Begin /\ made' = made + 1 /\ doing' = doing \cup {[dev |-> d, op |-> "write", gsk |-> made']}
             /\ UNCHANGED <<key, past, count, used, twice, blurred>>
Adopt(d) == /\ Begin /\ key[d] = NoKey
            /\ \E k \in {key[x] : x \in Devs} \ {NoKey} :
                 doing' = doing \cup {[dev |-> d, op |-> "write", gsk |-> k]} /\ blurred' = blurred \cup {k}
            /\ UNCHANGED <<key, past, count, made, used, twice>>

SetKey(t) ==
  /\ t.op = "write" /\ key' = [key EXCEPT ![t.dev] = t.gsk]
  /\ past' = [past EXCEPT ![t.dev] = (@ \cup {key[t.dev]}) \ {NoKey, t.gsk}]
  /\ doing' = (doing \ {t}) \cup {[t EXCEPT !.op = "reset"]}
  /\ UNCHANGED <<count, made, used, twice, blurred, steps>>
SetCount(t) ==
  /\ t.op = "reset" /\ count' = [count EXCEPT ![t.dev] = 0] /\ doing' = doing \ {t}
  /\ UNCHANGED <<key, past, made, used, twice, blurred, steps>>

(* A message is sent with the current key, the edit of one sent with an        *)
(* archived key with that key; the count comes from the one counter.           *)
Writing(d) == {t \in doing : t.dev = d /\ t.op \in {"key", "index"}}
Sends(d, k) ==
  /\ Begin /\ doing' = doing \cup {[dev |-> d, op |-> "key", gsk |-> k, n |-> steps]}
  /\ blurred' = blurred \cup (IF Writing(d) = {} THEN {} ELSE {k} \cup {t.gsk : t \in Writing(d)})
  /\ UNCHANGED <<key, past, count, made, used, twice>>
Send(d) == key[d] # NoKey /\ Sends(d, key[d])
Edit(d) == \E k \in past[d] : Sends(d, k)

ReadIndex(t) ==
  /\ t.op = "key"
  /\ doing' = (doing \ {t}) \cup {[dev |-> t.dev, op |-> "index", gsk |-> t.gsk, n |-> t.n, i |-> count[t.dev]]}
  /\ blurred' = blurred \cup
       (IF key[t.dev] # t.gsk \/ \E x \in doing : x.dev = t.dev /\ x.op = "reset"
        THEN {t.gsk, key[t.dev]} \ {NoKey} ELSE {})
  /\ UNCHANGED <<key, past, count, made, used, twice, steps>>

After_Same(i) == i
After(i) == i + 1
WriteIndex(t) ==
  /\ t.op = "index" /\ doing' = doing \ {t} /\ count' = [count EXCEPT ![t.dev] = After(t.i)]
  /\ used' = used \cup {<<t.gsk, t.i>>} /\ twice' = twice \cup ({<<t.gsk, t.i>>} \cap used)
  /\ UNCHANGED <<key, past, made, blurred, steps>>

Next == \/ \E d \in Devs : NewKey(d) \/ Adopt(d) \/ Send(d) \/ Edit(d)
        \/ \E t \in doing : SetKey(t) \/ SetCount(t) \/ ReadIndex(t) \/ WriteIndex(t)
Spec == Init /\ [][Next]_chain

(* Two messages of a member have different keys (nextGroupChainIndex), unless  *)
(* sends of one device overlap, a rotation falls into a send, an edit uses an  *)
(* archived key, or two devices use one key.                                   *)
ReuseHasACause == \A m \in twice : m[1] \in blurred

(* "Damit hat jede Message einen eigenen MK" (groupCrypto.js:411).             *)
KeyPerMessage == twice = {}
=============================================================================

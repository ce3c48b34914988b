------------------------------ MODULE PqRekey ------------------------------
(* The post-quantum rekey (pqRatchet.js) on top of an established session:     *)
(* the initiator announces an epoch with an ML-KEM ciphertext, its next DH step *)
(* mixes the secret into the root, the responder does the same when it meets   *)
(* that step's public key, and the epoch is confirmed by its echo. The state   *)
(* lives in the session record, which _encryptForDevice and ratchetDecrypt     *)
(* load and save under one lock, so a send and a receive are one step each.    *)
EXTENDS DoubleRatchet, FiniteSets

CONSTANTS CtBudget,                 (* MAX_CT_SENDS                             *)
          MaxSends, MaxEpoch, MaxKem  (* bounds: messages, epochs, KEM identities *)

ASSUME RekeyAssumption == CtBudget \in Nat /\ MaxSends \in Nat /\ MaxEpoch \in Nat /\ MaxKem \in Nat

Sides == {"initiator", "responder"}
Other(d) == IF d = "initiator" THEN "responder" ELSE "initiator"

(* A ciphertext is known by the epoch it is for and the identity it is for.    *)
NoCt  == [tgt |-> 0, ek |-> 0]
NoOut == [tgt |-> 0, ek |-> 0, sends |-> 0, conf |-> NoChain]

(* sess: the ratchet states; epoch, out, in: kemEpoch, pendingOut, pendingIn.   *)
(* kem: the responder's KEM identity; cached: the one the initiator's device   *)
(* list shows. stored: the messages at the server, read again and again; read:    *)
(* those a side has the text of. History: lost, the keys of the messages that  *)
(* did not reach the server; burnt, epochs whose carriers were all lost.       *)
VARIABLES sess, epoch, out, in, kem, cached, stored, read, lost, burnt, pairs, sent

state == <<sess, epoch, out, in>>
rekey == <<state, kem, cached, stored, read, lost, burnt, pairs, sent>>

RekeyInit ==
  /\ sess = [d \in Sides |-> IF d = "initiator" THEN InitInitiator(1, 2, 1) ELSE InitResponder(1, 1)]
  /\ epoch = [d \in Sides |-> 0]
  /\ out = [d \in Sides |-> NoOut] /\ in = [d \in Sides |-> NoCt]
  /\ kem = 1 /\ cached = 1
  /\ stored = {} /\ read = [d \in Sides |-> {}] /\ lost = {} /\ burnt = {}
  /\ pairs = 2 /\ sent = 0

(* mixRoot binds the ciphertext, the activating key and the KEM identity used.  *)
Mix(dh, ct, ek) == {dh, -ct.tgt, -(MaxEpoch + ek)}

(* pqAnnounce: if a rekey is due, and only the initiator, one epoch at a time.  *)
Announced(d, due) ==
  IF due /\ d = "initiator" /\ out[d] = NoOut /\ epoch[d] < MaxEpoch
  THEN [NoOut EXCEPT !.tgt = epoch[d] + 1, !.ek = cached]
  ELSE out[d]

(* pqSendFields: the ciphertext travels within the budget, the confirmation as  *)
(* long as the epoch is open.                                                  *)
Carries(o) == o # NoOut /\ o.sends < CtBudget
Conf(o) == o.conf

(* _encryptForDevice: the carrier counts when it is written, not when it has    *)
(* reached the server; a POST that fails goes out in the older protocol.        *)
Send(d, due, arrives) ==
  LET o == Announced(d, due)
      m == [from |-> d, header |-> SendHeader(sess[d]), epoch |-> epoch[d], conf |-> Conf(o),
            ct |-> IF Carries(o) THEN [tgt |-> o.tgt, ek |-> o.ek] ELSE NoCt, key |-> SendKey(sess[d])]
      spent == Carries(o) /\ o.sends + 1 = CtBudget
  IN /\ sess[d].cks # NoChain /\ sent < MaxSends
     /\ sent' = sent + 1
     /\ sess' = [sess EXCEPT ![d] = AfterSend(@)]
     /\ out' = [out EXCEPT ![d] = IF Carries(o) THEN [o EXCEPT !.sends = @ + 1] ELSE o]
     /\ IF arrives THEN stored' = stored \cup {m} /\ UNCHANGED lost
                   ELSE lost' = lost \cup {m.key} /\ UNCHANGED stored
     /\ burnt' = IF spent /\ ~arrives /\ \A l \in stored : l.ct.tgt # o.tgt THEN burnt \cup {o.tgt} ELSE burnt
     /\ UNCHANGED <<epoch, in, kem, cached, read, pairs>>

(* pqReceivePrep, 0 and 1: an old ciphertext is dropped, one for the next epoch *)
(* is kept.                                                                    *)
Harvest(d, m) ==
  CASE m.ct # NoCt /\ m.ct.tgt = epoch[d] + 1 -> m.ct
    [] in[d].tgt <= epoch[d]                  -> NoCt
    [] OTHER                                  -> in[d]

(* 2: the header is an epoch ahead. What the hook would mix in, and when the    *)
(* message stays locked.                                                       *)
Advances(d, m) == m.epoch = epoch[d] + 1
MixIn(d, m) == IF Advances(d, m) THEN <<Mix(m.header.dh, Harvest(d, m), kem)>> ELSE <<>>

Locked(d, m) ==
  \/ m.epoch > epoch[d] + 1
  \/ /\ Advances(d, m)
     /\ \/ d # "responder"
        \/ m.header.dh = sess[d].dhr
        \/ Harvest(d, m).tgt # m.epoch
        \/ m.conf # NoChain /\ m.conf # sess[d].rk \o MixIn(d, m)

(* 3: an announced epoch is activated by the next own key.                     *)
Waiting(d) == out[d] # NoOut /\ out[d].conf = NoChain
MixOut(d) == IF Waiting(d) THEN <<Mix(pairs + 1, out[d], out[d].ek)>> ELSE <<>>

Trial(d, m) == Receive(sess[d], m.header, pairs + 1, MixIn(d, m), MixOut(d))
Readable(d, m) == ~Locked(d, m) /\ Trial(d, m).key = m.key
Stepped(d, m) == Trial(d, m).state.dhs = pairs + 1

(* The root that was mixed, before the sending chain was derived from it.       *)
Mixed(s) == SubSeq(s.rk, 1, Len(s.rk) - 1)

(* Slip: the next step would mix the secret in again.                          *)
Activate_Again(o, s) == o
Activate(o, s) == [o EXCEPT !.conf = Mixed(s)]

(* Slip: a reply of the epoch before counts as an echo.                        *)
Echoed_Early(d, m) == out[d] # NoOut /\ m.epoch + 1 >= out[d].tgt
(* 4: the peer echoes the epoch that is active.                                *)
Echoed(d, m) == out[d] # NoOut /\ ~Waiting(d) /\ m.epoch >= out[d].tgt

(* ratchetDecrypt: nothing is saved unless the message opens.                  *)
Read(d, m) ==
  LET s == Trial(d, m).state
      step == Stepped(d, m)
  IN /\ m.from = Other(d) /\ m \notin read[d]
     /\ Readable(d, m)
     /\ sess' = [sess EXCEPT ![d] = s]
     /\ pairs' = IF step THEN pairs + 1 ELSE pairs
     /\ read' = [read EXCEPT ![d] = @ \cup {m}]
     /\ epoch' = [epoch EXCEPT ![d] = IF step /\ Advances(d, m) THEN m.epoch
                                      ELSE IF step /\ Waiting(d) THEN out[d].tgt ELSE @]
     /\ in' = [in EXCEPT ![d] = IF step /\ Advances(d, m) THEN NoCt ELSE Harvest(d, m)]
     /\ out' = [out EXCEPT ![d] = IF Echoed(d, m) THEN NoOut
                                  ELSE IF step /\ Waiting(d) THEN Activate(@, s) ELSE @]
     /\ UNCHANGED <<kem, cached, stored, lost, burnt, sent>>

(* getOrCreateKemIdentity makes a new identity when the stored one cannot be    *)
(* opened; the initiator's list of devices shows it some time later.           *)
NewIdentity ==
  /\ kem < MaxKem /\ kem' = kem + 1
  /\ UNCHANGED <<state, cached, stored, read, lost, burnt, pairs, sent>>

Refresh ==
  /\ cached # kem /\ cached' = kem
  /\ UNCHANGED <<state, kem, stored, read, lost, burnt, pairs, sent>>

RekeyNext ==
  \/ \E d \in Sides, due, arrives \in BOOLEAN : Send(d, due, arrives)
  \/ \E d \in Sides, m \in stored : Read(d, m)
  \/ NewIdentity \/ Refresh

RekeySpec == RekeyInit /\ [][RekeyNext]_rekey

-----------------------------------------------------------------------------
RekeyTypeOK ==
  /\ \A d \in Sides : /\ epoch[d] \in 0..MaxEpoch
                      /\ out[d].tgt \in 0..MaxEpoch /\ out[d].sends \in 0..CtBudget
                      /\ in[d].tgt \in 0..MaxEpoch /\ in[d].ek \in 0..MaxKem
                      /\ read[d] \subseteq stored
  /\ cached \in 1..kem /\ kem \in 1..MaxKem

Mixes(d) == {i \in 1..Len(sess[d].rk) : \E x \in sess[d].rk[i] : x < 0}

(* pqRatchet.js, at the top: "ein pq_rekey kann den Root nie doppelt mischen",   *)
(* and the two roots never part in silence: each side has mixed one secret per   *)
(* epoch, and what the responder mixed in is what the initiator mixed in,        *)
(* whatever was lost, late or read again and whichever identity was replaced.    *)
MixedOnceAndAlike ==
  /\ \A d \in Sides : Cardinality(Mixes(d)) = epoch[d]
  /\ \A i \in Mixes("responder") :
       \E j \in Mixes("initiator") : sess["responder"].rk[i] = sess["initiator"].rk[j]

Unread(d) == {m \in stored \ read[d] : m.from = Other(d)}
Stands(d) == Unread(d) # {} /\ \A m \in Unread(d) : ~Readable(d, m)

(* The next epoch of d is out of its reach: its identity is not the one the      *)
(* ciphertext is for, no carrier arrived, or none arrived yet.                  *)
EpochBarred(d) ==
  LET e == epoch[d] + 1
      o == out[Other(d)]
  IN \/ \E l \in stored : l.ct.tgt = e /\ l.ct.ek # kem
     \/ e \in burnt
     \/ o.tgt = e /\ Carries(o)

(* More messages of a chain were lost than the receiver agrees to skip.         *)
TooManyLost == \E k \in lost : Cardinality({l \in lost : l.chain = k.chain}) > MaxSkip

(* Whatever the order in which the messages at the server are tried, those that  *)
(* stay unreadable have one of these causes ("Aktivierung ohne verfügbaren CT → *)
(* locked ... Retry via History holt den CT nach"): a KEM identity that was      *)
(* replaced, ciphertexts that never got through, or a gap longer than MAX_SKIP.  *)
UnreadHasACause ==
  \A d \in Sides : Stands(d) => TooManyLost \/ \A m \in Unread(d) : m.epoch > epoch[d] /\ EpochBarred(d)

(* pqSendFields: a failed send must not use up the budget, or a network failure  *)
(* could cost all carriers before one ciphertext reached the server. It does not *)
(* hold: the carrier is counted before the POST.                                *)
BudgetReachesServer ==
  \A d \in Sides : out[d].sends = CtBudget => \E l \in stored : l.ct.tgt = out[d].tgt
=============================================================================

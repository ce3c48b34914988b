--------------------------- MODULE V4Session_proofs ---------------------------
(***************************************************************************)
(* What is proved of the keys of a v4 session (V4Session over              *)
(* DoubleRatchet): a message key encrypts one message and decrypts it once. *)
(* And of the rekey on top of it (PqRekey): the two roots stay one line.    *)
(***************************************************************************)
EXTENDS V4Session, PqRekey, FiniteSetTheorems, SequenceTheorems, TLAPS

(***************************************************************************)
(* Ratchet states of a session of handshake h, when k key pairs exist.      *)
(***************************************************************************)
\* A chain begins with the handshake, and everything mixed in later is of key pairs that exist.
Chained(c, h, k) ==
  c \in Seq(SUBSET Nat) /\ Len(c) >= 1 /\ c[1] = {h} /\ \A j \in 2..Len(c) : c[j] \subseteq 1..k

WF(s, h, k) ==
  /\ s \in RatchetState
  /\ Chained(s.rk, h, k)
  /\ s.cks = NoChain \/ (s.cks = s.rk /\ Len(s.rk) >= 2)
  /\ s.dhs \in 1..k /\ s.dhr \in 0..k
  /\ s.ckr = NoChain \/ Chained(s.ckr, h, k)
  /\ Len(s.ckr) <= Len(s.rk)
  /\ \A e \in s.skipped : /\ Chained(e.chain, h, k) /\ Len(e.chain) <= Len(s.rk)
                          /\ e.chain = s.ckr => e.n < s.nr /\ e.dh = s.dhr
  /\ \A e, f \in s.skipped : e.chain = f.chain => e.dh = f.dh

\* State s will never derive key K again.
Gone(s, K) ==
  /\ \A e \in s.skipped : ~(e.chain = K.chain /\ e.n = K.n)
  /\ s.ckr = K.chain => K.n < s.nr
  /\ ~(Len(K.chain) = Len(s.rk) + 1 /\ \A j \in 1..Len(s.rk) : K.chain[j] = s.rk[j])

LEMMA ChainedLater ==
  ASSUME NEW c, NEW h, NEW k \in Nat, NEW l \in Nat, k <= l, Chained(c, h, k) PROVE Chained(c, h, l)
<1>1. 1..k \subseteq 1..l
  OBVIOUS
<1> QED BY <1>1 DEF Chained

LEMMA WFLater ==
  ASSUME NEW s, NEW h, NEW k \in Nat, NEW l \in Nat, k <= l, WF(s, h, k) PROVE WF(s, h, l)
<1>1. s.dhs \in 1..l /\ s.dhr \in 0..l
  BY DEF WF
<1>2. \A c : Chained(c, h, k) => Chained(c, h, l)
  BY ChainedLater
<1> QED BY <1>1, <1>2 DEF WF

\* What skipping, and a step of the ratchet, make of s.
Skips(s, t, h, k) ==
  /\ WF(t, h, k)
  /\ t.rk = s.rk /\ t.cks = s.cks /\ t.dhs = s.dhs /\ t.dhr = s.dhr /\ t.ckr = s.ckr
  /\ t.ns = s.ns /\ t.pn = s.pn /\ t.nr \in Nat /\ s.nr \in Nat /\ t.nr >= s.nr
  /\ s.skipped \subseteq t.skipped
  /\ \A e \in t.skipped \ s.skipped : e.chain = s.ckr /\ s.ckr # NoChain /\ e.n >= s.nr /\ e.n < t.nr

Turns(s, t, h, k, dh) ==
  /\ WF(t, h, k + 1)
  /\ t.dhs = k + 1 /\ t.cks = t.rk /\ t.nr = 0 /\ t.ns = 0 /\ t.skipped = s.skipped
  /\ Len(t.rk) = Len(s.rk) + 2 /\ k + 1 \in t.rk[Len(s.rk) + 2] /\ t.dhr = dh
  /\ Len(t.ckr) = Len(s.rk) + 1 /\ \A j \in 1..Len(s.rk) : t.ckr[j] = s.rk[j]

LEMMA SkipWF ==
  ASSUME NEW s, NEW h, NEW k \in Nat, WF(s, h, k), NEW until \in Nat,
         NEW t, t = SkipTo(s, until)
  PROVE  Skips(s, t, h, k)
<1>0. s \in RatchetState /\ s.nr \in Nat
  BY DEF WF, RatchetState
<1>1. CASE s.ckr = NoChain \/ until <= s.nr
  BY <1>0, <1>1 DEF SkipTo, Skips
<1>2. CASE ~(s.ckr = NoChain \/ until <= s.nr)
  <2> DEFINE new == {[dh |-> s.dhr, n |-> i, chain |-> s.ckr] : i \in s.nr..(until - 1)}
  <2>1. t = [s EXCEPT !.nr = until, !.skipped = s.skipped \cup new]
    BY <1>0, <1>2 DEF SkipTo
  <2>2. /\ t.rk = s.rk /\ t.cks = s.cks /\ t.dhs = s.dhs /\ t.dhr = s.dhr /\ t.ckr = s.ckr
        /\ t.ns = s.ns /\ t.pn = s.pn /\ t.nr = until /\ t.skipped = s.skipped \cup new
    BY <2>1, <1>0 DEF RatchetState
  <2>3. \A e \in new : /\ e.chain = s.ckr /\ e.dh = s.dhr /\ e.n \in Nat /\ e.n >= s.nr /\ e.n < until
                       /\ e \in [dh : Nat, n : Nat, chain : Chain]
    BY <1>0 DEF RatchetState
  <2>4. until > s.nr /\ Chained(s.ckr, h, k)
    BY <1>0, <1>2 DEF WF
  <2>5. t \in RatchetState
    <3>1. s.skipped \cup new \in SUBSET [dh : Nat, n : Nat, chain : Chain]
      BY <1>0, <2>3 DEF RatchetState
    <3> QED BY <1>0, <2>1, <3>1 DEF RatchetState
  <2>6. \A e \in t.skipped : /\ Chained(e.chain, h, k) /\ Len(e.chain) <= Len(t.rk)
                             /\ e.chain = t.ckr => e.n < t.nr /\ e.dh = t.dhr
    <3>1. ASSUME NEW e \in s.skipped
          PROVE  /\ Chained(e.chain, h, k) /\ Len(e.chain) <= Len(t.rk)
                 /\ e.chain = t.ckr => e.n < t.nr /\ e.dh = t.dhr
      <4>1. e.n \in Nat
        BY <1>0 DEF RatchetState
      <4> QED BY <4>1, <1>0, <2>2, <2>4 DEF WF
    <3>2. ASSUME NEW e \in new
          PROVE  /\ Chained(e.chain, h, k) /\ Len(e.chain) <= Len(t.rk)
                 /\ e.chain = t.ckr => e.n < t.nr /\ e.dh = t.dhr
      BY <2>2, <2>3, <2>4 DEF WF
    <3> QED BY <2>2, <3>1, <3>2
  <2>7. \A e, f \in t.skipped : e.chain = f.chain => e.dh = f.dh
    BY <2>2, <2>3 DEF WF
  <2>8. WF(t, h, k)
    BY <2>2, <2>5, <2>6, <2>7 DEF WF
  <2>9. \A e \in t.skipped \ s.skipped : e \in new
    BY <2>2
  <2>10. s.ckr # NoChain /\ t.nr \in Nat /\ t.nr >= s.nr
    BY <1>0, <1>2, <2>2
  <2>11. \A e \in t.skipped \ s.skipped : e.chain = s.ckr /\ e.n >= s.nr /\ e.n < t.nr
    BY <2>2, <2>3, <2>9
  <2> QED BY <1>0, <2>2, <2>8, <2>10, <2>11 DEF Skips
<1> QED BY <1>1, <1>2

LEMMA StepWF ==
  ASSUME NEW s, NEW h \in Nat, NEW k \in Nat, WF(s, h, k), NEW dh \in 1..k,
         NEW t, t = DhStep(s, dh, k + 1, <<>>, <<>>)
  PROVE  Turns(s, t, h, k, dh)
<1>0. /\ s \in RatchetState /\ s.rk \in Seq(SUBSET Nat) /\ Len(s.rk) \in Nat /\ Len(s.rk) >= 1
      /\ s.dhs \in 1..k
  BY DEF WF, RatchetState, Chain, Chained
<1> DEFINE recv == Append(s.rk, {s.dhs, dh})
           send == Append(recv, {k + 1, dh})
<1>1. s.rk \o <<>> = s.rk /\ {s.dhs, dh} \in SUBSET Nat /\ {k + 1, dh} \in SUBSET Nat
  BY <1>0
<1>2. /\ recv \in Seq(SUBSET Nat) /\ Len(recv) = Len(s.rk) + 1 /\ recv[Len(s.rk) + 1] = {s.dhs, dh}
      /\ \A j \in 1..Len(s.rk) : recv[j] = s.rk[j]
  BY <1>0, <1>1
<1>3. /\ send \in Seq(SUBSET Nat) /\ Len(send) = Len(s.rk) + 2 /\ send[Len(s.rk) + 2] = {k + 1, dh}
      /\ \A j \in 1..(Len(s.rk) + 1) : send[j] = recv[j]
  BY <1>0, <1>1, <1>2
<1>4. recv \o <<>> = recv
  BY <1>2
<1>5. t = [s EXCEPT !.pn = s.ns, !.ns = 0, !.nr = 0, !.dhr = dh, !.ckr = recv, !.dhs = k + 1, !.cks = send, !.rk = send]
  BY <1>1, <1>4 DEF DhStep, KdfRootKey, Shared
<1>6. /\ t.pn = s.ns /\ t.ns = 0 /\ t.nr = 0 /\ t.dhr = dh /\ t.ckr = recv /\ t.dhs = k + 1 /\ t.cks = send /\ t.rk = send
      /\ t.skipped = s.skipped
  BY <1>0, <1>5 DEF RatchetState
<1>7. t \in RatchetState
  <2>1. recv \in Chain /\ send \in Chain /\ s.ns \in Nat /\ k + 1 \in Nat /\ dh \in Nat
    BY <1>0, <1>2, <1>3 DEF RatchetState, Chain
  <2>2. s.skipped \in SUBSET [dh : Nat, n : Nat, chain : Chain]
    BY <1>0 DEF RatchetState
  <2>3. t = [rk |-> send, dhs |-> k + 1, dhr |-> dh, cks |-> send, ckr |-> recv, ns |-> 0, nr |-> 0, pn |-> s.ns,
             skipped |-> s.skipped]
    BY <1>0, <1>5 DEF RatchetState
  <2> HIDE DEF recv, send
  <2> QED BY <2>1, <2>2, <2>3 DEF RatchetState
<1>8. Chained(recv, h, k) /\ Chained(recv, h, k + 1)
  <2>1. recv[1] = {h}
    BY <1>0, <1>2 DEF WF, Chained
  <2>2. \A j \in 2..Len(recv) : recv[j] \subseteq 1..k
    <3> SUFFICES ASSUME NEW j \in 2..Len(recv) PROVE recv[j] \subseteq 1..k
      OBVIOUS
    <3>1. CASE j = Len(s.rk) + 1
      BY <1>0, <1>2, <3>1
    <3>2. CASE j \in 2..Len(s.rk)
      BY <1>0, <1>2, <3>2 DEF WF, Chained
    <3> QED BY <1>0, <1>2, <3>1, <3>2
  <2>3. Chained(recv, h, k)
    BY <1>0, <1>2, <2>1, <2>2 DEF Chained
  <2> QED BY <2>3, ChainedLater
<1>9. Chained(send, h, k + 1)
  <2>1. send[1] = {h}
    BY <1>0, <1>3, <1>8 DEF Chained
  <2>2. \A j \in 2..Len(send) : send[j] \subseteq 1..(k + 1)
    <3> SUFFICES ASSUME NEW j \in 2..Len(send) PROVE send[j] \subseteq 1..(k + 1)
      OBVIOUS
    <3>1. CASE j = Len(s.rk) + 2
      BY <1>0, <1>3, <3>1
    <3>2. CASE j \in 2..Len(recv)
      BY <1>0, <1>2, <1>3, <1>8, <3>2 DEF Chained
    <3> QED BY <1>0, <1>2, <1>3, <3>1, <3>2
  <2> QED BY <1>0, <1>3, <2>1, <2>2 DEF Chained
<1>10. \A e \in t.skipped : Chained(e.chain, h, k + 1) /\ Len(e.chain) <= Len(s.rk) /\ e.chain # recv
  <2>1. \A e \in s.skipped : Chained(e.chain, h, k) /\ Len(e.chain) <= Len(s.rk) /\ Len(e.chain) \in Nat
    BY DEF WF, Chained
  <2> QED BY <1>0, <1>2, <1>6, <2>1, ChainedLater
<1>11. \A e \in t.skipped : Len(e.chain) <= Len(t.rk)
  <2>1. \A e \in t.skipped : Len(e.chain) \in Nat
    BY <1>10 DEF Chained
  <2> QED BY <1>0, <1>3, <1>6, <1>10, <2>1
<1>12. WF(t, h, k + 1)
  <2>1. t.dhs \in 1..(k + 1) /\ t.dhr \in 0..(k + 1) /\ Len(t.ckr) <= Len(t.rk) /\ Len(t.rk) >= 2
    <3>1. t.dhs = k + 1 /\ t.dhr = dh /\ t.ckr = recv /\ t.rk = send
      BY <1>6
    <3>2. Len(recv) = Len(s.rk) + 1 /\ Len(send) = Len(s.rk) + 2 /\ Len(s.rk) \in Nat
      BY <1>0, <1>2, <1>3
    <3> HIDE DEF recv, send
    <3> QED BY <3>1, <3>2
  <2>2. \A e, f \in t.skipped : e.chain = f.chain => e.dh = f.dh
    BY <1>6 DEF WF
  <2> QED BY <1>6, <1>7, <1>8, <1>9, <1>10, <1>11, <2>1, <2>2 DEF WF
<1> QED BY <1>0, <1>2, <1>3, <1>6, <1>12 DEF Turns

\* A chain into which the next key pair was mixed last.
Fresh(c, k) == Len(c) >= 2 /\ k + 1 \in c[Len(c)]

LEMMA FreshIsNew ==
  ASSUME NEW c, NEW h, NEW k \in Nat, Chained(c, h, k), Fresh(c, k) PROVE FALSE
<1>1. Len(c) \in 2..Len(c)
  BY DEF Chained, Fresh
<1>2. c[Len(c)] \subseteq 1..k
  BY <1>1 DEF Chained
<1> QED BY <1>2 DEF Fresh

LEMMA SkipGone ==
  ASSUME NEW s, NEW h, NEW k \in Nat, WF(s, h, k), NEW until \in Nat, NEW t, t = SkipTo(s, until),
         NEW K, K.n \in Nat, Gone(s, K)
  PROVE  Gone(t, K)
<1>1. /\ t.rk = s.rk /\ t.ckr = s.ckr /\ t.nr \in Nat /\ s.nr \in Nat /\ t.nr >= s.nr
      /\ \A e \in t.skipped \ s.skipped : e.chain = s.ckr /\ s.ckr # NoChain /\ e.n >= s.nr /\ e.n < t.nr
  <2>1. Skips(s, t, h, k)
    BY SkipWF
  <2> QED BY <2>1 DEF Skips
<1>2. \A e \in t.skipped : ~(e.chain = K.chain /\ e.n = K.n)
  <2> SUFFICES ASSUME NEW e \in t.skipped, e.chain = K.chain, e.n = K.n PROVE FALSE
    OBVIOUS
  <2>1. CASE e \in s.skipped
    BY <2>1 DEF Gone
  <2>2. CASE e \notin s.skipped
    <3>1. e.chain = s.ckr /\ e.n >= s.nr
      BY <1>1, <2>2
    <3> QED BY <1>1, <3>1 DEF Gone
  <2> QED BY <2>1, <2>2
<1>3. t.ckr = K.chain => K.n < t.nr
  BY <1>1 DEF Gone
<1> QED BY <1>1, <1>2, <1>3 DEF Gone

LEMMA StepGone ==
  ASSUME NEW s, NEW h \in Nat, NEW k \in Nat, WF(s, h, k), NEW dh \in 1..k,
         NEW t, t = DhStep(s, dh, k + 1, <<>>, <<>>),
         NEW K, NEW g, Chained(K.chain, g, k), Gone(s, K)
  PROVE  Gone(t, K) /\ t.ckr # K.chain
<1>0. Len(s.rk) \in Nat /\ Len(s.rk) >= 1
  BY DEF WF, Chained
<1>1. /\ t.skipped = s.skipped /\ Len(t.rk) = Len(s.rk) + 2 /\ k + 1 \in t.rk[Len(s.rk) + 2]
      /\ Len(t.ckr) = Len(s.rk) + 1 /\ \A j \in 1..Len(s.rk) : t.ckr[j] = s.rk[j]
  <2>1. Turns(s, t, h, k, dh)
    BY StepWF
  <2> QED BY <2>1 DEF Turns
<1>2. t.ckr # K.chain
  BY <1>1 DEF Gone
<1>3. ~(Len(K.chain) = Len(t.rk) + 1 /\ \A j \in 1..Len(t.rk) : K.chain[j] = t.rk[j])
  <2> SUFFICES ASSUME Len(K.chain) = Len(t.rk) + 1, \A j \in 1..Len(t.rk) : K.chain[j] = t.rk[j] PROVE FALSE
    OBVIOUS
  <2>1. Len(s.rk) + 2 \in 1..Len(t.rk) /\ Len(s.rk) + 2 \in 2..Len(K.chain)
    <3>1. Len(t.rk) = Len(s.rk) + 2 /\ Len(K.chain) = Len(s.rk) + 3
      BY <1>0, <1>1
    <3>2. \A n \in Nat : n + 2 \in 1..(n + 2) /\ n + 2 \in 2..(n + 3)
      OBVIOUS
    <3> QED BY <1>0, <3>1, <3>2
  <2>2. k + 1 \in K.chain[Len(s.rk) + 2] /\ K.chain[Len(s.rk) + 2] \subseteq 1..k
    <3>1. k + 1 \in K.chain[Len(s.rk) + 2]
      BY <1>1, <2>1
    <3>2. \A j \in 2..Len(K.chain) : K.chain[j] \subseteq 1..k
      BY DEF Chained
    <3> QED BY <2>1, <3>1, <3>2
  <2>3. k + 1 \notin 1..k
    OBVIOUS
  <2> QED BY <2>2, <2>3
<1> QED BY <1>1, <1>2, <1>3 DEF Gone

\* What becomes of s when it yields key K and becomes t: it loses no key for good.
Yields(s, t, h, k, K) ==
  /\ WF(t, h, k) /\ t.cks = s.cks /\ t.ns = s.ns /\ t.dhs = s.dhs
  /\ K.chain[1] = {h} /\ Gone(t, K)
  /\ \A J : J.n \in Nat /\ Gone(s, J) => Gone(t, J) /\ J # K

\* The next key of the receiving chain.
LEMMA TakeWF ==
  ASSUME NEW s, NEW h \in Nat, NEW k \in Nat, WF(s, h, k), s.ckr # NoChain
  PROVE  Yields(s, [s EXCEPT !.nr = @ + 1], h, k, [chain |-> s.ckr, n |-> s.nr])
<1> DEFINE t == [s EXCEPT !.nr = @ + 1]
           K == [chain |-> s.ckr, n |-> s.nr]
<1>0. /\ s \in RatchetState /\ s.nr \in Nat /\ Chained(s.ckr, h, k) /\ Len(s.ckr) <= Len(s.rk) /\ Len(s.rk) \in Nat
      /\ Len(s.ckr) \in Nat
  BY DEF WF, RatchetState, Chained
<1>1. /\ t.rk = s.rk /\ t.cks = s.cks /\ t.dhs = s.dhs /\ t.dhr = s.dhr /\ t.ckr = s.ckr
      /\ t.ns = s.ns /\ t.nr = s.nr + 1 /\ t.skipped = s.skipped /\ t \in RatchetState
  BY <1>0 DEF RatchetState
<1>2. \A e \in s.skipped : e.n \in Nat
  BY <1>0 DEF RatchetState
<1>3. WF(t, h, k)
  <2>1. \A e \in t.skipped : /\ Chained(e.chain, h, k) /\ Len(e.chain) <= Len(t.rk)
                             /\ e.chain = t.ckr => e.n < t.nr /\ e.dh = t.dhr
    BY <1>0, <1>1, <1>2 DEF WF
  <2> QED BY <1>0, <1>1, <2>1 DEF WF
<1>4. Gone(t, K)
  <2>1. \A e \in t.skipped : ~(e.chain = s.ckr /\ e.n = s.nr)
    BY <1>0, <1>1, <1>2 DEF WF
  <2>2. s.nr < t.nr /\ ~(Len(s.ckr) = Len(t.rk) + 1)
    BY <1>0, <1>1
  <2> QED BY <2>1, <2>2 DEF Gone
<1>5. ASSUME NEW J, J.n \in Nat, Gone(s, J) PROVE Gone(t, J) /\ J # K
  <2>1. t.ckr = J.chain => J.n < s.nr
    BY <1>1, <1>5 DEF Gone
  <2> QED BY <1>0, <1>1, <1>5, <2>1 DEF Gone
<1>6. K.chain[1] = {h}
  BY <1>0 DEF Chained
<1> QED BY <1>1, <1>3, <1>4, <1>5, <1>6 DEF Yields

\* A skipped key.
LEMMA UseWF ==
  ASSUME NEW s, NEW h \in Nat, NEW k \in Nat, WF(s, h, k), NEW e \in s.skipped
  PROVE  Yields(s, UseUp(s, e), h, k, [chain |-> e.chain, n |-> e.n])
<1> DEFINE t == UseUp(s, e)
           K == [chain |-> e.chain, n |-> e.n]
<1>0. /\ s \in RatchetState /\ s.skipped \subseteq [dh : Nat, n : Nat, chain : Chain] /\ s.nr \in Nat
      /\ Chained(e.chain, h, k) /\ Len(e.chain) <= Len(s.rk) /\ Len(s.rk) \in Nat /\ Len(e.chain) \in Nat
  <2>1. s \in RatchetState /\ Chained(e.chain, h, k) /\ Len(e.chain) <= Len(s.rk) /\ Chained(s.rk, h, k)
    BY DEF WF
  <2>2. s.skipped \subseteq [dh : Nat, n : Nat, chain : Chain] /\ s.nr \in Nat
    BY <2>1 DEF RatchetState
  <2> QED BY <2>1, <2>2 DEF Chained
<1>1. /\ t.rk = s.rk /\ t.cks = s.cks /\ t.dhs = s.dhs /\ t.dhr = s.dhr /\ t.ckr = s.ckr
      /\ t.ns = s.ns /\ t.nr = s.nr /\ t.skipped = s.skipped \ {e} /\ t \in RatchetState
  BY <1>0 DEF RatchetState, UseUp
<1>3. WF(t, h, k)
  BY <1>1 DEF WF
<1>4. Gone(t, K)
  <2>1. ASSUME NEW f \in t.skipped, f.chain = e.chain, f.n = e.n PROVE FALSE
    <3>1. f.dh = e.dh /\ f \in [dh : Nat, n : Nat, chain : Chain] /\ e \in [dh : Nat, n : Nat, chain : Chain] /\ f # e
      BY <1>0, <1>1, <2>1 DEF WF
    <3> QED BY <2>1, <3>1
  <2>2. t.ckr = e.chain => e.n < t.nr
    BY <1>1 DEF WF
  <2>3. ~(Len(e.chain) = Len(t.rk) + 1)
    BY <1>0, <1>1
  <2> QED BY <2>1, <2>2, <2>3 DEF Gone
<1>5. ASSUME NEW J, J.n \in Nat, Gone(s, J) PROVE Gone(t, J) /\ J # K
  BY <1>1, <1>5 DEF Gone
<1>6. K.chain[1] = {h}
  BY <1>0 DEF Chained
<1> QED BY <1>1, <1>3, <1>4, <1>5, <1>6 DEF Yields

\* Receiving, when a key came of it.
Received(s, R, h, k) ==
  /\ \/ WF(R.state, h, k) /\ R.state.cks = s.cks /\ R.state.ns = s.ns
     \/ WF(R.state, h, k + 1) /\ R.state.dhs = k + 1 /\ Fresh(R.state.cks, k) /\ R.state.ns = 0
  /\ R.key.chain[1] = {h} /\ Gone(R.state, R.key)
  /\ \A J, g : J.n \in Nat /\ Chained(J.chain, g, k) /\ Gone(s, J) => Gone(R.state, J) /\ J # R.key

LEMMA ReceiveWF ==
  ASSUME NEW s, NEW h \in Nat, NEW k \in Nat, WF(s, h, k),
         NEW hdr \in Header, hdr.dh \in 1..k,
         NEW R, R = Receive(s, hdr, k + 1, <<>>, <<>>), R.key.chain # NoChain
  PROVE  Received(s, R, h, k)
<1>0. hdr.n \in Nat /\ hdr.pn \in Nat /\ k + 1 \in Nat
  BY DEF Header
<1>1. CASE Cached(s, hdr) # {}
  <2>1. PICK e \in s.skipped : R = [key |-> [chain |-> e.chain, n |-> e.n], state |-> UseUp(s, e)]
    BY <1>1 DEF Receive, Cached
  <2>2. Yields(s, R.state, h, k, R.key)
    BY <2>1, UseWF
  <2> QED BY <2>2 DEF Yields, Received
<1>2. CASE Cached(s, hdr) = {} /\ hdr.dh = s.dhr
  <2> DEFINE t == SkipTo(s, hdr.n)
  <2>1. ~SkipFails(s, hdr.n)
    BY <1>2 DEF Receive, NoKey
  <2>2. R = [key |-> [chain |-> t.ckr, n |-> t.nr], state |-> [t EXCEPT !.nr = @ + 1]]
    BY <1>2, <2>1 DEF Receive
  <2>3. Skips(s, t, h, k)
    BY <1>0, SkipWF
  <2> HIDE DEF t
  <2>4. WF(t, h, k) /\ t.cks = s.cks /\ t.ns = s.ns /\ t.ckr # NoChain
    BY <2>2, <2>3 DEF Skips
  <2>5. Yields(t, R.state, h, k, R.key)
    BY <2>2, <2>4, TakeWF
  <2>6. \A J : J.n \in Nat /\ Gone(s, J) => Gone(t, J)
    BY <1>0, SkipGone DEF t
  <2> QED BY <2>4, <2>5, <2>6 DEF Yields, Received
<1>3. CASE Cached(s, hdr) = {} /\ hdr.dh # s.dhr
  <2> DEFINE s0 == SkipTo(s, hdr.pn)
             s1 == DhStep(s0, hdr.dh, k + 1, <<>>, <<>>)
             t  == SkipTo(s1, hdr.n)
  <2>1. ~SkipFails(s, hdr.pn) /\ ~SkipFails(s1, hdr.n)
    BY <1>3 DEF Receive, NoKey
  <2>2. R = [key |-> [chain |-> t.ckr, n |-> t.nr], state |-> [t EXCEPT !.nr = @ + 1]]
    BY <1>3, <2>1 DEF Receive
  <2>3. Skips(s, s0, h, k)
    BY <1>0, SkipWF
  <2>3b. WF(s0, h, k)
    BY <2>3 DEF Skips
  <2>4. Turns(s0, s1, h, k, hdr.dh)
    BY <1>0, <2>3b, StepWF
  <2>4b. WF(s1, h, k + 1)
    BY <2>4 DEF Turns
  <2>5. Skips(s1, t, h, k + 1)
    BY <1>0, <2>4b, SkipWF
  <2>6. \A J : J.n \in Nat /\ Gone(s, J) => Gone(s0, J)
    BY <1>0, SkipGone
  <2>7. \A J, g : Chained(J.chain, g, k) /\ Gone(s0, J) => Gone(s1, J)
    <3> SUFFICES ASSUME NEW J, NEW g, Chained(J.chain, g, k), Gone(s0, J) PROVE Gone(s1, J)
      OBVIOUS
    <3>1. hdr.dh \in 1..k
      BY <1>0
    <3> QED BY <2>3b, <3>1, StepGone
  <2>8. \A J : J.n \in Nat /\ Gone(s1, J) => Gone(t, J)
    <3> SUFFICES ASSUME NEW J, J.n \in Nat, Gone(s1, J) PROVE Gone(t, J)
      OBVIOUS
    <3> HIDE DEF s0, s1
    <3> QED BY <1>0, <2>4b, SkipGone
  <2> HIDE DEF s0, s1, t
  <2>9. WF(t, h, k + 1) /\ t.cks = s1.cks /\ t.ns = s1.ns /\ t.dhs = s1.dhs /\ t.ckr # NoChain
    BY <2>2, <2>5 DEF Skips
  <2>10. Yields(t, R.state, h, k + 1, R.key)
    BY <1>0, <2>2, <2>9, TakeWF
  <2>11. R.state.dhs = k + 1 /\ R.state.ns = 0 /\ R.state.cks = s1.cks /\ WF(R.state, h, k + 1)
    BY <2>4, <2>9, <2>10 DEF Yields, Turns
  <2>12. Fresh(s1.cks, k)
    <3>1. Len(s0.rk) \in Nat /\ Len(s0.rk) >= 1
      BY <2>3b DEF WF, Chained
    <3> QED BY <2>4, <3>1 DEF Turns, Fresh
  <2> QED BY <2>6, <2>7, <2>8, <2>10, <2>11, <2>12 DEF Yields, Received
<1> QED BY <1>1, <1>2, <1>3

-----------------------------------------------------------------------------
(* The invariant *)

Recs == [role : {"initiator", "responder"}, hs : Nat, peerSeen : BOOLEAN, alive : Nat, state : RatchetState]
Steps == [kind : {"encrypt", "decrypt", "accept", "first"}, rec : {None} \cup Recs, msg : Nat]
Msgs == [from : Dev, header : Header, key : Key, init : Nat]
Used(d) == texts[d] \cup shown[d]

Typed ==
  /\ keys \in Nat /\ Dev \subseteq 1..keys
  /\ hs \in Seq([by : Dev, opk : BOOLEAN]) /\ Len(hs) <= MaxHs
  /\ accepts \in [Dev -> [1..MaxHs -> Nat]]
  /\ rec \in [Dev -> {None} \cup Recs]
  /\ op \in [Dev -> {None} \cup Steps]
  /\ outbox \in [Dev -> SUBSET Msgs]
  /\ log \in Seq(Msgs)
  /\ texts \in [Dev -> SUBSET (1..Len(log))] /\ shown \in [Dev -> SUBSET (1..Len(log))]
  /\ DOMAIN hyb = Dev
  /\ DOMAIN prime = Dev /\ \A d \in Dev : DOMAIN prime[d] = Primer
  /\ left \in [msgs : Nat, resets : Nat, crashes : Nat, shadows : Nat, opk : SUBSET BOOLEAN]

\* Handshakes that device d began.
Own(d, h) == h \in 1..Len(hs) /\ hs[h].by = d

Begun ==
  \A d \in Dev :
    /\ hyb[d] # None /\ hyb[d].role = "initiator" => Own(d, hyb[d].hs)
    /\ \A p \in Primer : prime[d][p].pc = "save" => Own(d, prime[d][p].hs)

\* The session records that may still be used: the stored one and the copy that
\* the encryption or decryption in progress works on.
Live(d, r) ==
  \/ rec[d] # None /\ r = rec[d]
  \/ op[d] # None /\ r = op[d].rec /\ (r # None \/ op[d].kind = "first")

GoodRec(d, r) ==
  /\ r \in Recs /\ r.hs \in 1..Len(hs) /\ WF(r.state, r.hs, keys)
  /\ r.role = "initiator" => hs[r.hs].by = d
  /\ r.role = "responder" => accepts[d][r.hs] >= 1

GoodMsg(d, m) ==
  /\ m.from = d /\ m.header.dh \in 1..keys
  /\ Len(m.key.chain) >= 2 /\ \E g \in 1..Len(hs) : Chained(m.key.chain, g, keys)
  /\ m.init # 0 => Own(d, m.init)

GoodOp(d) ==
  op[d] # None =>
    /\ op[d].kind = "encrypt" => op[d].rec # None /\ op[d].rec.state.cks # NoChain
    /\ op[d].kind # "encrypt" => op[d].msg \in 1..Len(log) /\ log[op[d].msg].from = Peer(d)
    /\ op[d].kind = "accept" =>
         LET h == log[op[d].msg].init
         IN /\ h # 0 /\ accepts[d][h] >= 1
            /\ accepts[d][h] <= 1 => \A i \in Used(d) : log[i].key.chain[1] # {h}

Good ==
  /\ \A d \in Dev : \A r : Live(d, r) => GoodRec(d, r)
  /\ \A d \in Dev : \A m \in outbox[d] : GoodMsg(d, m)
  /\ \A i \in 1..Len(log) : GoodMsg(log[i].from, log[i])

\* The chains with which device d sends or has sent.
SentBy(d, m) == m \in outbox[d] \/ (m.from = d /\ \E i \in 1..Len(log) : log[i] = m)
Sends(d, c) ==
  \/ \E r : Live(d, r) /\ r.state.cks = c /\ c # NoChain
  \/ \E m : SentBy(d, m) /\ m.key.chain = c

Apart ==
  /\ \A d, e \in Dev : \A c : Sends(d, c) /\ Sends(e, c) => d = e
  /\ \A d \in Dev : \A r, m :
       Live(d, r) /\ SentBy(d, m) /\ r.state.cks = m.key.chain => m.key.n < r.state.ns
  /\ \A d \in Dev : \A m, n \in outbox[d] : m.key = n.key => m = n
  /\ \A d \in Dev : \A m \in outbox[d] : \A i \in 1..Len(log) : log[i].key # m.key
  /\ NoKeyReuse

\* What was decrypted cannot be decrypted again, and a handshake whose messages d
\* has read is its own or one it accepted.
Once ==
  \A d \in Dev : \A i \in Used(d) :
    /\ \A h \in 1..Len(hs) : log[i].key.chain[1] = {h} => hs[h].by = d \/ accepts[d][h] >= 1
    /\ \A r : Live(d, r) /\ accepts[d][r.hs] <= 1 => Gone(r.state, log[i].key)

Inv == Typed /\ Begun /\ (\A d \in Dev : GoodOp(d)) /\ Good /\ Apart /\ Once

\* How often a handshake was accepted is a number.
LEMMA AcceptsCount == ASSUME Inv PROVE \A d \in Dev : \A h \in 1..MaxHs : accepts[d][h] \in Nat
<1>1. accepts \in [Dev -> [1..MaxHs -> Nat]]
  BY DEF Inv, Typed
<1> QED BY <1>1

\* The handshakes are finitely many and known by their number.
LEMMA HandshakesAreCounted ==
  ASSUME Inv PROVE Len(hs) \in Nat /\ Len(hs) <= MaxHs /\ hs \in Seq([by : Dev, opk : BOOLEAN])
<1> DEFINE H == [by : Dev, opk : BOOLEAN]
<1>1. hs \in Seq(H) /\ Len(hs) <= MaxHs
  BY DEF Inv, Typed
<1> HIDE DEF H
<1>2. Len(hs) \in Nat
  BY <1>1
<1> QED BY <1>1, <1>2 DEF H

LEMMA PeerIsOther == \A d \in Dev : Peer(d) \in Dev /\ Peer(d) # d
BY DevAssumption DEF Peer

LEMMA InvInit == Init => Inv
<1> SUFFICES ASSUME Init PROVE Inv
  OBVIOUS
<1>1. keys \in Nat /\ Dev \subseteq 1..keys
  <2>1. PICK a, b \in Dev : Dev = {a, b}
    BY DevAssumption
  <2>2. a \in Nat \ {0} /\ b \in Nat \ {0}
    BY DevAssumption
  <2>3. \E m \in Dev : \A d \in Dev : d <= m
    <3>1. CASE a <= b
      BY <2>1, <2>2, <3>1
    <3>2. CASE b <= a
      BY <2>1, <2>2, <3>2
    <3> QED BY <2>2, <3>1, <3>2
  <2>4. keys \in Dev /\ \A d \in Dev : d <= keys
    BY <2>3 DEF Init
  <2> QED BY <2>4, DevAssumption
<1>2. Typed
  <2>1. hs = <<>> /\ log = <<>> /\ Len(hs) = 0 /\ Len(log) = 0 /\ 0 <= MaxHs
    BY DevAssumption DEF Init
  <2>2. left \in [msgs : Nat, resets : Nat, crashes : Nat, shadows : Nat, opk : SUBSET BOOLEAN]
    BY DevAssumption DEF Init
  <2>3. hs \in Seq([by : Dev, opk : BOOLEAN]) /\ log \in Seq(Msgs)
    BY <2>1
  <2>4. accepts \in [Dev -> [1..MaxHs -> Nat]]
    BY DEF Init
  <2> QED BY <1>1, <2>1, <2>2, <2>3, <2>4 DEF Init, Typed
<1>3. /\ \A d \in Dev : op[d] = None /\ outbox[d] = {} /\ Used(d) = {} /\ hyb[d] = None
      /\ \A d \in Dev : \A r : ~Live(d, r)
      /\ Len(log) = 0
      /\ \A d \in Dev : \A p \in Primer : prime[d][p].pc = "idle"
  BY DEF Init, Live, Used, IdlePrime
<1>4. \A d \in Dev : \A c : ~Sends(d, c)
  BY <1>3 DEF Sends, SentBy
<1>5. Apart
  BY <1>3, <1>4 DEF Apart, SentBy, NoKeyReuse
<1> QED BY <1>2, <1>3, <1>5 DEF Inv, Begun, GoodOp, Good, Once

-----------------------------------------------------------------------------
(* What keeps the invariant *)

\* Messages that exist carry chains of key pairs that exist.
LEMMA SendsOld ==
  ASSUME Inv, NEW d \in Dev, NEW c, Sends(d, c) PROVE ~Fresh(c, keys)
<1>0. keys \in Nat
  BY DEF Inv, Typed
<1>1. CASE \E r : Live(d, r) /\ r.state.cks = c /\ c # NoChain
  <2>1. PICK r : Live(d, r) /\ r.state.cks = c /\ c # NoChain
    BY <1>1
  <2>2. WF(r.state, r.hs, keys)
    BY <2>1 DEF Inv, Good, GoodRec
  <2>3. Chained(c, r.hs, keys)
    BY <2>1, <2>2 DEF WF
  <2> QED BY <1>0, <2>3, FreshIsNew
<1>2. CASE \E m : SentBy(d, m) /\ m.key.chain = c
  <2>1. PICK m : SentBy(d, m) /\ m.key.chain = c
    BY <1>2
  <2>2. GoodMsg(d, m)
    BY <2>1 DEF Inv, Good, SentBy
  <2>3. PICK g \in 1..Len(hs) : Chained(c, g, keys)
    BY <2>1, <2>2 DEF GoodMsg
  <2> QED BY <1>0, <2>3, FreshIsNew
<1> QED BY <1>1, <1>2 DEF Sends

\* Nothing is gained: no record, no message, no key.
Less ==
  /\ keys' = keys /\ log' = log
  /\ Len(hs) <= Len(hs') /\ \A h \in 1..Len(hs) : hs'[h] = hs[h]
  /\ \A d \in Dev : outbox'[d] \subseteq outbox[d] /\ Used(d)' \subseteq Used(d)
  /\ \A d \in Dev : \A h \in 1..MaxHs : accepts[d][h] <= accepts'[d][h]
  /\ \A d \in Dev : \A r : Live(d, r)' => Live(d, r)

LEMMA LessKeeps ==
  ASSUME Inv, Typed', Less PROVE Good' /\ Apart' /\ Once'
<1>0. /\ Len(hs) \in Nat /\ Len(hs') \in Nat /\ Len(log) \in Nat /\ keys \in Nat /\ MaxHs \in Nat
      /\ Len(hs) <= MaxHs /\ Len(hs') <= MaxHs /\ 1..Len(hs) \subseteq 1..Len(hs') /\ 1..Len(hs) \subseteq 1..MaxHs
      /\ \A d \in Dev : \A h \in 1..MaxHs : accepts[d][h] \in Nat /\ accepts'[d][h] \in Nat
  <2>1. Len(hs) \in Nat /\ Len(hs') \in Nat /\ Len(log) \in Nat /\ keys \in Nat /\ MaxHs \in Nat
    <3> DEFINE H == [by : Dev, opk : BOOLEAN]
    <3>1. hs \in Seq(H) /\ hs' \in Seq(H) /\ log \in Seq(Msgs) /\ keys \in Nat
      BY DEF Inv, Typed
    <3> HIDE DEF H
    <3> QED BY <3>1, DevAssumption
  <2>2. Len(hs) <= MaxHs /\ Len(hs') <= MaxHs /\ Len(hs) <= Len(hs')
    BY DEF Inv, Typed, Less
  <2>3. \A d \in Dev : \A h \in 1..MaxHs : accepts[d][h] \in Nat /\ accepts'[d][h] \in Nat
    <3>1. accepts \in [Dev -> [1..MaxHs -> Nat]] /\ accepts' \in [Dev -> [1..MaxHs -> Nat]]
      BY DEF Inv, Typed
    <3> QED BY <3>1
  <2> QED BY <2>1, <2>2, <2>3
<1>1. ASSUME NEW d \in Dev, NEW m, GoodMsg(d, m) PROVE GoodMsg(d, m)'
  BY <1>0, <1>1 DEF GoodMsg, Own, Less
<1>2. ASSUME NEW d \in Dev, NEW r, Live(d, r)' PROVE GoodRec(d, r)'
  <2>1. GoodRec(d, r)
    BY <1>2 DEF Less, Inv, Good
  <2>2. /\ r \in Recs /\ r.hs \in 1..Len(hs') /\ WF(r.state, r.hs, keys')
        /\ r.role = "initiator" => hs'[r.hs].by = d
    BY <1>0, <2>1 DEF GoodRec, Less
  <2>3. accepts[d][r.hs] <= accepts'[d][r.hs] /\ accepts[d][r.hs] \in Nat /\ accepts'[d][r.hs] \in Nat
    BY <1>0, <2>1 DEF GoodRec, Less
  <2>4. r.role = "responder" => accepts'[d][r.hs] >= 1
    BY <2>1, <2>3 DEF GoodRec
  <2> QED BY <2>2, <2>4 DEF GoodRec
<1>3. Good'
  <2>1. \A i \in 1..Len(log) : log[i].from \in Dev /\ GoodMsg(log[i].from, log[i])
    <3>1. \A i \in 1..Len(log) : log[i] \in Msgs
      BY DEF Inv, Typed
    <3> QED BY <3>1 DEF Inv, Good, Msgs
  <2>2. \A d \in Dev : \A m \in outbox'[d] : GoodMsg(d, m)
    BY DEF Inv, Good, Less
  <2> QED BY <1>1, <1>2, <2>1, <2>2 DEF Good, Less
<1>4. \A d \in Dev : \A m : SentBy(d, m)' => SentBy(d, m)
  BY DEF SentBy, Less
<1>5. \A d \in Dev : \A c : Sends(d, c)' => Sends(d, c)
  <2> SUFFICES ASSUME NEW d \in Dev, NEW c, Sends(d, c)' PROVE Sends(d, c)
    OBVIOUS
  <2>1. CASE \E r : Live(d, r)' /\ r.state.cks = c /\ c # NoChain
    BY <2>1 DEF Sends, Less
  <2>2. CASE \E m : SentBy(d, m)' /\ m.key.chain = c
    BY <1>4, <2>2 DEF Sends
  <2> QED BY <2>1, <2>2 DEF Sends
<1>6. Apart'
  <2>1. \A d, e \in Dev : \A c : (Sends(d, c) /\ Sends(e, c))' => d = e
    BY <1>5 DEF Inv, Apart
  <2>2. ASSUME NEW d \in Dev, NEW r, NEW m, Live(d, r)', SentBy(d, m)', r.state.cks = m.key.chain
        PROVE  m.key.n < r.state.ns
    BY <1>4, <2>2 DEF Inv, Apart, Less
  <2>3. \A d \in Dev : \A m, n \in outbox'[d] : m.key = n.key => m = n
    BY DEF Inv, Apart, Less
  <2>4. \A d \in Dev : \A m \in outbox'[d] : \A i \in 1..Len(log) : log[i].key # m.key
    BY DEF Inv, Apart, Less
  <2>5. NoKeyReuse'
    BY DEF Inv, Apart, Less, NoKeyReuse
  <2> QED BY <2>1, <2>2, <2>3, <2>4, <2>5 DEF Apart, Less
<1>7. Once'
  <2> SUFFICES ASSUME NEW d \in Dev, NEW i \in Used(d)'
               PROVE  /\ \A h \in 1..Len(hs') : log'[i].key.chain[1] = {h} => hs'[h].by = d \/ accepts'[d][h] >= 1
                      /\ \A r : Live(d, r)' /\ accepts'[d][r.hs] <= 1 => Gone(r.state, log'[i].key)
    BY DEF Once
  <2>0. i \in Used(d) /\ i \in 1..Len(log) /\ log'[i] = log[i]
    BY DEF Less, Inv, Typed, Used
  <2>1. ASSUME NEW h \in 1..Len(hs'), log[i].key.chain[1] = {h} PROVE hs'[h].by = d \/ accepts'[d][h] >= 1
    <3>1. PICK g \in 1..Len(hs) : Chained(log[i].key.chain, g, keys)
      BY <2>0 DEF Inv, Good, GoodMsg
    <3>2. h \in 1..Len(hs)
      BY <2>1, <3>1 DEF Chained
    <3>3. hs[h].by = d \/ accepts[d][h] >= 1
      BY <2>0, <2>1, <3>2 DEF Inv, Once
    <3>4. hs'[h] = hs[h] /\ accepts[d][h] <= accepts'[d][h] /\ accepts[d][h] \in Nat /\ accepts'[d][h] \in Nat
      BY <1>0, <3>2 DEF Less
    <3> QED BY <3>3, <3>4
  <2>2. ASSUME NEW r, Live(d, r)', accepts'[d][r.hs] <= 1 PROVE Gone(r.state, log[i].key)
    <3>1. Live(d, r) /\ r.hs \in 1..MaxHs
      BY <1>0, <2>2 DEF Less, Inv, Good, GoodRec
    <3>2. accepts[d][r.hs] <= 1
      <4>1. accepts[d][r.hs] <= accepts'[d][r.hs] /\ accepts[d][r.hs] \in Nat /\ accepts'[d][r.hs] \in Nat
        BY <1>0, <3>1 DEF Less
      <4> QED BY <2>2, <4>1
    <3> QED BY <2>0, <3>1, <3>2 DEF Inv, Once
  <2> QED BY <2>0, <2>1, <2>2
<1> QED BY <1>3, <1>6, <1>7

\* Device d comes to hold record x.
Gains(d, x) ==
  /\ log' = log /\ outbox' = outbox /\ hs' = hs /\ accepts' = accepts /\ keys' \in {keys, keys + 1}
  /\ \A e \in Dev : \A r : Live(e, r)' => Live(e, r) \/ (e = d /\ r = x)
  /\ GoodRec(d, x)'
  /\ \/ x.state.cks = NoChain
     \/ Fresh(x.state.cks, keys)
     \/ \E r : Live(d, r) /\ r.state.cks = x.state.cks /\ r.state.ns = x.state.ns

LEMMA GainKeeps ==
  ASSUME Inv, Typed', NEW d \in Dev, NEW x, Gains(d, x) PROVE Good' /\ Apart'
<1>0. keys \in Nat /\ keys' \in Nat /\ keys <= keys' /\ 1..keys \subseteq 1..keys'
  BY DEF Inv, Typed, Gains
<1>1. ASSUME NEW e \in Dev, NEW m, GoodMsg(e, m) PROVE GoodMsg(e, m)'
  <2>1. PICK g \in 1..Len(hs) : Chained(m.key.chain, g, keys)
    BY <1>1 DEF GoodMsg
  <2>2. Chained(m.key.chain, g, keys')
    BY <1>0, <2>1, ChainedLater
  <2> QED BY <1>0, <1>1, <2>2 DEF GoodMsg, Own, Gains
<1>2. ASSUME NEW e \in Dev, NEW r, Live(e, r)' PROVE GoodRec(e, r)'
  <2>1. CASE Live(e, r)
    <3>1. GoodRec(e, r)
      BY <2>1 DEF Inv, Good
    <3>2. WF(r.state, r.hs, keys')
      BY <1>0, <3>1, WFLater DEF GoodRec
    <3> QED BY <3>1, <3>2 DEF GoodRec, Gains
  <2> QED BY <1>2, <2>1 DEF Gains
<1>3. Good'
  <2>1. \A i \in 1..Len(log) : log[i].from \in Dev /\ GoodMsg(log[i].from, log[i])
    <3>1. \A i \in 1..Len(log) : log[i] \in Msgs
      BY DEF Inv, Typed
    <3> QED BY <3>1 DEF Inv, Good, Msgs
  <2>2. \A e \in Dev : \A m \in outbox[e] : GoodMsg(e, m)
    BY DEF Inv, Good
  <2> QED BY <1>1, <1>2, <2>1, <2>2 DEF Good, Gains
<1>4. \A e \in Dev : \A m : SentBy(e, m)' <=> SentBy(e, m)
  BY DEF SentBy, Gains
<1>5. \A e \in Dev : \A c : Sends(e, c)' => Sends(e, c) \/ (e = d /\ Fresh(c, keys))
  <2> SUFFICES ASSUME NEW e \in Dev, NEW c, Sends(e, c)' PROVE Sends(e, c) \/ (e = d /\ Fresh(c, keys))
    OBVIOUS
  <2>1. CASE \E r : Live(e, r)' /\ r.state.cks = c /\ c # NoChain
    BY <2>1 DEF Sends, Gains
  <2>2. CASE \E m : SentBy(e, m)' /\ m.key.chain = c
    BY <1>4, <2>2 DEF Sends
  <2> QED BY <2>1, <2>2 DEF Sends
<1>6. Apart'
  <2>1. \A e, f \in Dev : \A c : (Sends(e, c) /\ Sends(f, c))' => e = f
    BY <1>5, SendsOld DEF Inv, Apart
  <2>2. ASSUME NEW e \in Dev, NEW r, NEW m, Live(e, r)', SentBy(e, m)', r.state.cks = m.key.chain
        PROVE  m.key.n < r.state.ns
    <3>1. SentBy(e, m) /\ Sends(e, m.key.chain)
      BY <1>4, <2>2 DEF Sends
    <3>2. CASE Live(e, r)
      BY <2>2, <3>1, <3>2 DEF Inv, Apart
    <3>3. CASE e = d /\ r = x
      <4>1. ~Fresh(x.state.cks, keys)
        BY <2>2, <3>1, <3>3, SendsOld
      <4>2. x.state.cks # NoChain
        <5>1. GoodMsg(e, m)
          BY <3>1 DEF Inv, Good, SentBy
        <5>2. Len(m.key.chain) >= 2 /\ Len(NoChain) = 0
          BY <5>1 DEF GoodMsg, NoChain
        <5> QED BY <2>2, <3>3, <5>2
      <4>3. PICK y : Live(d, y) /\ y.state.cks = x.state.cks /\ y.state.ns = x.state.ns
        BY <4>1, <4>2 DEF Gains
      <4> QED BY <2>2, <3>1, <3>3, <4>3 DEF Inv, Apart
    <3> QED BY <2>2, <3>2, <3>3 DEF Gains
  <2>3. /\ \A e \in Dev : \A m, n \in outbox'[e] : m.key = n.key => m = n
        /\ \A e \in Dev : \A m \in outbox'[e] : \A i \in 1..Len(log) : log[i].key # m.key
        /\ NoKeyReuse'
    BY DEF Inv, Apart, Gains, NoKeyReuse
  <2> QED BY <2>1, <2>2, <2>3 DEF Apart, Gains
<1> QED BY <1>3, <1>6

LEMMA OpKept ==
  ASSUME Inv, NEW d \in Dev, op'[d] = op[d] \/ op'[d] = None, Len(log) <= Len(log') /\ Len(log') \in Nat,
         \A i \in 1..Len(log) : log'[i] = log[i], accepts'[d] = accepts[d], Used(d)' \subseteq Used(d)
  PROVE  GoodOp(d)'
<1>0. Len(log) \in Nat /\ Used(d) \subseteq 1..Len(log)
  BY DEF Inv, Typed, Used
<1>1. CASE op'[d] = None
  BY <1>1 DEF GoodOp
<1>2. CASE op'[d] = op[d] /\ op[d] # None
  <2>1. GoodOp(d)
    BY DEF Inv
  <2>2. op[d].kind # "encrypt" => op[d].msg \in 1..Len(log') /\ log'[op[d].msg] = log[op[d].msg]
    BY <1>0, <1>2, <2>1 DEF GoodOp
  <2>3. \A i \in Used(d)' : log'[i] = log[i] /\ i \in Used(d)
    BY <1>0
  <2> QED BY <1>2, <2>1, <2>2, <2>3 DEF GoodOp
<1> QED BY <1>1, <1>2

-----------------------------------------------------------------------------
(* Steps that touch no session record: priming up to its save, the shadow, the *)
(* second half of a reset.                                                     *)

Still ==
  /\ UNCHANGED <<rec, accepts, texts, shown, op, outbox, log, keys>>
  /\ Len(hs) <= Len(hs') /\ \A h \in 1..Len(hs) : hs'[h] = hs[h]
  /\ hs' \in Seq([by : Dev, opk : BOOLEAN]) /\ Len(hs') <= MaxHs
  /\ DOMAIN hyb' = Dev /\ DOMAIN prime' = Dev /\ \A d \in Dev : DOMAIN prime'[d] = Primer
  /\ left' \in [msgs : Nat, resets : Nat, crashes : Nat, shadows : Nat, opk : SUBSET BOOLEAN]
  /\ Begun'

LEMMA StillKeeps == ASSUME Inv, Still PROVE Inv'
<1>1. Typed'
  BY DEF Inv, Typed, Still
<1>2. Less
  <2>1. \A d \in Dev : \A h \in 1..MaxHs : accepts[d][h] <= accepts'[d][h]
    <3>1. \A d \in Dev : \A h \in 1..MaxHs : accepts[d][h] \in Nat
      BY AcceptsCount
    <3> QED BY <3>1 DEF Still
  <2>2. \A d \in Dev : \A r : Live(d, r)' => Live(d, r)
    BY DEF Still, Live
  <2> QED BY <2>1, <2>2 DEF Less, Still, Used
<1>3. \A d \in Dev : GoodOp(d)'
  <2>1. Len(log) \in Nat
    BY DEF Inv, Typed
  <2> QED BY <2>1, OpKept DEF Still, Used
<1> QED BY <1>1, <1>2, <1>3, LessKeeps DEF Inv, Still

\* A handshake of one's own stays one.
LEMMA OwnKept ==
  ASSUME NEW d, NEW h, Own(d, h), Len(hs) \in Nat, Len(hs') \in Nat, Len(hs) <= Len(hs'),
         \A g \in 1..Len(hs) : hs'[g] = hs[g]
  PROVE  Own(d, h)'
BY DEF Own

LEMMA PrimeBeginKeeps == ASSUME Inv, NEW d \in Dev, NEW p \in Primer, PrimeBegin(d, p) PROVE Inv'
<1>1. /\ UNCHANGED <<rec, hyb, accepts, texts, shown, op, outbox, log, hs, keys, left>>
      /\ DOMAIN prime' = Dev /\ \A e \in Dev : DOMAIN prime'[e] = Primer
  BY DEF PrimeBegin, records, shadows, Inv, Typed
<1>2. \A e \in Dev : \A q \in Primer : prime'[e][q] = prime[e][q] \/ (e = d /\ q = p)
  <2>1. PICK v : prime' = [prime EXCEPT ![d][p] = v]
    BY DEF PrimeBegin
  <2> QED BY <2>1 DEF Inv, Typed
<1>3. prime'[d][p].pc = "save" => Own(d, prime'[d][p].hs)
  <2> SUFFICES ASSUME prime'[d][p].pc = "save" PROVE Own(d, prime'[d][p].hs)
    OBVIOUS
  <2>1. prime'[d][p] = [pc |-> "save", hs |-> hyb[d].hs, on |-> None] /\ hyb[d] # None /\ hyb[d].role = "initiator"
    BY DEF PrimeBegin, Reusable, IdlePrime, Inv, Typed
  <2> QED BY <2>1 DEF Inv, Begun
<1>4. Begun'
  BY <1>1, <1>2, <1>3 DEF Inv, Begun, Own
<1>5. Still
  BY <1>1, <1>4 DEF Inv, Typed, Still
<1> QED BY <1>5, StillKeeps

LEMMA PrimeFetchedKeeps == ASSUME Inv, NEW d \in Dev, NEW p \in Primer, PrimeFetched(d, p) PROVE Inv'
<1>0. Len(hs) \in Nat /\ hs \in Seq([by : Dev, opk : BOOLEAN]) /\ Len(hs) + 1 <= MaxHs
  BY DEF Inv, Typed, PrimeFetched
<1>g. PICK g \in Nat : g = Len(hs) + 1
  BY <1>0
<1>1. PICK opk \in left.opk : hs' = Append(hs, [by |-> d, opk |-> opk])
  BY DEF PrimeFetched
<1>2. opk \in BOOLEAN
  BY DEF Inv, Typed
<1>3. /\ hs' \in Seq([by : Dev, opk : BOOLEAN]) /\ Len(hs') = Len(hs) + 1 /\ hs'[g].by = d
      /\ \A h \in 1..Len(hs) : hs'[h] = hs[h]
  BY <1>0, <1>g, <1>1, <1>2
<1>4. Own(d, g)'
  BY <1>0, <1>g, <1>3 DEF Own
<1>5. \A e \in Dev : \A h : Own(e, h) => Own(e, h)'
  BY <1>0, <1>3, OwnKept
<1>6. /\ UNCHANGED <<rec, accepts, texts, shown, op, outbox, log, keys, left>>
      /\ hyb' = [hyb EXCEPT ![d] = Persist(d, [role |-> "initiator", hs |-> g])]
      /\ prime' = [prime EXCEPT ![d] = [q \in Primer |-> IF q = p \/ (@[q].pc = "join" /\ @[q].on = p)
                                                         THEN [pc |-> "save", hs |-> g, on |-> None] ELSE @[q]]]
  BY <1>g DEF PrimeFetched, EndFetch, shadows
<1>7. DOMAIN hyb' = Dev /\ DOMAIN prime' = Dev /\ \A e \in Dev : DOMAIN prime'[e] = Primer
  BY <1>6 DEF Inv, Typed
<1>8. Begun'
  <2>1. \A e \in Dev : hyb'[e] = hyb[e] \/ (e = d /\ hyb'[e] = [role |-> "initiator", hs |-> g])
    BY <1>6 DEF Persist, Inv, Typed
  <2>2. \A e \in Dev : \A q \in Primer :
          prime'[e][q] = prime[e][q] \/ (e = d /\ prime'[e][q] = [pc |-> "save", hs |-> g, on |-> None])
    BY <1>6 DEF Inv, Typed
  <2>3. \A e \in Dev : hyb'[e] # None /\ hyb'[e].role = "initiator" => Own(e, hyb[e].hs)'
    BY <1>4, <1>5, <2>1 DEF Inv, Begun
  <2>4. \A e \in Dev : \A q \in Primer : prime'[e][q].pc = "save" => Own(e, prime[e][q].hs)'
    BY <1>4, <1>5, <2>2 DEF Inv, Begun
  <2> QED BY <2>3, <2>4 DEF Begun
<1>9. Still
  BY <1>0, <1>3, <1>6, <1>7, <1>8 DEF Inv, Typed, Still
<1> QED BY <1>9, StillKeeps

LEMMA PrimeFailedKeeps == ASSUME Inv, NEW d \in Dev, NEW p \in Primer, PrimeFailed(d, p) PROVE Inv'
<1>1. /\ UNCHANGED <<rec, hyb, accepts, texts, shown, op, outbox, log, hs, keys, left>>
      /\ prime' = [prime EXCEPT ![d] = [q \in Primer |-> IF q = p \/ (@[q].pc = "join" /\ @[q].on = p)
                                                         THEN IdlePrime ELSE @[q]]]
  BY DEF PrimeFailed, EndFetch, records, shadows
<1>2. DOMAIN prime' = Dev /\ \A e \in Dev : DOMAIN prime'[e] = Primer
  BY <1>1 DEF Inv, Typed
<1>3. \A e \in Dev : \A q \in Primer : prime'[e][q] = prime[e][q] \/ prime'[e][q].pc = "idle"
  BY <1>1 DEF Inv, Typed, IdlePrime
<1>4. Begun'
  BY <1>1, <1>3 DEF Inv, Begun, Own
<1>5. Still
  BY <1>1, <1>2, <1>4 DEF Inv, Typed, Still
<1> QED BY <1>5, StillKeeps

LEMMA ShadowKeeps ==
  ASSUME Inv, NEW d \in Dev, ShadowSend(d) \/ (\E h \in legacy[d] : ShadowConsume(d, h)) \/ ShadowSave(d)
  PROVE  Inv'
<1>1. UNCHANGED <<rec, accepts, texts, shown, op, outbox, log, hs, keys>>
  BY DEF ShadowSend, ShadowConsume, ShadowSave, activity
<1>2. left' \in [msgs : Nat, resets : Nat, crashes : Nat, shadows : Nat, opk : SUBSET BOOLEAN]
  <2>1. left \in [msgs : Nat, resets : Nat, crashes : Nat, shadows : Nat, opk : SUBSET BOOLEAN]
    BY DEF Inv, Typed
  <2>2. left' = left \/ (left.shadows > 0 /\ left' = [left EXCEPT !.shadows = @ - 1])
    BY DEF ShadowSend, ShadowConsume, ShadowSave
  <2> QED BY <2>1, <2>2
<1>3. /\ DOMAIN prime' = Dev /\ \A e \in Dev : DOMAIN prime'[e] = Primer
      /\ \A e \in Dev : \A q \in Primer : prime'[e][q] = prime[e][q] \/ prime'[e][q].pc = "asked"
  <2>1. prime' = prime \/ \E v : v.pc = "asked" /\ prime' = [prime EXCEPT ![d]["shadow"] = v]
    BY DEF ShadowSend, ShadowConsume, ShadowSave, activity, IdlePrime
  <2>2. "shadow" \in Primer /\ DOMAIN prime = Dev /\ \A e \in Dev : DOMAIN prime[e] = Primer
    BY DEF Inv, Typed, Primer
  <2>3. ASSUME NEW v, v.pc = "asked", prime' = [prime EXCEPT ![d]["shadow"] = v]
        PROVE  /\ DOMAIN prime' = Dev /\ \A e \in Dev : DOMAIN prime'[e] = Primer
               /\ \A e \in Dev : \A q \in Primer : prime'[e][q] = prime[e][q] \/ prime'[e][q].pc = "asked"
    BY <2>2, <2>3
  <2> QED BY <2>1, <2>2, <2>3
<1>4. /\ DOMAIN hyb' = Dev
      /\ \A e \in Dev : hyb'[e] = hyb[e] \/ hyb'[e].role = "responder"
  BY DEF ShadowSend, ShadowConsume, ShadowSave, activity, Persist, Inv, Typed
<1>5. Begun'
  BY <1>1, <1>3, <1>4 DEF Inv, Begun, Own
<1>6. Len(hs) \in Nat /\ Len(hs) <= MaxHs /\ hs \in Seq([by : Dev, opk : BOOLEAN])
  BY HandshakesAreCounted
<1>7. Len(hs) <= Len(hs') /\ Len(hs') <= MaxHs /\ hs' \in Seq([by : Dev, opk : BOOLEAN]) /\ \A h \in 1..Len(hs) : hs'[h] = hs[h]
  BY <1>1, <1>6
<1>8. Still
  BY <1>1, <1>2, <1>3, <1>4, <1>5, <1>7 DEF Still
<1> QED BY <1>8, StillKeeps

LEMMA ResetEndKeeps == ASSUME Inv, NEW d \in Dev, ResetEnd(d) PROVE Inv'
<1>1. /\ UNCHANGED <<rec, accepts, texts, shown, op, outbox, log, hs, keys, left>>
      /\ DOMAIN prime' = Dev /\ \A e \in Dev : DOMAIN prime'[e] = Primer
      /\ \A e \in Dev : \A q \in Primer : prime'[e][q] = prime[e][q] \/ prime'[e][q].pc = "asked"
      /\ DOMAIN hyb' = Dev
      /\ \A e \in Dev : hyb'[e] = hyb[e] \/ hyb'[e] = None
  BY DEF ResetEnd, shadows, IdlePrime, Inv, Typed
<1>2. Begun'
  BY <1>1 DEF Inv, Begun, Own
<1>3. Len(hs) \in Nat /\ Len(hs) <= MaxHs /\ hs \in Seq([by : Dev, opk : BOOLEAN])
  BY HandshakesAreCounted
<1>4. Len(hs) <= Len(hs') /\ Len(hs') <= MaxHs /\ hs' \in Seq([by : Dev, opk : BOOLEAN]) /\ \A h \in 1..Len(hs) : hs'[h] = hs[h]
  BY <1>1, <1>3
<1>5. left' \in [msgs : Nat, resets : Nat, crashes : Nat, shadows : Nat, opk : SUBSET BOOLEAN]
  BY <1>1 DEF Inv, Typed
<1>6. Still
  BY <1>1, <1>2, <1>4, <1>5 DEF Still
<1> QED BY <1>6, StillKeeps

-----------------------------------------------------------------------------
(* Steps that gain nothing *)

LEMMA LessInv ==
  ASSUME Inv, Typed', Less, UNCHANGED <<hyb, prime, hs>>, \A d \in Dev : GoodOp(d)' PROVE Inv'
<1>1. Begun'
  BY DEF Inv, Begun, Own
<1> QED BY <1>1, LessKeeps DEF Inv

\* Device d begins something with the stored record.
LEMMA BeginKeeps ==
  ASSUME Inv, NEW d \in Dev, EncryptBegin(d) \/ \E i \in 1..Len(log) : DecryptBegin(d, i) PROVE Inv'
<1>0. Len(log) \in Nat /\ rec[d] \in {None} \cup Recs
  BY DEF Inv, Typed
<1>1. UNCHANGED <<rec, hyb, accepts, texts, shown, prime, outbox, log, hs, keys>>
  BY DEF EncryptBegin, DecryptBegin, records, shadows
<1>2. PICK x \in Steps : /\ op' = [op EXCEPT ![d] = x] /\ x.rec = rec[d] /\ x.kind \in {"encrypt", "decrypt"}
                         /\ x.kind = "encrypt" => rec[d] # None /\ rec[d].state.cks # NoChain
                         /\ x.kind = "decrypt" => x.msg \in 1..Len(log) /\ log[x.msg].from = Peer(d)
  <2>1. CASE EncryptBegin(d)
    <3>1. [kind |-> "encrypt", rec |-> rec[d], msg |-> 0] \in Steps
      BY <1>0 DEF Steps
    <3> QED BY <2>1, <3>1 DEF EncryptBegin, Usable
  <2>2. ASSUME NEW i \in 1..Len(log), DecryptBegin(d, i)
        PROVE  [kind |-> "decrypt", rec |-> rec[d], msg |-> i] \in Steps
    BY <1>0, <2>2 DEF Steps
  <2>3. CASE \E i \in 1..Len(log) : DecryptBegin(d, i)
    BY <2>2, <2>3 DEF DecryptBegin
  <2> QED BY <2>1, <2>3
<1>3. left' \in [msgs : Nat, resets : Nat, crashes : Nat, shadows : Nat, opk : SUBSET BOOLEAN]
  <2>1. left \in [msgs : Nat, resets : Nat, crashes : Nat, shadows : Nat, opk : SUBSET BOOLEAN]
    BY DEF Inv, Typed
  <2>2. left' = left \/ (left.msgs > 0 /\ left' = [left EXCEPT !.msgs = @ - 1])
    BY DEF EncryptBegin, DecryptBegin
  <2> QED BY <2>1, <2>2
<1>4. \A e \in Dev : op'[e] = IF e = d THEN x ELSE op[e]
  BY <1>2 DEF Inv, Typed
<1>5. Typed'
  <2>1. op' \in [Dev -> {None} \cup Steps]
    BY <1>2 DEF Inv, Typed
  <2> QED BY <1>1, <1>3, <2>1 DEF Inv, Typed
<1>6. Less
  <2>1. \A e \in Dev : \A r : Live(e, r)' => Live(e, r)
    BY <1>1, <1>2, <1>4 DEF Live
  <2>2. \A e \in Dev : \A h \in 1..MaxHs : accepts[e][h] <= accepts'[e][h]
    <3>1. \A e \in Dev : \A h \in 1..MaxHs : accepts[e][h] \in Nat
      BY AcceptsCount
    <3> QED BY <1>1, <3>1
  <2>3. Len(hs) \in Nat
    BY DEF Inv, Typed
  <2> QED BY <1>1, <2>1, <2>2, <2>3 DEF Less, Used
<1>7. \A e \in Dev : GoodOp(e)'
  <2> SUFFICES ASSUME NEW e \in Dev PROVE GoodOp(e)'
    OBVIOUS
  <2>1. CASE e = d
    BY <1>1, <1>2, <1>4, <2>1 DEF GoodOp
  <2>2. CASE e # d
    BY <1>0, <1>1, <1>4, <2>2, OpKept DEF Used
  <2> QED BY <2>1, <2>2
<1> QED BY <1>1, <1>5, <1>6, <1>7, LessInv

\* Device d ends what it does and writes nothing.
LEMMA EndKeeps ==
  ASSUME Inv, NEW d \in Dev,
         \/ DecryptGiveUp(d)
         \/ FirstRead(d) /\ op' = [op EXCEPT ![d] = None] /\ UNCHANGED <<rec, keys, shown>>
  PROVE  Inv'
<1>1. UNCHANGED <<rec, hyb, accepts, texts, shown, prime, outbox, log, hs, keys, left>>
  BY DEF DecryptGiveUp, FirstRead, records, shadows
<1>2. op' = [op EXCEPT ![d] = None]
  BY DEF DecryptGiveUp
<1>3. Typed' /\ \A e \in Dev : op'[e] = IF e = d THEN None ELSE op[e]
  BY <1>1, <1>2 DEF Inv, Typed
<1>4. Less
  <2>1. \A e \in Dev : \A r : Live(e, r)' => Live(e, r)
    BY <1>1, <1>3 DEF Live
  <2>2. \A e \in Dev : \A h \in 1..MaxHs : accepts[e][h] <= accepts'[e][h]
    <3>1. \A e \in Dev : \A h \in 1..MaxHs : accepts[e][h] \in Nat
      BY AcceptsCount
    <3> QED BY <1>1, <3>1
  <2>3. Len(hs) \in Nat
    BY DEF Inv, Typed
  <2> QED BY <1>1, <2>1, <2>2, <2>3 DEF Less, Used
<1>5. \A e \in Dev : GoodOp(e)'
  <2>1. Len(log) \in Nat
    BY DEF Inv, Typed
  <2> QED BY <1>1, <1>3, <2>1, OpKept DEF Used
<1> QED BY <1>1, <1>3, <1>4, <1>5, LessInv

LEMMA StoreTextKeeps == ASSUME Inv, NEW d \in Dev, NEW i \in 1..Len(log), StoreText(d, i) PROVE Inv'
<1>1. /\ UNCHANGED <<rec, hyb, accepts, op, prime, outbox, log, hs, keys, left>>
      /\ i \in shown[d] /\ texts' = [texts EXCEPT ![d] = @ \cup {i}] /\ shown' = [shown EXCEPT ![d] = @ \ {i}]
  BY DEF StoreText
<1>2. Typed' /\ \A e \in Dev : Used(e)' \subseteq Used(e)
  <2>1. texts' \in [Dev -> SUBSET (1..Len(log))] /\ shown' \in [Dev -> SUBSET (1..Len(log))]
    BY <1>1 DEF Inv, Typed
  <2>2. \A e \in Dev : Used(e)' \subseteq Used(e)
    BY <1>1 DEF Inv, Typed, Used
  <2> QED BY <1>1, <2>1, <2>2 DEF Inv, Typed
<1>3. Less
  <2>1. \A e \in Dev : \A r : Live(e, r)' => Live(e, r)
    BY <1>1 DEF Live
  <2>2. \A e \in Dev : \A h \in 1..MaxHs : accepts[e][h] <= accepts'[e][h]
    <3>1. \A e \in Dev : \A h \in 1..MaxHs : accepts[e][h] \in Nat
      BY AcceptsCount
    <3> QED BY <1>1, <3>1
  <2>3. Len(hs) \in Nat
    BY DEF Inv, Typed
  <2> QED BY <1>1, <1>2, <2>1, <2>2, <2>3 DEF Less
<1>4. \A e \in Dev : GoodOp(e)'
  <2>1. Len(log) \in Nat
    BY DEF Inv, Typed
  <2> QED BY <1>1, <1>2, <2>1, OpKept
<1> QED BY <1>1, <1>2, <1>3, <1>4, LessInv

LEMMA ResetBeginKeeps == ASSUME Inv, NEW d \in Dev, ResetBegin(d) PROVE Inv'
<1>1. /\ UNCHANGED <<hyb, accepts, texts, shown, op, prime, outbox, log, hs, keys>>
      /\ rec' = [rec EXCEPT ![d] = None] /\ left.resets > 0 /\ left' = [left EXCEPT !.resets = @ - 1]
  BY DEF ResetBegin, shadows
<1>2. left' \in [msgs : Nat, resets : Nat, crashes : Nat, shadows : Nat, opk : SUBSET BOOLEAN]
  <2>1. left \in [msgs : Nat, resets : Nat, crashes : Nat, shadows : Nat, opk : SUBSET BOOLEAN]
    BY DEF Inv, Typed
  <2> QED BY <1>1, <2>1
<1>3. Typed' /\ \A e \in Dev : rec'[e] = IF e = d THEN None ELSE rec[e]
  BY <1>1, <1>2 DEF Inv, Typed
<1>4. Less
  <2>1. \A e \in Dev : \A r : Live(e, r)' => Live(e, r)
    BY <1>1, <1>3 DEF Live
  <2>2. \A e \in Dev : \A h \in 1..MaxHs : accepts[e][h] <= accepts'[e][h]
    <3>1. \A e \in Dev : \A h \in 1..MaxHs : accepts[e][h] \in Nat
      BY AcceptsCount
    <3> QED BY <1>1, <3>1
  <2>3. Len(hs) \in Nat
    BY DEF Inv, Typed
  <2> QED BY <1>1, <2>1, <2>2, <2>3 DEF Less, Used
<1>5. \A e \in Dev : GoodOp(e)'
  <2>1. Len(log) \in Nat
    BY DEF Inv, Typed
  <2> QED BY <1>1, <2>1, OpKept DEF Used
<1> QED BY <1>1, <1>3, <1>4, <1>5, LessInv

LEMMA CrashKeeps == ASSUME Inv, NEW d \in Dev, Crash(d) PROVE Inv'
<1>1. /\ UNCHANGED <<rec, hyb, accepts, texts, log, hs, keys>>
      /\ op' = [op EXCEPT ![d] = None] /\ shown' = [shown EXCEPT ![d] = {}] /\ outbox' = [outbox EXCEPT ![d] = {}]
      /\ prime' = [prime EXCEPT ![d] = [p \in Primer |-> IdlePrime]]
      /\ left.crashes > 0 /\ left' = [left EXCEPT !.crashes = @ - 1]
  BY DEF Crash
<1>2. left' \in [msgs : Nat, resets : Nat, crashes : Nat, shadows : Nat, opk : SUBSET BOOLEAN]
  <2>1. left \in [msgs : Nat, resets : Nat, crashes : Nat, shadows : Nat, opk : SUBSET BOOLEAN]
    BY DEF Inv, Typed
  <2> QED BY <1>1, <2>1
<1>3. /\ \A e \in Dev : op'[e] = (IF e = d THEN None ELSE op[e]) /\ outbox'[e] \subseteq outbox[e]
      /\ \A e \in Dev : Used(e)' \subseteq Used(e)
      /\ \A e \in Dev : \A p \in Primer : prime'[e][p] = prime[e][p] \/ prime'[e][p].pc = "idle"
  BY <1>1 DEF Inv, Typed, Used, IdlePrime
<1>4. Typed'
  <2>1. op' \in [Dev -> {None} \cup Steps] /\ outbox' \in [Dev -> SUBSET Msgs]
        /\ shown' \in [Dev -> SUBSET (1..Len(log))]
    BY <1>1 DEF Inv, Typed
  <2>2. DOMAIN prime' = Dev /\ \A e \in Dev : DOMAIN prime'[e] = Primer
    BY <1>1 DEF Inv, Typed
  <2> QED BY <1>1, <1>2, <2>1, <2>2 DEF Inv, Typed
<1>5. Less
  <2>1. \A e \in Dev : \A r : Live(e, r)' => Live(e, r)
    BY <1>1, <1>3 DEF Live
  <2>2. \A e \in Dev : \A h \in 1..MaxHs : accepts[e][h] <= accepts'[e][h]
    <3>1. \A e \in Dev : \A h \in 1..MaxHs : accepts[e][h] \in Nat
      BY AcceptsCount
    <3> QED BY <1>1, <3>1
  <2>3. Len(hs) \in Nat
    BY DEF Inv, Typed
  <2> QED BY <1>1, <1>3, <2>1, <2>2, <2>3 DEF Less
<1>6. \A e \in Dev : GoodOp(e)'
  <2>1. Len(log) \in Nat
    BY DEF Inv, Typed
  <2> QED BY <1>1, <1>3, <2>1, OpKept
<1>7. Begun'
  BY <1>1, <1>3 DEF Inv, Begun, Own
<1> QED BY <1>4, <1>5, <1>6, <1>7, LessKeeps DEF Inv

LEMMA Bump ==
  ASSUME NEW S, NEW f \in [S -> Nat], NEW x \in S, NEW g, g = [f EXCEPT ![x] = f[x] + 1]
  PROVE  g \in [S -> Nat] /\ g[x] = f[x] + 1 /\ f[x] \in Nat /\ \A y \in S : f[y] <= g[y]
<1>1. \A y \in S : f[y] \in Nat
  OBVIOUS
<1>2. g[x] = f[x] + 1 /\ \A y \in S : y # x => g[y] = f[y]
  OBVIOUS
<1>3. \A y \in S : f[y] <= g[y]
  BY <1>1, <1>2
<1>4. f[x] + 1 \in Nat
  BY <1>1
<1> QED BY <1>1, <1>2, <1>3, <1>4

\* The OPK is consumed: from here on no message of that handshake was read before.
LEMMA ConsumeKeeps == ASSUME Inv, NEW d \in Dev, DecryptConsume(d) PROVE Inv'
<1> DEFINE j == op[d].msg
<1>h. PICK h : h = log[j].init
  OBVIOUS
<1>0. /\ op[d] # None /\ op[d].kind = "decrypt" /\ op[d] \in Steps /\ j \in 1..Len(log) /\ log[j].from = Peer(d)
      /\ Len(log) \in Nat
  BY DEF DecryptConsume, Deciding, Inv, GoodOp, Typed
<1>1. /\ UNCHANGED <<rec, hyb, texts, shown, prime, outbox, log, hs, keys, left>>
      /\ accepts' = [accepts EXCEPT ![d][h] = @ + 1] /\ op' = [op EXCEPT ![d].kind = "accept"]
  BY <1>h DEF DecryptConsume, shadows
<1>2. h # 0
  BY <1>h DEF DecryptConsume, WantsAccept, Adopts
<1>3. h \in 1..Len(hs) /\ hs[h].by = Peer(d) /\ Peer(d) # d /\ h \in 1..MaxHs
  <2>1. GoodMsg(Peer(d), log[j])
    BY <1>0 DEF Inv, Good
  <2>2. h \in 1..Len(hs) /\ hs[h].by = Peer(d)
    BY <1>h, <1>2, <2>1 DEF GoodMsg, Own
  <2>3. Len(hs) \in Nat /\ Len(hs) <= MaxHs /\ MaxHs \in Nat
    BY DevAssumption DEF Inv, Typed
  <2> QED BY <2>2, <2>3, PeerIsOther
<1>4. /\ accepts' \in [Dev -> [1..MaxHs -> Nat]] /\ accepts'[d][h] = accepts[d][h] + 1 /\ accepts[d][h] \in Nat
      /\ \A e \in Dev : e # d => accepts'[e] = accepts[e]
      /\ \A e \in Dev : \A g \in 1..MaxHs : accepts[e][g] <= accepts'[e][g]
  <2>1. accepts \in [Dev -> [1..MaxHs -> Nat]]
    BY DEF Inv, Typed
  <2>2. PICK old \in [1..MaxHs -> Nat] : old = accepts[d]
    BY <2>1
  <2>3. PICK row : row = [old EXCEPT ![h] = old[h] + 1]
    OBVIOUS
  <2>4. row \in [1..MaxHs -> Nat] /\ row[h] = old[h] + 1 /\ old[h] \in Nat /\ \A g \in 1..MaxHs : old[g] <= row[g]
    BY <1>3, <2>3, Bump
  <2>5. accepts' = [accepts EXCEPT ![d] = row]
    BY <1>1, <2>2, <2>3
  <2>6. accepts' \in [Dev -> [1..MaxHs -> Nat]] /\ accepts'[d] = row /\ \A e \in Dev : e # d => accepts'[e] = accepts[e]
    BY <2>1, <2>4, <2>5
  <2>7. \A e \in Dev : \A g \in 1..MaxHs : accepts[e][g] <= accepts'[e][g]
    <3>1. \A e \in Dev : \A g \in 1..MaxHs : accepts[e][g] \in Nat
      BY <2>1
    <3> SUFFICES ASSUME NEW e \in Dev, NEW g \in 1..MaxHs PROVE accepts[e][g] <= accepts'[e][g]
      OBVIOUS
    <3>2. CASE e = d
      BY <2>2, <2>4, <2>6, <3>2
    <3>3. CASE e # d
      BY <2>6, <3>1, <3>3
    <3> QED BY <3>2, <3>3
  <2> QED BY <2>2, <2>4, <2>6, <2>7
<1>5. PICK x \in Steps : x.kind = "accept" /\ x.rec = op[d].rec /\ x.msg = j /\ op' = [op EXCEPT ![d] = x]
  <2>1. [op[d] EXCEPT !.kind = "accept"] \in Steps
    BY <1>0 DEF Steps
  <2>2. op' = [op EXCEPT ![d] = [op[d] EXCEPT !.kind = "accept"]]
    BY <1>1 DEF Inv, Typed
  <2> QED BY <1>0, <2>1, <2>2 DEF Steps
<1>6. \A e \in Dev : op'[e] = IF e = d THEN x ELSE op[e]
  BY <1>5 DEF Inv, Typed
<1>7. Typed'
  <2>1. op' \in [Dev -> {None} \cup Steps]
    BY <1>5 DEF Inv, Typed
  <2> QED BY <1>1, <1>4, <2>1 DEF Inv, Typed
<1>8. Less
  <2>1. \A e \in Dev : \A r : Live(e, r)' => Live(e, r)
    BY <1>0, <1>1, <1>5, <1>6 DEF Live
  <2>3. Len(hs) \in Nat
    BY DEF Inv, Typed
  <2> QED BY <1>1, <1>4, <2>1, <2>3 DEF Less, Used
<1>9. GoodOp(d)'
  <2>1. ASSUME accepts'[d][h] <= 1, NEW i \in Used(d), log[i].key.chain[1] = {h} PROVE FALSE
    <3>1. accepts[d][h] = 0
      BY <1>4, <2>1
    <3> QED BY <1>3, <2>1, <3>1 DEF Inv, Once
  <2>2. accepts'[d][h] >= 1 /\ Used(d)' = Used(d)
    BY <1>1, <1>4 DEF Used
  <2> QED BY <1>h, <1>0, <1>1, <1>2, <1>5, <1>6, <2>1, <2>2 DEF GoodOp
<1>10. \A e \in Dev : GoodOp(e)'
  <2> SUFFICES ASSUME NEW e \in Dev, e # d PROVE GoodOp(e)'
    BY <1>9
  <2> QED BY <1>0, <1>1, <1>4, <1>6, OpKept DEF Used
<1> QED BY <1>1, <1>7, <1>8, <1>10, LessInv

-----------------------------------------------------------------------------
(* Steps that gain something *)

LEMMA PostKeeps == ASSUME Inv, NEW d \in Dev, NEW m \in outbox[d], Post(d, m) PROVE Inv'
<1>0. /\ UNCHANGED <<rec, hyb, accepts, texts, shown, op, prime, hs, keys, left>>
      /\ outbox' = [outbox EXCEPT ![d] = @ \ {m}]
  BY DEF Post, records, activity
<1>1. /\ outbox \in [Dev -> SUBSET Msgs] /\ m \in Msgs /\ log \in Seq(Msgs) /\ Len(log) \in Nat /\ Len(hs) \in Nat
      /\ outbox' \in [Dev -> SUBSET Msgs] /\ \A e \in Dev : outbox'[e] = IF e = d THEN outbox[d] \ {m} ELSE outbox[e]
  BY <1>0 DEF Inv, Typed
<1>2. CASE log' = log
  <2>1. Less
    <3>1. \A e \in Dev : \A r : Live(e, r)' => Live(e, r)
      BY <1>0 DEF Live
    <3>2. \A e \in Dev : \A h \in 1..MaxHs : accepts[e][h] <= accepts'[e][h]
      <4>1. \A e \in Dev : \A h \in 1..MaxHs : accepts[e][h] \in Nat
        BY DEF Inv, Typed
      <4> QED BY <1>0, <4>1
    <3> QED BY <1>0, <1>1, <1>2, <3>1, <3>2 DEF Less, Used
  <2>2. Typed'
    BY <1>0, <1>1, <1>2 DEF Inv, Typed
  <2>3. \A e \in Dev : GoodOp(e)'
    BY <1>0, <1>1, <1>2, OpKept DEF Used
  <2> QED BY <1>0, <2>1, <2>2, <2>3, LessInv
<1>3. CASE log' = Append(log, m)
  <2>1. /\ log' \in Seq(Msgs) /\ Len(log') = Len(log) + 1 /\ log'[Len(log')] = m
        /\ \A i \in 1..Len(log) : log'[i] = log[i]
    BY <1>1, <1>3
  <2>2. 1..Len(log) \subseteq 1..Len(log') /\ \A i \in 1..Len(log') : i \in 1..Len(log) \/ i = Len(log')
    BY <1>1, <2>1
  <2>3. Typed'
    BY <1>0, <1>1, <2>1, <2>2 DEF Inv, Typed
  <2>4. \A e \in Dev : GoodOp(e)'
    BY <1>0, <1>1, <2>1, OpKept DEF Used
  <2>5. \A e \in Dev : \A r : Live(e, r)' <=> Live(e, r)
    BY <1>0 DEF Live
  <2>6. GoodMsg(d, m) /\ m.from = d
    BY DEF Inv, Good, GoodMsg
  <2>7. Good'
    <3>1. \A e \in Dev : \A n : GoodMsg(e, n) => GoodMsg(e, n)'
      BY <1>0 DEF GoodMsg, Own
    <3>2. \A e \in Dev : \A r : GoodRec(e, r) => GoodRec(e, r)'
      BY <1>0 DEF GoodRec
    <3>3. \A i \in 1..Len(log) : log[i].from \in Dev
      <4>1. \A i \in 1..Len(log) : log[i] \in Msgs
        BY <1>1
      <4> QED BY <4>1 DEF Msgs
    <3>4. \A i \in 1..Len(log') : GoodMsg(log[i].from, log[i])'
      BY <2>1, <2>2, <2>6, <3>1, <3>3 DEF Inv, Good
    <3>5. \A e \in Dev : \A n \in outbox'[e] : GoodMsg(e, n)'
      BY <1>1, <3>1 DEF Inv, Good
    <3> QED BY <2>5, <3>2, <3>4, <3>5 DEF Inv, Good
  <2>8. \A e \in Dev : \A n : SentBy(e, n)' => SentBy(e, n)
    <3> SUFFICES ASSUME NEW e \in Dev, NEW n, SentBy(e, n)' PROVE SentBy(e, n)
      OBVIOUS
    <3>1. CASE n \in outbox'[e]
      BY <1>1, <3>1 DEF SentBy
    <3>2. CASE n.from = e /\ \E i \in 1..Len(log') : log'[i] = n
      BY <2>1, <2>2, <2>6, <3>2 DEF SentBy
    <3> QED BY <3>1, <3>2 DEF SentBy
  <2>9. \A e \in Dev : \A c : Sends(e, c)' => Sends(e, c)
    <3> SUFFICES ASSUME NEW e \in Dev, NEW c, Sends(e, c)' PROVE Sends(e, c)
      OBVIOUS
    <3>1. CASE \E r : Live(e, r)' /\ r.state.cks = c /\ c # NoChain
      BY <2>5, <3>1 DEF Sends
    <3>2. CASE \E n : SentBy(e, n)' /\ n.key.chain = c
      BY <2>8, <3>2 DEF Sends
    <3> QED BY <3>1, <3>2 DEF Sends
  <2>10. Apart'
    <3>1. \A e, f \in Dev : \A c : (Sends(e, c) /\ Sends(f, c))' => e = f
      BY <2>9 DEF Inv, Apart
    <3>2. \A e \in Dev : \A r, n :
            (Live(e, r) /\ SentBy(e, n))' /\ r.state.cks = n.key.chain => n.key.n < r.state.ns
      BY <2>5, <2>8 DEF Inv, Apart
    <3>3. \A e \in Dev : \A n, o \in outbox'[e] : n.key = o.key => n = o
      BY <1>1 DEF Inv, Apart
    <3>4. ASSUME NEW e \in Dev, NEW n \in outbox'[e], NEW i \in 1..Len(log') PROVE log'[i].key # n.key
      <4>1. CASE i \in 1..Len(log)
        BY <1>1, <2>1, <4>1 DEF Inv, Apart
      <4>2. CASE i = Len(log') /\ e = d
        BY <1>1, <2>1, <4>2 DEF Inv, Apart
      <4>3. CASE i = Len(log') /\ e # d
        <5>1. Sends(d, m.key.chain) /\ Sends(e, n.key.chain)
          BY <1>1 DEF Sends, SentBy
        <5> QED BY <2>1, <4>3, <5>1 DEF Inv, Apart
      <4> QED BY <2>2, <4>1, <4>2, <4>3
    <3>5. NoKeyReuse'
      <4> SUFFICES ASSUME NEW i \in 1..Len(log'), NEW j \in 1..Len(log'), log'[i].key = log'[j].key PROVE i = j
        BY DEF NoKeyReuse
      <4>1. \A k \in 1..Len(log) : log[k].key # m.key
        BY DEF Inv, Apart
      <4> QED BY <2>1, <2>2, <4>1 DEF Inv, Apart, NoKeyReuse
    <3> QED BY <3>1, <3>2, <3>3, <3>4, <3>5 DEF Apart
  <2>11. Once'
    <3>1. \A e \in Dev : Used(e)' = Used(e) /\ \A i \in Used(e) : log'[i] = log[i]
      BY <1>0, <2>1 DEF Inv, Typed, Used
    <3> QED BY <1>0, <2>5, <3>1 DEF Inv, Once
  <2>12. Begun'
    BY <1>0 DEF Inv, Begun, Own
  <2> QED BY <2>3, <2>4, <2>7, <2>10, <2>11, <2>12 DEF Inv
<1> QED BY <1>2, <1>3 DEF Post

LEMMA InitiatorWF ==
  ASSUME NEW h \in Nat, NEW k \in Nat, NEW spk \in 1..k, NEW s, s = InitInitiator(h, k + 1, spk)
  PROVE  /\ WF(s, h, k + 1) /\ Fresh(s.cks, k)
         /\ \A J, g : Chained(J.chain, g, k) /\ Len(J.chain) >= 2 => Gone(s, J)
<1> DEFINE rk == Append(<<{h}>>, {k + 1, spk})
<1>1. /\ rk \in Seq(SUBSET Nat) /\ Len(rk) = 2 /\ rk[1] = {h} /\ rk[2] = {k + 1, spk}
      /\ {k + 1, spk} \subseteq 1..(k + 1)
  <2>1. {h} \in SUBSET Nat /\ {k + 1, spk} \in SUBSET Nat /\ {k + 1, spk} \subseteq 1..(k + 1)
    OBVIOUS
  <2>2. <<{h}>> \in Seq(SUBSET Nat) /\ Len(<<{h}>>) = 1
    BY <2>1
  <2>3. rk \in Seq(SUBSET Nat) /\ Len(rk) = 2 /\ rk[1] = {h} /\ rk[2] = {k + 1, spk}
    BY <2>1, <2>2
  <2> QED BY <2>1, <2>3
<1>2. s = [rk |-> rk, dhs |-> k + 1, dhr |-> spk, cks |-> rk, ckr |-> NoChain,
           ns |-> 0, nr |-> 0, pn |-> 0, skipped |-> {}]
  BY DEF InitInitiator, Root, KdfRootKey, Shared
<1>3. Chained(rk, h, k + 1)
  <2>1. \A j \in 2..2 : j = 2
    OBVIOUS
  <2> QED BY <1>1, <2>1 DEF Chained
<1>4. Fresh(rk, k)
  BY <1>1 DEF Fresh
<1>5. NoChain \in Chain /\ rk \in Chain /\ Len(NoChain) = 0
  BY <1>1 DEF Chain, NoChain
<1> HIDE DEF rk
<1>6. s \in RatchetState
  BY <1>2, <1>5 DEF RatchetState
<1>7. WF(s, h, k + 1)
  <2>1. s.rk = rk /\ s.cks = rk /\ s.ckr = NoChain /\ s.dhs = k + 1 /\ s.dhr = spk /\ s.skipped = {}
    BY <1>2
  <2>2. s.dhs \in 1..(k + 1) /\ s.dhr \in 0..(k + 1) /\ Len(s.ckr) <= Len(s.rk)
    BY <1>1, <1>5, <2>1
  <2>3. Chained(s.rk, h, k + 1) /\ s.cks = s.rk /\ Len(s.rk) >= 2
    <3>1. s.cks = s.rk
      BY <2>1
    <3>2. Chained(s.rk, h, k + 1)
      BY <1>3, <2>1
    <3>3. Len(s.rk) >= 2
      <4>1. Len(s.rk) = 2
        BY <1>1, <2>1
      <4> QED BY <4>1
    <3> QED BY <3>1, <3>2, <3>3
  <2>4. \A e \in s.skipped : FALSE
    BY <2>1
  <2> QED BY <1>6, <2>1, <2>2, <2>3, <2>4 DEF WF
<1>8. ASSUME NEW J, NEW g, Chained(J.chain, g, k), Len(J.chain) >= 2 PROVE Gone(s, J)
  <2>1. J.chain[2] \subseteq 1..k
    BY <1>8 DEF Chained
  <2>2. J.chain[2] # rk[2]
    <3>1. k + 1 \notin 1..k
      OBVIOUS
    <3>2. k + 1 \in rk[2] /\ k + 1 \notin J.chain[2]
      BY <1>1, <2>1, <3>1
    <3> QED BY <3>2
  <2>3. J.chain # NoChain
    BY <1>5, <1>8
  <2>4. ~\A j \in 1..Len(rk) : J.chain[j] = rk[j]
    BY <1>1, <2>2
  <2>5. s.rk = rk /\ s.ckr = NoChain /\ s.skipped = {}
    BY <1>2
  <2>6. \A e \in s.skipped : FALSE
    BY <2>5
  <2>7. s.ckr = J.chain => J.n < s.nr
    BY <2>3, <2>5
  <2>8. ~\A j \in 1..Len(s.rk) : J.chain[j] = s.rk[j]
    BY <2>4, <2>5
  <2> QED BY <2>6, <2>7, <2>8 DEF Gone
<1> QED BY <1>2, <1>4, <1>7, <1>8

LEMMA ResponderWF ==
  ASSUME NEW h \in Nat, NEW k \in Nat, NEW spk \in 1..k, NEW s, s = InitResponder(h, spk)
  PROVE  /\ WF(s, h, k) /\ s.cks = NoChain
         /\ \A J : Len(J.chain) >= 2 /\ J.chain[1] # {h} => Gone(s, J)
<1> DEFINE rk == <<{h}>>
<1>1. rk \in Seq(SUBSET Nat) /\ Len(rk) = 1 /\ rk[1] = {h}
  OBVIOUS
<1>2. s = [rk |-> rk, dhs |-> spk, dhr |-> NoPair, cks |-> NoChain, ckr |-> NoChain,
           ns |-> 0, nr |-> 0, pn |-> 0, skipped |-> {}]
  BY DEF InitResponder, Root
<1>3. Chained(rk, h, k)
  BY <1>1 DEF Chained
<1>4. NoChain \in Chain /\ rk \in Chain /\ Len(NoChain) = 0
  BY <1>1 DEF Chain, NoChain
<1> HIDE DEF rk
<1>5. s \in RatchetState /\ NoPair = 0
  BY <1>2, <1>4 DEF RatchetState, NoPair
<1>6. WF(s, h, k)
  BY <1>1, <1>2, <1>3, <1>4, <1>5 DEF WF
<1>7. ASSUME NEW J, Len(J.chain) >= 2, J.chain[1] # {h} PROVE Gone(s, J)
  <2>1. J.chain # NoChain
    BY <1>4, <1>7
  <2>2. ~\A j \in 1..Len(rk) : J.chain[j] = rk[j]
    BY <1>1, <1>7
  <2> QED BY <1>2, <2>1, <2>2 DEF Gone
<1>8. s.cks = NoChain
  BY <1>2
<1> QED BY <1>6, <1>7, <1>8

\* A new record is no danger to the keys read so far if they are gone for it.
LEMMA OnceGain ==
  ASSUME Inv, NEW d \in Dev, NEW x, Gains(d, x), \A e \in Dev : Used(e)' = Used(e),
         accepts[d][x.hs] <= 1 => \A i \in Used(d) : Gone(x.state, log[i].key)
  PROVE  Once'
BY DEF Inv, Once, Gains

LEMMA MessageFacts ==
  ASSUME Inv, NEW i \in 1..Len(log)
  PROVE  /\ log[i].header \in Header /\ log[i].header.dh \in 1..keys /\ log[i].key.n \in Nat
         /\ Len(log[i].key.chain) >= 2 /\ log[i].key.chain # NoChain
         /\ \E g \in 1..Len(hs) : Chained(log[i].key.chain, g, keys)
<1>1. log[i] \in Msgs
  BY DEF Inv, Typed
<1>2. log[i].header \in Header /\ log[i].key \in Key /\ log[i].from \in Dev
  BY <1>1 DEF Msgs
<1>3. GoodMsg(log[i].from, log[i])
  BY DEF Inv, Good
<1>4. Len(log[i].key.chain) >= 2 /\ Len(NoChain) = 0
  BY <1>3 DEF GoodMsg, NoChain
<1> QED BY <1>2, <1>3, <1>4 DEF GoodMsg, Key

LEMMA PrimeSaveKeeps == ASSUME Inv, NEW d \in Dev, NEW p \in Primer, PrimeSave(d, p) PROVE Inv'
<1>0. /\ prime[d][p].pc = "save" /\ Own(d, prime[d][p].hs) /\ prime' = [prime EXCEPT ![d][p] = IdlePrime]
      /\ UNCHANGED <<hyb, accepts, texts, shown, op, outbox, log, hs, left>>
      /\ keys \in Nat /\ Len(hs) \in Nat
  BY DEF PrimeSave, Inv, Begun, Typed
<1>1. /\ DOMAIN prime' = Dev /\ \A e \in Dev : DOMAIN prime'[e] = Primer
      /\ \A e \in Dev : \A q \in Primer : prime'[e][q] = prime[e][q] \/ prime'[e][q].pc = "idle"
  <2>1. DOMAIN prime = Dev /\ (\A e \in Dev : DOMAIN prime[e] = Primer) /\ IdlePrime.pc = "idle"
    BY DEF Inv, Typed, IdlePrime
  <2> QED BY <1>0, <2>1
<1>2. Begun'
  BY <1>0, <1>1 DEF Inv, Begun, Own
<1>3. CASE p = "shadow"
  <2>1. UNCHANGED <<rec, keys>>
    BY <1>3 DEF PrimeSave
  <2>2. Still
    BY <1>0, <1>1, <1>2, <2>1 DEF Still, Inv, Typed
  <2> QED BY <2>2, StillKeeps
<1>4. CASE p # "shadow"
  <2>h. PICK h \in 1..Len(hs) : h = prime[d][p].hs /\ hs[h].by = d
    BY <1>0 DEF Own
  <2>x. PICK x : x = InitiatorRec(d, h, keys + 1)
    OBVIOUS
  <2>1. rec' = [rec EXCEPT ![d] = x] /\ keys' = keys + 1
    BY <1>4, <2>h, <2>x DEF PrimeSave
  <2>2. /\ x = [role |-> "initiator", hs |-> h, peerSeen |-> FALSE, alive |-> 0,
                state |-> InitInitiator(h, keys + 1, Peer(d))]
        /\ Peer(d) \in 1..keys /\ h \in Nat
    <3>1. Peer(d) \in 1..keys
      BY PeerIsOther DEF Inv, Typed
    <3>2. h \in Nat
      BY <1>0, <2>h
    <3> QED BY <2>x, <3>1, <3>2 DEF InitiatorRec
  <2>3. /\ WF(x.state, h, keys + 1) /\ Fresh(x.state.cks, keys)
        /\ \A J, g : Chained(J.chain, g, keys) /\ Len(J.chain) >= 2 => Gone(x.state, J)
    BY <1>0, <2>2, InitiatorWF
  <2>4. x \in Recs
    BY <2>2, <2>3 DEF Recs, WF
  <2>5. Typed'
    <3>1. rec' \in [Dev -> {None} \cup Recs] /\ keys' \in Nat /\ Dev \subseteq 1..keys'
      BY <1>0, <2>1, <2>4 DEF Inv, Typed
    <3> QED BY <1>0, <1>1, <3>1 DEF Inv, Typed
  <2>6. Gains(d, x)
    <3>1. \A e \in Dev : \A r : Live(e, r)' => Live(e, r) \/ (e = d /\ r = x)
      BY <1>0, <2>1 DEF Live, Inv, Typed
    <3>2. GoodRec(d, x)'
      BY <1>0, <2>h, <2>1, <2>2, <2>3, <2>4 DEF GoodRec
    <3> QED BY <1>0, <2>1, <2>3, <3>1, <3>2 DEF Gains
  <2>7. \A i \in Used(d) : Gone(x.state, log[i].key)
    <3>1. \A i \in Used(d) : i \in 1..Len(log)
      BY DEF Inv, Typed, Used
    <3> QED BY <2>3, <3>1, MessageFacts
  <2>8. \A e \in Dev : Used(e)' = Used(e) /\ GoodOp(e)'
    <3>1. Len(log) \in Nat
      BY DEF Inv, Typed
    <3> QED BY <1>0, <3>1, OpKept DEF Used
  <2> QED BY <1>2, <2>5, <2>6, <2>7, <2>8, GainKeeps, OnceGain DEF Inv
<1> QED BY <1>3, <1>4

LEMMA AcceptSaveKeeps == ASSUME Inv, NEW d \in Dev, AcceptSave(d) PROVE Inv'
<1>i. PICK i : i = op[d].msg
  OBVIOUS
<1>h. PICK h : h = log[i].init
  OBVIOUS
<1>x. PICK x : x = ResponderRec(d, h, i)
  OBVIOUS
<1>y. PICK y : y = [kind |-> "first", rec |-> x, msg |-> i]
  OBVIOUS
<1>0. /\ op[d] # None /\ op[d].kind = "accept"
      /\ rec' = [rec EXCEPT ![d] = x] /\ op' = [op EXCEPT ![d] = y]
      /\ hyb' = [hyb EXCEPT ![d] = Persist(d, [role |-> "responder", hs |-> h])]
      /\ UNCHANGED <<accepts, texts, shown, prime, outbox, log, hs, keys, left>>
  BY <1>i, <1>h, <1>x, <1>y DEF AcceptSave, shadows
<1>1. /\ i \in 1..Len(log) /\ log[i].from = Peer(d) /\ h # 0 /\ accepts[d][h] >= 1
      /\ accepts[d][h] <= 1 => \A j \in Used(d) : log[j].key.chain[1] # {h}
  BY <1>0, <1>i, <1>h DEF Inv, GoodOp
<1>2. h \in 1..Len(hs) /\ h \in Nat /\ keys \in Nat /\ Len(log) \in Nat /\ d \in 1..keys
  <2>1. GoodMsg(Peer(d), log[i])
    BY <1>1 DEF Inv, Good
  <2>2. h \in 1..Len(hs)
    BY <1>1, <1>h, <2>1 DEF GoodMsg, Own
  <2>3. Len(hs) \in Nat /\ keys \in Nat /\ Len(log) \in Nat /\ d \in 1..keys
    BY DEF Inv, Typed
  <2> QED BY <2>2, <2>3
<1>3. x = [role |-> "responder", hs |-> h, peerSeen |-> TRUE, alive |-> i, state |-> InitResponder(h, d)]
  BY <1>x DEF ResponderRec
<1>4. /\ WF(x.state, h, keys) /\ x.state.cks = NoChain
      /\ \A J : Len(J.chain) >= 2 /\ J.chain[1] # {h} => Gone(x.state, J)
  BY <1>2, <1>3, ResponderWF
<1>5. x \in Recs /\ y \in Steps
  <2>1. x \in Recs
    BY <1>1, <1>2, <1>3, <1>4 DEF Recs, WF
  <2> QED BY <1>1, <1>2, <1>y, <2>1 DEF Steps
<1>6. Typed' /\ \A e \in Dev : rec'[e] = (IF e = d THEN x ELSE rec[e]) /\ op'[e] = (IF e = d THEN y ELSE op[e])
  <2>1. rec' \in [Dev -> {None} \cup Recs] /\ op' \in [Dev -> {None} \cup Steps] /\ DOMAIN hyb' = Dev
    BY <1>0, <1>5 DEF Inv, Typed
  <2>2. \A e \in Dev : rec'[e] = (IF e = d THEN x ELSE rec[e]) /\ op'[e] = (IF e = d THEN y ELSE op[e])
    BY <1>0 DEF Inv, Typed
  <2> QED BY <1>0, <2>1, <2>2 DEF Inv, Typed
<1>7. Gains(d, x)
  <2>1. \A e \in Dev : \A r : Live(e, r)' => Live(e, r) \/ (e = d /\ r = x)
    BY <1>6, <1>y DEF Live
  <2>2. GoodRec(d, x)'
    BY <1>0, <1>1, <1>2, <1>3, <1>4, <1>5 DEF GoodRec
  <2> QED BY <1>0, <1>4, <2>1, <2>2 DEF Gains
<1>8. accepts[d][x.hs] <= 1 => \A j \in Used(d) : Gone(x.state, log[j].key)
  <2> SUFFICES ASSUME accepts[d][h] <= 1, NEW j \in Used(d) PROVE Gone(x.state, log[j].key)
    BY <1>3
  <2>1. j \in 1..Len(log)
    BY DEF Inv, Typed, Used
  <2> QED BY <1>1, <1>4, <2>1, MessageFacts
<1>9. \A e \in Dev : Used(e)' = Used(e)
  BY <1>0 DEF Used
<1>10. \A e \in Dev : GoodOp(e)'
  <2> SUFFICES ASSUME NEW e \in Dev PROVE GoodOp(e)'
    OBVIOUS
  <2>1. CASE e = d
    BY <1>0, <1>1, <1>6, <1>y, <2>1 DEF GoodOp
  <2>2. CASE e # d
    BY <1>0, <1>2, <1>6, <1>9, <2>2, OpKept
  <2> QED BY <2>1, <2>2
<1>11. Begun'
  <2>1. \A e \in Dev : hyb'[e] = hyb[e] \/ hyb'[e].role = "responder"
    BY <1>0 DEF Persist, Inv, Typed
  <2> QED BY <1>0, <2>1 DEF Inv, Begun, Own
<1> QED BY <1>6, <1>7, <1>8, <1>9, <1>10, <1>11, GainKeeps, OnceGain DEF Inv

\* The new message and the session after it.
LEMMA EncryptEndKeeps == ASSUME Inv, NEW d \in Dev, EncryptEnd(d) PROVE Inv'
<1>r. PICK r : r = op[d].rec
  OBVIOUS
<1>m. PICK m : m = Message(d, r)
  OBVIOUS
<1>x. PICK x : x = [r EXCEPT !.state = AfterSend(r.state)]
  OBVIOUS
<1>0. op[d] # None /\ op[d].kind = "encrypt" /\ r # None /\ r.state.cks # NoChain /\ Live(d, r)
  BY <1>r DEF EncryptEnd, Inv, GoodOp, Live
<1>1. /\ rec' = [rec EXCEPT ![d] = x] /\ op' = [op EXCEPT ![d] = None]
      /\ outbox' = [outbox EXCEPT ![d] = @ \cup {m}]
      /\ UNCHANGED <<hyb, accepts, texts, shown, prime, log, hs, keys, left>>
  <2>1. rec' = [rec EXCEPT ![d] = [op[d].rec EXCEPT !.state = AfterSend(op[d].rec.state)]]
    BY DEF EncryptEnd
  <2> QED BY <1>r, <1>m, <1>x, <2>1 DEF EncryptEnd, shadows
<1>2. GoodRec(d, r) /\ r \in Recs /\ r.state \in RatchetState /\ WF(r.state, r.hs, keys) /\ r.hs \in 1..Len(hs)
  <2>1. GoodRec(d, r)
    BY <1>0 DEF Inv, Good
  <2> QED BY <2>1 DEF GoodRec, WF
<1>3. /\ x \in Recs /\ x.role = r.role /\ x.hs = r.hs /\ x.state = AfterSend(r.state)
      /\ x.state.cks = r.state.cks /\ r.state.ns \in Nat /\ x.state.ns = r.state.ns + 1
  <2>1. AfterSend(r.state) = [r.state EXCEPT !.ns = r.state.ns + 1] /\ r.state.ns \in Nat
    BY <1>2 DEF AfterSend, RatchetState
  <2>2. AfterSend(r.state) \in RatchetState /\ AfterSend(r.state).cks = r.state.cks /\ AfterSend(r.state).ns = r.state.ns + 1
    <3>1. r.state \in RatchetState /\ r.state.ns + 1 \in Nat
      BY <1>2, <2>1
    <3> QED BY <2>1, <3>1 DEF RatchetState
  <2> QED BY <1>2, <1>x, <2>1, <2>2 DEF Recs
<1>4. WF(x.state, x.hs, keys) /\ \A J : Gone(r.state, J) => Gone(x.state, J)
  <2>1. /\ x.state \in RatchetState
        /\ x.state.rk = r.state.rk /\ x.state.dhs = r.state.dhs /\ x.state.dhr = r.state.dhr /\ x.state.ckr = r.state.ckr
        /\ x.state.nr = r.state.nr /\ x.state.skipped = r.state.skipped /\ x.state.cks = r.state.cks
    BY <1>2, <1>3 DEF AfterSend, RatchetState, Recs
  <2>2. WF(x.state, x.hs, keys)
    BY <1>2, <1>3, <2>1 DEF WF
  <2> QED BY <2>1, <2>2 DEF Gone
<1>5. /\ m.from = d /\ m.key.chain = r.state.cks /\ m.key.n = r.state.ns /\ m.header = SendHeader(r.state)
      /\ m.key \in Key /\ m.header \in Header /\ m.header.dh \in 1..keys /\ m \in Msgs
      /\ m.init # 0 => Own(d, m.init)
  <2>1. m = [from |-> d, header |-> SendHeader(r.state), key |-> SendKey(r.state),
             init |-> IF r.role = "initiator" /\ ~r.peerSeen THEN r.hs ELSE 0]
    BY <1>m DEF Message
  <2>2. SendHeader(r.state) \in Header /\ SendKey(r.state) \in Key /\ SendHeader(r.state).dh = r.state.dhs
        /\ SendKey(r.state).chain = r.state.cks /\ SendKey(r.state).n = r.state.ns
    BY <1>2 DEF SendHeader, SendKey, Header, Key, RatchetState
  <2>3. r.state.dhs \in 1..keys
    BY <1>2 DEF WF
  <2>4. m.init \in Nat /\ (m.init # 0 => Own(d, m.init))
    BY <1>2, <2>1 DEF GoodRec, Own, Recs
  <2> QED BY <2>1, <2>2, <2>3, <2>4 DEF Msgs
<1>6. /\ \A e \in Dev : rec'[e] = (IF e = d THEN x ELSE rec[e]) /\ op'[e] = (IF e = d THEN None ELSE op[e])
      /\ \A e \in Dev : outbox'[e] = IF e = d THEN outbox[d] \cup {m} ELSE outbox[e]
      /\ \A e \in Dev : Used(e)' = Used(e)
      /\ outbox' \in [Dev -> SUBSET Msgs]
  <2>1. \A e \in Dev : rec'[e] = (IF e = d THEN x ELSE rec[e]) /\ op'[e] = (IF e = d THEN None ELSE op[e])
    BY <1>1 DEF Inv, Typed
  <2>2. outbox \in [Dev -> SUBSET Msgs]
    BY DEF Inv, Typed
  <2> QED BY <1>1, <1>5, <2>1, <2>2 DEF Used
<1>7. Typed'
  <2>1. rec' \in [Dev -> {None} \cup Recs] /\ op' \in [Dev -> {None} \cup Steps]
    BY <1>1, <1>3 DEF Inv, Typed
  <2> QED BY <1>1, <1>6, <2>1 DEF Inv, Typed
<1>8. Begun'
  BY <1>1 DEF Inv, Begun, Own
<1>9. \A e \in Dev : GoodOp(e)'
  <2>1. Len(log) \in Nat
    BY DEF Inv, Typed
  <2> QED BY <1>1, <1>6, <2>1, OpKept
<1>10. \A e \in Dev : \A y : Live(e, y)' => (e # d /\ Live(e, y)) \/ (e = d /\ y = x)
  BY <1>6 DEF Live
<1>11. GoodMsg(d, m)
  <2>1. Chained(m.key.chain, r.hs, keys) /\ Len(m.key.chain) >= 2
    BY <1>0, <1>2, <1>5 DEF WF
  <2> QED BY <1>2, <1>5, <2>1 DEF GoodMsg
<1>12. Good'
  <2>1. \A e \in Dev : \A n : GoodMsg(e, n) => GoodMsg(e, n)'
    BY <1>1 DEF GoodMsg, Own
  <2>2. \A e \in Dev : \A y : GoodRec(e, y) => GoodRec(e, y)'
    BY <1>1 DEF GoodRec
  <2>3. GoodRec(d, x)
    BY <1>2, <1>3, <1>4 DEF GoodRec
  <2>4. \A i \in 1..Len(log) : log[i].from \in Dev
    <3>1. \A i \in 1..Len(log) : log[i] \in Msgs
      BY DEF Inv, Typed
    <3> QED BY <3>1 DEF Msgs
  <2>5. \A e \in Dev : \A y : Live(e, y)' => GoodRec(e, y)'
    BY <1>10, <2>2, <2>3 DEF Inv, Good
  <2>6. \A e \in Dev : \A n \in outbox'[e] : GoodMsg(e, n)'
    BY <1>6, <1>11, <2>1 DEF Inv, Good
  <2>7. \A i \in 1..Len(log) : GoodMsg(log[i].from, log[i])'
    BY <1>1, <2>1, <2>4 DEF Inv, Good
  <2> QED BY <1>1, <2>5, <2>6, <2>7 DEF Good
<1>13. \A e \in Dev : \A n : SentBy(e, n)' => SentBy(e, n) \/ (e = d /\ n = m)
  BY <1>1, <1>6 DEF SentBy
<1>14. Sends(d, r.state.cks)
  BY <1>0 DEF Sends
<1>15. \A e \in Dev : \A c : Sends(e, c)' => Sends(e, c)
  <2> SUFFICES ASSUME NEW e \in Dev, NEW c, Sends(e, c)' PROVE Sends(e, c)
    OBVIOUS
  <2>1. CASE \E y : Live(e, y)' /\ y.state.cks = c /\ c # NoChain
    <3>1. PICK y : Live(e, y)' /\ y.state.cks = c /\ c # NoChain
      BY <2>1
    <3>2. CASE e = d /\ y = x
      BY <1>3, <1>14, <3>1, <3>2
    <3>3. CASE Live(e, y)
      BY <3>1, <3>3 DEF Sends
    <3> QED BY <1>10, <3>1, <3>2, <3>3
  <2>2. CASE \E n : SentBy(e, n)' /\ n.key.chain = c
    <3>1. PICK n : SentBy(e, n)' /\ n.key.chain = c
      BY <2>2
    <3>2. CASE e = d /\ n = m
      BY <1>5, <1>14, <3>1, <3>2
    <3>3. CASE SentBy(e, n)
      BY <3>1, <3>3 DEF Sends
    <3> QED BY <1>13, <3>1, <3>2, <3>3
  <2> QED BY <2>1, <2>2 DEF Sends
\* The new key is one no message carries.
<1>16. \A n : SentBy(d, n) /\ n.key = m.key => FALSE
  <2> SUFFICES ASSUME NEW n, SentBy(d, n), n.key = m.key PROVE FALSE
    OBVIOUS
  <2>1. n.key.n < r.state.ns
    BY <1>0, <1>5 DEF Inv, Apart
  <2> QED BY <1>3, <1>5, <2>1
<1>17. \A e \in Dev : \A n : SentBy(e, n) /\ n.key = m.key => FALSE
  <2> SUFFICES ASSUME NEW e \in Dev, NEW n, SentBy(e, n), n.key = m.key, e # d PROVE FALSE
    BY <1>16
  <2>1. Sends(e, r.state.cks)
    BY <1>5 DEF Sends
  <2> QED BY <1>14, <2>1 DEF Inv, Apart
<1>18. Apart'
  <2>1. \A e, f \in Dev : \A c : (Sends(e, c) /\ Sends(f, c))' => e = f
    BY <1>15 DEF Inv, Apart
  <2>2. ASSUME NEW e \in Dev, NEW y, NEW n, Live(e, y)', SentBy(e, n)', y.state.cks = n.key.chain
        PROVE  n.key.n < y.state.ns
    <3>1. CASE e # d
      BY <1>10, <1>13, <2>2, <3>1 DEF Inv, Apart
    <3>2. CASE e = d /\ n = m
      BY <1>3, <1>5, <1>10, <2>2, <3>2
    <3>3. CASE e = d /\ SentBy(d, n)
      <4>1. y = x /\ n.key.n < r.state.ns
        BY <1>0, <1>3, <1>10, <2>2, <3>3 DEF Inv, Apart
      <4>2. n.key.n \in Nat
        <5>1. n \in Msgs
          BY <3>3 DEF SentBy, Inv, Typed
        <5> QED BY <5>1 DEF Msgs, Key
      <4> QED BY <1>3, <4>1, <4>2
    <3> QED BY <1>13, <2>2, <3>1, <3>2, <3>3
  <2>3. \A e \in Dev : \A n, o \in outbox'[e] : n.key = o.key => n = o
    <3>1. \A n \in outbox[d] : SentBy(d, n)
      BY DEF SentBy
    <3> QED BY <1>6, <1>16, <3>1 DEF Inv, Apart
  <2>4. \A e \in Dev : \A n \in outbox'[e] : \A i \in 1..Len(log) : log[i].key # n.key
    <3>1. \A i \in 1..Len(log) : log[i].from \in Dev /\ SentBy(log[i].from, log[i])
      <4>1. \A i \in 1..Len(log) : log[i] \in Msgs
        BY DEF Inv, Typed
      <4> QED BY <4>1 DEF Msgs, SentBy
    <3> QED BY <1>6, <1>17, <3>1 DEF Inv, Apart
  <2>5. NoKeyReuse'
    BY <1>1 DEF Inv, Apart, NoKeyReuse
  <2> QED BY <1>1, <2>1, <2>2, <2>3, <2>4, <2>5 DEF Apart
<1>19. Once'
  <2> SUFFICES ASSUME NEW e \in Dev, NEW i \in Used(e), NEW y, Live(e, y)', accepts[e][y.hs] <= 1
               PROVE  Gone(y.state, log[i].key)
    BY <1>1, <1>6 DEF Inv, Once
  <2>1. CASE e # d
    BY <1>10, <2>1 DEF Inv, Once
  <2>2. CASE e = d
    BY <1>0, <1>3, <1>4, <1>10, <2>2 DEF Inv, Once
  <2> QED BY <2>1, <2>2
<1> QED BY <1>7, <1>8, <1>9, <1>12, <1>18, <1>19 DEF Inv

\* A message is read: its key goes, and no other key comes back.
LEMMA ReadKeeps ==
  ASSUME Inv, NEW d \in Dev, NEW r, r = op[d].rec, op[d] # None, op[d].kind # "encrypt", Live(d, r),
         NEW i, i = op[d].msg, Opens(r, log[i]), ReadAndSave(d, r, i),
         UNCHANGED <<hyb, accepts, texts, prime, outbox, log, hs, left>>
  PROVE  Inv'
<1>x. PICK x : x = AfterRead(r, i)
  OBVIOUS
<1>R. PICK R : R = Attempt(r, log[i])
  OBVIOUS
<1>0. /\ i \in 1..Len(log) /\ i \in Nat /\ keys \in Nat /\ Len(log) \in Nat /\ Len(hs) \in Nat
      /\ GoodRec(d, r) /\ r \in Recs /\ r.hs \in 1..Len(hs) /\ r.hs \in Nat /\ WF(r.state, r.hs, keys)
  <2>1. i \in 1..Len(log)
    BY DEF Inv, GoodOp
  <2>2. keys \in Nat /\ Len(log) \in Nat /\ Len(hs) \in Nat
    BY DEF Inv, Typed
  <2>3. GoodRec(d, r)
    BY DEF Inv, Good
  <2> QED BY <2>1, <2>2, <2>3 DEF GoodRec
<1>1. /\ rec' = [rec EXCEPT ![d] = x] /\ keys' = (IF x.state.dhs = keys + 1 THEN keys + 1 ELSE keys)
      /\ shown' = [shown EXCEPT ![d] = @ \cup {i}] /\ op' = [op EXCEPT ![d] = None]
  BY <1>x DEF ReadAndSave
<1>2. Received(r.state, R, r.hs, keys) /\ R.key = log[i].key
  <2>1. R = Receive(r.state, log[i].header, keys + 1, <<>>, <<>>) /\ R.key = log[i].key
    BY <1>R DEF Attempt, Opens
  <2>2. log[i].header \in Header /\ log[i].header.dh \in 1..keys /\ R.key.chain # NoChain
    BY <1>0, <2>1, MessageFacts
  <2> QED BY <1>0, <2>1, <2>2, ReceiveWF
<1>3. x = [r EXCEPT !.state = R.state, !.peerSeen = TRUE, !.alive = IF i > r.alive THEN i ELSE r.alive]
  BY <1>x, <1>R, <1>0 DEF AfterRead, Recs
<1>4. R.state \in RatchetState
  BY <1>2 DEF Received, WF
<1>5. x \in Recs /\ x.state = R.state /\ x.hs = r.hs /\ x.role = r.role
  BY <1>0, <1>3, <1>4 DEF Recs
<1>6. /\ keys' \in {keys, keys + 1} /\ WF(x.state, x.hs, keys')
      /\ Fresh(x.state.cks, keys) \/ (x.state.cks = r.state.cks /\ x.state.ns = r.state.ns)
  <2>1. CASE WF(R.state, r.hs, keys) /\ R.state.cks = r.state.cks /\ R.state.ns = r.state.ns
    <3>1. x.state.dhs \in 1..keys
      BY <1>5, <2>1 DEF WF
    <3>2. keys' = keys
      BY <1>0, <1>1, <3>1
    <3> QED BY <1>5, <2>1, <3>2
  <2>2. CASE WF(R.state, r.hs, keys + 1) /\ R.state.dhs = keys + 1 /\ Fresh(R.state.cks, keys)
    BY <1>1, <1>5, <2>2
  <2> QED BY <1>2, <2>1, <2>2 DEF Received
<1>7. /\ \A e \in Dev : rec'[e] = (IF e = d THEN x ELSE rec[e]) /\ op'[e] = (IF e = d THEN None ELSE op[e])
      /\ \A e \in Dev : e # d => Used(e)' = Used(e)
      /\ Used(d)' = Used(d) \cup {i}
  BY <1>1 DEF Inv, Typed, Used
<1>8. Typed'
  <2>1. rec' \in [Dev -> {None} \cup Recs] /\ op' \in [Dev -> {None} \cup Steps]
    BY <1>1, <1>5 DEF Inv, Typed
  <2>2. shown' \in [Dev -> SUBSET (1..Len(log))]
    BY <1>0, <1>1 DEF Inv, Typed
  <2>3. keys' \in Nat /\ Dev \subseteq 1..keys'
    <3>1. 1..keys \subseteq 1..keys'
      BY <1>0, <1>6
    <3> QED BY <1>0, <1>6, <3>1 DEF Inv, Typed
  <2> QED BY <2>1, <2>2, <2>3 DEF Inv, Typed
<1>9. \A e \in Dev : \A y : Live(e, y)' => (e # d /\ Live(e, y)) \/ (e = d /\ y = x)
  BY <1>7 DEF Live
<1>10. Gains(d, x)
  <2>1. GoodRec(d, x)'
    BY <1>0, <1>5, <1>6 DEF GoodRec
  <2> QED BY <1>6, <1>9, <2>1 DEF Gains
<1>11. \A e \in Dev : GoodOp(e)'
  <2> SUFFICES ASSUME NEW e \in Dev PROVE GoodOp(e)'
    OBVIOUS
  <2>1. CASE e = d
    BY <1>7, <2>1 DEF GoodOp
  <2>2. CASE e # d
    BY <1>0, <1>7, <2>2, OpKept
  <2> QED BY <2>1, <2>2
<1>12. Begun'
  BY DEF Inv, Begun, Own
<1>13. \A j \in Used(d) : j \in 1..Len(log)
  BY DEF Inv, Typed, Used
\* The message's chain began with the handshake of the session that read it.
<1>14. ASSUME NEW h \in 1..Len(hs), log[i].key.chain[1] = {h} PROVE hs[h].by = d \/ accepts[d][h] >= 1
  <2>1. h = r.hs
    BY <1>2, <1>14 DEF Received
  <2> QED BY <1>0, <2>1 DEF GoodRec, Recs
<1>15. ASSUME accepts[d][x.hs] <= 1, NEW j \in Used(d)' PROVE Gone(x.state, log[j].key)
  <2>1. CASE j = i
    BY <1>2, <1>5, <2>1 DEF Received
  <2>2. CASE j \in Used(d)
    <3>1. Gone(r.state, log[j].key)
      BY <1>5, <1>15, <2>2 DEF Inv, Once
    <3>2. log[j].key.n \in Nat /\ \E g \in 1..Len(hs) : Chained(log[j].key.chain, g, keys)
      BY <1>13, <2>2, MessageFacts
    <3> QED BY <1>2, <1>5, <3>1, <3>2 DEF Received
  <2> QED BY <1>7, <2>1, <2>2
<1>16. Once'
  <2> SUFFICES ASSUME NEW e \in Dev, NEW j \in Used(e)'
               PROVE  /\ \A h \in 1..Len(hs) : log[j].key.chain[1] = {h} => hs[h].by = e \/ accepts[e][h] >= 1
                      /\ \A y : Live(e, y)' /\ accepts[e][y.hs] <= 1 => Gone(y.state, log[j].key)
    BY DEF Once
  <2>1. CASE e # d
    BY <1>7, <1>9, <2>1 DEF Inv, Once
  <2>2. CASE e = d
    <3>1. \A y : Live(e, y)' /\ accepts[e][y.hs] <= 1 => Gone(y.state, log[j].key)
      BY <1>9, <1>15, <2>2
    <3>2. \A h \in 1..Len(hs) : log[j].key.chain[1] = {h} => hs[h].by = e \/ accepts[e][h] >= 1
      BY <1>7, <1>14, <2>2 DEF Inv, Once
    <3> QED BY <3>1, <3>2
  <2> QED BY <2>1, <2>2
<1> QED BY <1>8, <1>10, <1>11, <1>12, <1>16, GainKeeps DEF Inv

LEMMA DecryptReadKeeps == ASSUME Inv, NEW d \in Dev, DecryptRead(d) PROVE Inv'
<1>1. op[d] # None /\ op[d].kind = "decrypt" /\ op[d].rec # None
  BY DEF DecryptRead, Deciding
<1>2. Live(d, op[d].rec)
  BY <1>1 DEF Live
<1>3. UNCHANGED <<hyb, accepts, texts, prime, outbox, log, hs, left>>
  BY DEF DecryptRead
<1>4. Opens(op[d].rec, log[op[d].msg]) /\ ReadAndSave(d, op[d].rec, op[d].msg)
  BY DEF DecryptRead
<1> QED BY <1>1, <1>2, <1>3, <1>4, ReadKeeps

LEMMA FirstReadKeeps == ASSUME Inv, NEW d \in Dev, FirstRead(d) PROVE Inv'
<1>1. op[d] # None /\ op[d].kind = "first" /\ UNCHANGED <<hyb, accepts, texts, prime, outbox, log, hs, left>>
  BY DEF FirstRead
<1>2. CASE Opens(op[d].rec, log[op[d].msg]) /\ ReadAndSave(d, op[d].rec, op[d].msg)
  <2>1. Live(d, op[d].rec)
    BY <1>1 DEF Live
  <2> QED BY <1>1, <1>2, <2>1, ReadKeeps
<1>3. CASE op' = [op EXCEPT ![d] = None] /\ UNCHANGED <<rec, keys, shown>>
  BY <1>3, EndKeeps
<1> QED BY <1>2, <1>3 DEF FirstRead

-----------------------------------------------------------------------------
LEMMA InvNext == Inv /\ [Next]_vars => Inv'
<1> SUFFICES ASSUME Inv, [Next]_vars PROVE Inv'
  OBVIOUS
<1>1. CASE UNCHANGED vars
  <2>1. UNCHANGED <<rec, hyb, accepts, texts, shown, op, prime, outbox, log, hs, keys, left>>
    BY <1>1 DEF vars, records, shadows, activity
  <2>2. Begun'
    BY <2>1 DEF Inv, Begun, Own
  <2>3. Still
    BY <2>1, <2>2 DEF Still, Inv, Typed
  <2> QED BY <2>3, StillKeeps
<1>2. ASSUME NEW d \in Dev, NEW p \in Primer, PrimeBegin(d, p) \/ PrimeFetched(d, p) \/ PrimeFailed(d, p) \/ PrimeSave(d, p)
      PROVE  Inv'
  BY <1>2, PrimeBeginKeeps, PrimeFetchedKeeps, PrimeFailedKeeps, PrimeSaveKeeps
<1>3. ASSUME NEW d \in Dev, EncryptBegin(d) \/ EncryptEnd(d) \/ (\E m \in outbox[d] : Post(d, m)) PROVE Inv'
  BY <1>3, BeginKeeps, EncryptEndKeeps, PostKeeps
<1>4. ASSUME NEW d \in Dev, NEW i \in 1..Len(log), DecryptBegin(d, i) \/ StoreText(d, i) PROVE Inv'
  BY <1>4, BeginKeeps, StoreTextKeeps
<1>5. ASSUME NEW d \in Dev, DecryptRead(d) \/ DecryptConsume(d) \/ DecryptGiveUp(d) \/ AcceptSave(d) \/ FirstRead(d)
      PROVE  Inv'
  BY <1>5, DecryptReadKeeps, ConsumeKeeps, EndKeeps, AcceptSaveKeeps, FirstReadKeeps
<1>6. ASSUME NEW d \in Dev, ShadowSend(d) \/ ShadowSave(d) \/ (\E h \in legacy[d] : ShadowConsume(d, h)) PROVE Inv'
  BY <1>6, ShadowKeeps
<1>7. ASSUME NEW d \in Dev, ResetBegin(d) \/ ResetEnd(d) \/ Crash(d) PROVE Inv'
  BY <1>7, ResetBeginKeeps, ResetEndKeeps, CrashKeeps
<1> QED BY <1>1, <1>2, <1>3, <1>4, <1>5, <1>6, <1>7 DEF Next

LEMMA InvImplies == Inv => KeysUsedOnce
<1> SUFFICES ASSUME Inv PROVE KeysUsedOnce
  OBVIOUS
<1>1. NoKeyReuse
  BY DEF Inv, Apart
<1>2. ASSUME NEW d \in Dev, rec[d] # None, accepts[d][rec[d].hs] <= 1, NEW i \in Used(d), Opens(rec[d], log[i])
      PROVE  FALSE
  <2>1. Live(d, rec[d]) /\ i \in 1..Len(log) /\ keys \in Nat
    BY <1>2 DEF Live, Inv, Typed, Used
  <2>2. GoodRec(d, rec[d]) /\ Gone(rec[d].state, log[i].key)
    BY <1>2, <2>1 DEF Inv, Good, Once
  <2>3. WF(rec[d].state, rec[d].hs, keys) /\ rec[d].hs \in Nat
    BY <2>2 DEF GoodRec, Recs
  <2>R. PICK R : R = Receive(rec[d].state, log[i].header, keys + 1, <<>>, <<>>)
    OBVIOUS
  <2>4. R.key = log[i].key
    BY <1>2, <2>R DEF Opens, Attempt
  <2>5. /\ log[i].header \in Header /\ log[i].header.dh \in 1..keys /\ log[i].key.n \in Nat /\ R.key.chain # NoChain
        /\ \E g \in 1..Len(hs) : Chained(log[i].key.chain, g, keys)
    BY <2>1, <2>4, MessageFacts
  <2>6. Received(rec[d].state, R, rec[d].hs, keys)
    BY <2>1, <2>3, <2>5, <2>R, ReceiveWF
  <2>7. log[i].key # R.key
    BY <2>2, <2>5, <2>6 DEF Received
  <2> QED BY <2>4, <2>7
<1>3. UsedKeyIsGone
  BY <1>2 DEF UsedKeyIsGone, Used
<1> QED BY <1>1, <1>3 DEF KeysUsedOnce

\* A message key encrypts one message that reaches the server and decrypts it once,
\* however the sends, receptions, primings, resets and crashes of the two devices
\* overlap (_encryptForDevice, ratchetDecrypt and primePair of ratchetSession.js).
THEOREM KeysUsedOnceHolds == Spec => []KeysUsedOnce
<1>1. Spec => []Inv
  BY InvInit, InvNext, PTL DEF Spec
<1> QED BY <1>1, InvImplies, PTL
-----------------------------------------------------------------------------
(***************************************************************************)
(* The post-quantum rekey (PqRekey).  The roots of the two sides are one    *)
(* line: whoever stepped last is ahead by its own step, with the secret it  *)
(* mixed in, if any, and the other can only step onto the root it is at.    *)
(***************************************************************************)
Roots == Seq(SUBSET Int)
Ratchets ==
  [rk : Roots, dhs : Nat, dhr : Nat, cks : Roots, ckr : Roots, ns : Nat, nr : Nat, pn : Nat,
   skipped : SUBSET [dh : Nat, n : Nat, chain : Roots]]
Cts == [tgt : Nat, ek : Nat]
Outs == [tgt : Nat, ek : Nat, sends : Nat, conf : Roots]
Carriers == [from : Sides, header : Header, epoch : Nat, conf : Roots, ct : Cts, key : [chain : Roots, n : Nat]]

RekeyTypes ==
  /\ sess \in [Sides -> Ratchets] /\ pairs \in Nat /\ epoch \in [Sides -> Nat]
  /\ out \in [Sides -> Outs] /\ in \in [Sides -> Cts] /\ kem \in Nat /\ cached \in Nat
  /\ stored \subseteq Carriers

\* A side sends on its root, with key pairs that exist.
OnRoot == \A d \in Sides : /\ sess[d].cks \in {NoChain, sess[d].rk} /\ sess[d].rk # NoChain
                           /\ sess[d].dhs <= pairs /\ sess[d].dhr <= pairs

\* What was stored was sent on a root that its sender had.
Prefix(c, r) == Len(c) <= Len(r) /\ \A i \in 1..Len(c) : c[i] = r[i]
SentOnRoot == \A m \in stored : m.key.chain # NoChain /\ Prefix(m.key.chain, sess[m.from].rk) /\ m.header.dh <= pairs

\* Side a stepped last, on a message of the root the other side is at.
Secret(x) == \E y \in x : y < 0
Ahead(a) ==
  LET A == sess[a]
      B == sess[Other(a)]
  IN /\ Prefix(B.rk, A.rk) /\ Len(A.rk) \in {Len(B.rk) + 1, Len(B.rk) + 2}
     /\ A.rk[Len(A.rk)] = {A.dhs, B.dhs} /\ A.dhr = B.dhs /\ B.dhr # A.dhs
     /\ Len(A.rk) = Len(B.rk) + 2 => a = "initiator" /\ Secret(A.rk[Len(B.rk) + 1])
OneLine == Ahead("initiator") \/ Ahead("responder")

\* Each epoch mixed in one secret, and the next is mixed in by the initiator's next step.
OneEach ==
  /\ \A d \in Sides : Cardinality(Mixes(d)) = epoch[d]
  /\ out["responder"] = NoOut
  /\ Waiting("initiator") => out["initiator"].tgt = epoch["initiator"] + 1

RekeyInv == RekeyTypes /\ OnRoot /\ SentOnRoot /\ OneLine /\ OneEach

OnlySkips(s, t) ==
  /\ t \in Ratchets /\ t.rk = s.rk /\ t.dhs = s.dhs /\ t.dhr = s.dhr /\ t.cks = s.cks /\ t.ckr = s.ckr
StepsTo(s, t, dh, k, inn, ott) ==
  /\ t \in Ratchets /\ t.ckr = Append(s.rk \o inn, {s.dhs, dh}) /\ t.rk = Append(t.ckr \o ott, {k, dh})
  /\ t.cks = t.rk /\ t.dhs = k /\ t.dhr = dh

\* Skipping keys leaves the root, the chains and the key pairs alone.
LEMMA SkipsOnly ==
  ASSUME NEW s \in Ratchets, NEW until \in Nat, NEW t, t = SkipTo(s, until)
  PROVE  OnlySkips(s, t)
<1>1. CASE s.ckr = NoChain \/ until <= s.nr
  BY <1>1 DEF SkipTo, OnlySkips
<1>2. CASE ~(s.ckr = NoChain \/ until <= s.nr)
  <2>1. PICK new : new = s.skipped \cup {[dh |-> s.dhr, n |-> i, chain |-> s.ckr] : i \in s.nr..(until - 1)}
    OBVIOUS
  <2>2. new \in SUBSET [dh : Nat, n : Nat, chain : Roots]
    <3>1. \A i \in s.nr..(until - 1) : [dh |-> s.dhr, n |-> i, chain |-> s.ckr] \in [dh : Nat, n : Nat, chain : Roots]
      BY DEF Ratchets
    <3> QED BY <2>1, <3>1 DEF Ratchets
  <2>3. t = [s EXCEPT !.nr = until, !.skipped = new]
    BY <1>2, <2>1 DEF SkipTo
  <2> QED BY <2>2, <2>3 DEF Ratchets, OnlySkips
<1> QED BY <1>1, <1>2

\* A step: the root goes on with what the hooks mix in and the two new secrets.
LEMMA StepsOn ==
  ASSUME NEW s \in Ratchets, NEW dh \in Nat, NEW k \in Nat, NEW inn \in Roots, NEW ott \in Roots,
         NEW t, t = DhStep(s, dh, k, inn, ott)
  PROVE  StepsTo(s, t, dh, k, inn, ott)
<1>1. PICK recv \in Roots : recv = Append(s.rk \o inn, {s.dhs, dh})
  <2>1. s.rk \in Roots /\ {s.dhs, dh} \in SUBSET Int
    BY DEF Ratchets
  <2>2. s.rk \o inn \in Roots
    BY <2>1 DEF Roots
  <2>3. Append(s.rk \o inn, {s.dhs, dh}) \in Roots
    BY <2>1, <2>2 DEF Roots
  <2> QED BY <2>3
<1>2. PICK send \in Roots : send = Append(recv \o ott, {k, dh})
  <2>1. recv \o ott \in Roots /\ {k, dh} \in SUBSET Int
    BY DEF Roots
  <2>2. Append(recv \o ott, {k, dh}) \in Roots
    BY <2>1 DEF Roots
  <2> QED BY <2>2
<1>3. t = [s EXCEPT !.pn = s.ns, !.ns = 0, !.nr = 0, !.dhr = dh, !.ckr = recv, !.dhs = k, !.cks = send, !.rk = send]
  BY <1>1, <1>2 DEF DhStep, KdfRootKey, Shared
<1>4. t = [rk |-> send, dhs |-> k, dhr |-> dh, cks |-> send, ckr |-> recv, ns |-> 0, nr |-> 0, pn |-> s.ns,
           skipped |-> s.skipped]
  BY <1>3 DEF Ratchets
<1>5. s.ns \in Nat /\ s.skipped \in SUBSET [dh : Nat, n : Nat, chain : Roots]
  BY DEF Ratchets
<1>6. t \in Ratchets
  BY <1>4, <1>5 DEF Ratchets
<1>7. t.ckr = recv /\ t.rk = send /\ t.cks = t.rk /\ t.dhs = k /\ t.dhr = dh
  BY <1>4
<1>8. t.ckr = Append(s.rk \o inn, {s.dhs, dh}) /\ t.rk = Append(t.ckr \o ott, {k, dh})
  BY <1>1, <1>2, <1>7, Zenon
<1> QED BY <1>6, <1>7, <1>8 DEF StepsTo

\* A message is read on the root as it is, or by a step from it.
SameRoot(s, t) == t \in Ratchets /\ t.rk = s.rk /\ t.cks = s.cks /\ t.dhs = s.dhs /\ t.dhr = s.dhr
NextRoot(s, R, dh, k, inn, ott) ==
  /\ dh # s.dhr /\ R.key.chain = Append(s.rk \o inn, {s.dhs, dh})
  /\ R.state.rk = Append(R.key.chain \o ott, {k, dh}) /\ R.state.cks = R.state.rk
  /\ R.state.dhs = k /\ R.state.dhr = dh

LEMMA ReadOrStepped ==
  ASSUME NEW s \in Ratchets, NEW hdr \in Header, NEW k \in Nat, NEW inn \in Roots, NEW ott \in Roots,
         NEW R, R = Receive(s, hdr, k, inn, ott), R.key.chain # NoChain
  PROVE  R.state \in Ratchets /\ (SameRoot(s, R.state) \/ NextRoot(s, R, hdr.dh, k, inn, ott))
<1>0. hdr.dh \in Nat /\ hdr.n \in Nat /\ hdr.pn \in Nat
  BY DEF Header
<1>1. CASE Cached(s, hdr) # {}
  <2>1. PICK e \in s.skipped : R = [key |-> [chain |-> e.chain, n |-> e.n], state |-> UseUp(s, e)]
    BY <1>1 DEF Receive, Cached
  <2>2. PICK rest \in SUBSET [dh : Nat, n : Nat, chain : Roots] : rest = s.skipped \ {e}
    BY DEF Ratchets
  <2>3. R.state = [s EXCEPT !.skipped = rest]
    BY <2>1, <2>2 DEF UseUp
  <2> QED BY <2>3 DEF Ratchets, SameRoot
<1>2. CASE Cached(s, hdr) = {} /\ hdr.dh = s.dhr
  <2> DEFINE t == SkipTo(s, hdr.n)
  <2>1. ~SkipFails(s, hdr.n)
    BY <1>2 DEF Receive, NoKey
  <2>2. R = [key |-> [chain |-> t.ckr, n |-> t.nr], state |-> [t EXCEPT !.nr = @ + 1]]
    BY <1>2, <2>1 DEF Receive
  <2>3. OnlySkips(s, t)
    BY <1>0, SkipsOnly
  <2> HIDE DEF t
  <2> QED BY <2>2, <2>3 DEF Ratchets, SameRoot, OnlySkips
<1>3. CASE Cached(s, hdr) = {} /\ hdr.dh # s.dhr
  <2> DEFINE s0 == SkipTo(s, hdr.pn)
             s1 == DhStep(s0, hdr.dh, k, inn, ott)
             t  == SkipTo(s1, hdr.n)
  <2>1. ~SkipFails(s, hdr.pn) /\ ~SkipFails(s1, hdr.n)
    BY <1>3 DEF Receive, NoKey
  <2>2. R = [key |-> [chain |-> t.ckr, n |-> t.nr], state |-> [t EXCEPT !.nr = @ + 1]]
    BY <1>3, <2>1 DEF Receive
  <2>3. OnlySkips(s, s0)
    BY <1>0, SkipsOnly
  <2>3b. s0 \in Ratchets /\ s0.rk = s.rk /\ s0.dhs = s.dhs
    BY <2>3 DEF OnlySkips
  <2>4. StepsTo(s0, s1, hdr.dh, k, inn, ott)
    BY <1>0, <2>3b, StepsOn
  <2>4b. s1 \in Ratchets
    BY <2>4 DEF StepsTo
  <2>5. OnlySkips(s1, t)
    BY <1>0, <2>4b, SkipsOnly
  <2> HIDE DEF s0, s1, t
  <2>6. /\ R.state \in Ratchets /\ R.state.rk = t.rk /\ R.state.dhs = t.dhs /\ R.state.dhr = t.dhr
        /\ R.state.cks = t.cks /\ R.key.chain = t.ckr
    BY <2>2, <2>5 DEF Ratchets, OnlySkips
  <2>7. /\ R.key.chain = Append(s.rk \o inn, {s.dhs, hdr.dh}) /\ R.state.rk = Append(R.key.chain \o ott, {k, hdr.dh})
        /\ R.state.cks = R.state.rk /\ R.state.dhs = k /\ R.state.dhr = hdr.dh
    BY <2>3b, <2>4, <2>5, <2>6, Zenon DEF OnlySkips, StepsTo
  <2> QED BY <1>3, <2>6, <2>7 DEF NextRoot
<1> QED BY <1>1, <1>2, <1>3

-----------------------------------------------------------------------------
\* As long as the roots and key pairs stay, so do the line and the epochs mixed in.
LEMMA RootsStay ==
  ASSUME RekeyTypes, OnRoot, OneLine, pairs' = pairs, \A d \in Sides : SameRoot(sess[d], sess'[d])
  PROVE  OnRoot' /\ OneLine' /\ \A d \in Sides : Mixes(d)' = Mixes(d)
<1>1. \A d \in Sides : /\ sess'[d].rk = sess[d].rk /\ sess'[d].cks = sess[d].cks
                       /\ sess'[d].dhs = sess[d].dhs /\ sess'[d].dhr = sess[d].dhr
  BY DEF SameRoot
<1>2. OnRoot'
  BY <1>1 DEF OnRoot
<1>3. OneLine'
  BY <1>1 DEF OneLine, Ahead, Other, Sides
<1>4. \A d \in Sides : Mixes(d)' = Mixes(d)
  BY <1>1 DEF Mixes
<1> QED BY <1>2, <1>3, <1>4

LEMMA Announces ==
  ASSUME RekeyTypes, OneEach, NEW d \in Sides, NEW due \in BOOLEAN, NEW o, o = Announced(d, due)
  PROVE  /\ o \in Outs /\ (d = "responder" => o = NoOut)
         /\ d = "initiator" /\ o # NoOut /\ o.conf = NoChain => o.tgt = epoch[d] + 1
<1>1. NoOut \in Outs
  BY DEF NoOut, Outs, NoChain, Roots
<1>2. CASE due /\ d = "initiator" /\ out[d] = NoOut /\ epoch[d] < MaxEpoch
  <2>1. o = [NoOut EXCEPT !.tgt = epoch[d] + 1, !.ek = cached]
    BY <1>2 DEF Announced
  <2>2. o = [tgt |-> epoch[d] + 1, ek |-> cached, sends |-> 0, conf |-> NoChain]
    BY <2>1 DEF NoOut
  <2>3. NoChain \in Roots /\ epoch[d] + 1 \in Nat /\ cached \in Nat
    BY DEF RekeyTypes, NoChain, Roots
  <2>4. o \in Outs
    BY <2>2, <2>3 DEF Outs
  <2>5. o.tgt = epoch[d] + 1
    BY <2>2
  <2>6. d = "initiator" /\ "initiator" # "responder"
    BY <1>2
  <2> QED BY <2>4, <2>5, <2>6
<1>3. CASE ~(due /\ d = "initiator" /\ out[d] = NoOut /\ epoch[d] < MaxEpoch)
  <2>1. o = out[d]
    BY <1>3 DEF Announced
  <2> QED BY <2>1 DEF RekeyTypes, OneEach, Waiting
<1> QED BY <1>2, <1>3

\* A message is sent on the root its sender has.
LEMMA SendKeeps ==
  ASSUME RekeyInv, NEW d \in Sides, NEW due \in BOOLEAN, NEW arrives \in BOOLEAN, Send(d, due, arrives)
  PROVE  RekeyInv'
<1>0. RekeyTypes /\ OnRoot /\ SentOnRoot /\ OneLine /\ OneEach
  BY DEF RekeyInv
<1>1. PICK o : o = Announced(d, due)
  OBVIOUS
<1>2. /\ o \in Outs /\ (d = "responder" => o = NoOut)
      /\ d = "initiator" /\ o # NoOut /\ o.conf = NoChain => o.tgt = epoch[d] + 1
  BY <1>0, <1>1, Announces
<1>3. PICK m : m = [from |-> d, header |-> SendHeader(sess[d]), epoch |-> epoch[d], conf |-> Conf(o),
                    ct |-> IF Carries(o) THEN [tgt |-> o.tgt, ek |-> o.ek] ELSE NoCt, key |-> SendKey(sess[d])]
  OBVIOUS
<1>4. /\ sess[d].cks # NoChain /\ sess' = [sess EXCEPT ![d] = AfterSend(@)]
      /\ out' = [out EXCEPT ![d] = IF Carries(o) THEN [o EXCEPT !.sends = @ + 1] ELSE o]
      /\ stored' \in {stored, stored \cup {m}} /\ UNCHANGED <<epoch, in, kem, cached, read, pairs>>
  BY <1>1, <1>3 DEF Send
<1>5. sess[d] \in Ratchets /\ sess[d].cks = sess[d].rk /\ sess[d].dhs <= pairs
  BY <1>0, <1>4 DEF RekeyTypes, OnRoot
<1>6. PICK s : s = AfterSend(sess[d])
  OBVIOUS
<1>7. SameRoot(sess[d], s) /\ sess' = [sess EXCEPT ![d] = s]
  BY <1>4, <1>5, <1>6 DEF AfterSend, SameRoot, Ratchets
<1>8. \A e \in Sides : SameRoot(sess[e], sess'[e]) /\ sess'[e] \in Ratchets
  BY <1>0, <1>7 DEF RekeyTypes, SameRoot
<1>9. PICK n \in Outs : /\ out' = [out EXCEPT ![d] = n] /\ (d = "responder" => n = NoOut)
                        /\ d = "initiator" /\ n # NoOut /\ n.conf = NoChain => n.tgt = epoch[d] + 1
  <2>1. CASE Carries(o)
    <3>1. [o EXCEPT !.sends = @ + 1] \in Outs /\ o # NoOut
      BY <1>2, <2>1 DEF Outs, Carries
    <3>2. PICK n \in Outs : n = [o EXCEPT !.sends = @ + 1]
      BY <3>1
    <3>3. n.tgt = o.tgt /\ n.conf = o.conf
      BY <1>2, <3>2 DEF Outs
    <3> QED BY <1>2, <1>4, <2>1, <3>1, <3>2, <3>3
  <2>2. CASE ~Carries(o)
    BY <1>2, <1>4, <2>2
  <2> QED BY <2>1, <2>2
<1>10. m \in Carriers /\ m.from = d /\ m.key.chain = sess[d].rk /\ m.header.dh = sess[d].dhs
  <2>1. SendHeader(sess[d]) \in Header /\ SendKey(sess[d]) \in [chain : Roots, n : Nat]
    BY <1>5 DEF SendHeader, SendKey, Header, Ratchets
  <2>2. PICK ct \in Cts : ct = IF Carries(o) THEN [tgt |-> o.tgt, ek |-> o.ek] ELSE NoCt
    <3>1. NoCt \in Cts /\ [tgt |-> o.tgt, ek |-> o.ek] \in Cts
      BY <1>2 DEF NoCt, Cts, Outs
    <3> QED BY <3>1
  <2>3. epoch[d] \in Nat /\ Conf(o) \in Roots
    BY <1>0, <1>2 DEF RekeyTypes, Conf, Outs
  <2>4. m = [from |-> d, header |-> SendHeader(sess[d]), epoch |-> epoch[d], conf |-> Conf(o), ct |-> ct,
             key |-> SendKey(sess[d])]
    BY <1>3, <2>2
  <2>5. m \in Carriers
    BY <2>1, <2>3, <2>4 DEF Carriers
  <2> QED BY <1>5, <2>4, <2>5 DEF SendHeader, SendKey
<1>11. RekeyTypes'
  <2>1. sess' \in [Sides -> Ratchets] /\ out' \in [Sides -> Outs]
    BY <1>0, <1>7, <1>9 DEF RekeyTypes, SameRoot
  <2> QED BY <1>0, <1>4, <1>10, <2>1 DEF RekeyTypes
<1>12. OnRoot' /\ OneLine' /\ \A e \in Sides : Mixes(e)' = Mixes(e)
  BY <1>0, <1>4, <1>8, RootsStay
<1>13. SentOnRoot'
  <2>1. sess[d].rk # NoChain /\ Prefix(sess[d].rk, sess[d].rk)
    BY <1>0, <1>5 DEF OnRoot, Prefix, Ratchets, Roots
  <2>2. \A x \in stored : x.from \in Sides
    BY <1>0 DEF RekeyTypes, Carriers
  <2>3. \A e \in Sides : sess'[e].rk = sess[e].rk
    BY <1>8 DEF SameRoot
  <2> QED BY <1>0, <1>4, <1>5, <1>10, <2>1, <2>2, <2>3 DEF SentOnRoot
<1>14. OneEach'
  <2>1. \A e \in Sides : (Cardinality(Mixes(e)) = epoch[e])'
    BY <1>0, <1>4, <1>12 DEF OneEach
  <2>2. (out["responder"] = NoOut)'
    BY <1>0, <1>9 DEF OneEach, RekeyTypes, Sides
  <2>3. (Waiting("initiator") => out["initiator"].tgt = epoch["initiator"] + 1)'
    BY <1>0, <1>4, <1>9 DEF OneEach, RekeyTypes, Sides, Waiting
  <2> QED BY <2>1, <2>2, <2>3 DEF OneEach
<1> QED BY <1>11, <1>12, <1>13, <1>14 DEF RekeyInv

\* What a hook mixes in: nothing, or one secret.
LEMMA MixInIs ==
  ASSUME RekeyTypes, NEW d \in Sides, NEW m \in stored, ~Locked(d, m)
  PROVE  \/ MixIn(d, m) = <<>> /\ ~Advances(d, m)
         \/ /\ Advances(d, m) /\ d = "responder"
            /\ \E x \in SUBSET Int : MixIn(d, m) = <<x>> /\ Secret(x)
<1>1. CASE ~Advances(d, m)
  BY <1>1 DEF MixIn
<1>2. CASE Advances(d, m)
  <2>1. d = "responder" /\ Harvest(d, m).tgt = m.epoch
    BY <1>2 DEF Locked
  <2>2. m.epoch \in Nat /\ m.epoch = epoch[d] + 1 /\ epoch[d] \in Nat /\ m.header.dh \in Nat
    BY <1>2 DEF RekeyTypes, Advances, Carriers, Header
  <2>3. Harvest(d, m) \in Cts
    <3>1. m.ct \in Cts /\ in[d] \in Cts /\ NoCt \in Cts
      BY DEF RekeyTypes, Carriers, Cts, NoCt
    <3> QED BY <3>1 DEF Harvest
  <2>4. PICK x : x = Mix(m.header.dh, Harvest(d, m), kem)
    OBVIOUS
  <2>5. PICK tgt, ek \in Nat : tgt = Harvest(d, m).tgt /\ ek = kem
    BY <2>3 DEF Cts, RekeyTypes
  <2>6. x = {m.header.dh, -tgt, -(MaxEpoch + ek)}
    BY <2>4, <2>5 DEF Mix
  <2>7. -tgt \in Int /\ -tgt < 0 /\ -(MaxEpoch + ek) \in Int
    BY <2>1, <2>2, <2>5, RekeyAssumption
  <2>8. x \in SUBSET Int /\ Secret(x)
    BY <2>2, <2>6, <2>7 DEF Secret
  <2> QED BY <1>2, <2>1, <2>4, <2>8 DEF MixIn
<1> QED BY <1>1, <1>2

LEMMA MixOutIs ==
  ASSUME RekeyTypes, OneEach, NEW d \in Sides
  PROVE  \/ MixOut(d) = <<>> /\ ~Waiting(d)
         \/ /\ Waiting(d) /\ d = "initiator" /\ out[d].tgt = epoch[d] + 1
            /\ \E x \in SUBSET Int : MixOut(d) = <<x>> /\ Secret(x)
<1>1. CASE ~Waiting(d)
  BY <1>1 DEF MixOut
<1>2. CASE Waiting(d)
  <2>1. d = "initiator" /\ out[d].tgt = epoch[d] + 1
    BY <1>2 DEF OneEach, Waiting, Sides
  <2>2. PICK tgt, ek \in Nat : tgt = out[d].tgt /\ ek = out[d].ek
    BY DEF RekeyTypes, Outs
  <2>3. epoch[d] \in Nat /\ pairs + 1 \in Nat
    BY DEF RekeyTypes
  <2>4. PICK x : x = {pairs + 1, -tgt, -(MaxEpoch + ek)}
    OBVIOUS
  <2>5. -tgt \in Int /\ -tgt < 0 /\ -(MaxEpoch + ek) \in Int
    BY <2>1, <2>2, <2>3, RekeyAssumption
  <2>6. x \in SUBSET Int /\ Secret(x)
    BY <2>3, <2>4, <2>5 DEF Secret
  <2>7. MixOut(d) = <<x>>
    BY <1>2, <2>2, <2>4 DEF MixOut, Mix
  <2> QED BY <1>2, <2>1, <2>6, <2>7
<1> QED BY <1>1, <1>2

\* The secrets in a root that goes on by what is mixed in and the secrets of two steps.
Marked(r) == {i \in 1..Len(r) : Secret(r[i])}

LEMMA AppendPlain ==
  ASSUME NEW r \in Roots, NEW x \in SUBSET Int, ~Secret(x)
  PROVE  Append(r, x) \in Roots /\ Marked(Append(r, x)) = Marked(r)
<1>1. /\ Append(r, x) \in Roots /\ Len(Append(r, x)) = Len(r) + 1 /\ Len(r) \in Nat
      /\ \A i \in 1..Len(r) : Append(r, x)[i] = r[i] /\ Append(r, x)[Len(r) + 1] = x
  BY DEF Roots
<1>2. 1..(Len(r) + 1) = 1..Len(r) \cup {Len(r) + 1}
  BY <1>1
<1> QED BY <1>1, <1>2 DEF Marked

LEMMA AppendSecret ==
  ASSUME NEW r \in Roots, NEW x \in SUBSET Int, Secret(x)
  PROVE  Append(r, x) \in Roots /\ Cardinality(Marked(Append(r, x))) = Cardinality(Marked(r)) + 1
<1>1. /\ Append(r, x) \in Roots /\ Len(Append(r, x)) = Len(r) + 1 /\ Len(r) \in Nat
      /\ Append(r, x)[Len(r) + 1] = x
  BY DEF Roots
<1>1b. \A i \in 1..Len(r) : Append(r, x)[i] = r[i]
  BY DEF Roots
<1>2. 1..(Len(r) + 1) = 1..Len(r) \cup {Len(r) + 1} /\ Len(r) + 1 \notin 1..Len(r)
  BY <1>1
<1>3. Marked(Append(r, x)) = Marked(r) \cup {Len(r) + 1} /\ Len(r) + 1 \notin Marked(r)
  BY <1>1, <1>1b, <1>2 DEF Marked
<1>4. IsFiniteSet(1..Len(r))
  <2>1. \A n \in Nat : 1 \in Int /\ n \in Int
    OBVIOUS
  <2> QED BY <1>1, <2>1, FS_Interval
<1>5. IsFiniteSet(Marked(r))
  BY <1>4, FS_Subset DEF Marked
<1> QED BY <1>1, <1>3, <1>5, FS_AddElement

\* A root that goes on by a step: what is mixed in is one secret, or nothing.
GoesTo(r, inn, x, p, c) ==
  /\ c \in Roots /\ Prefix(r, c) /\ c[Len(c)] = p
  /\ inn = <<>> => Len(c) = Len(r) + 1 /\ Cardinality(Marked(c)) = Cardinality(Marked(r))
  /\ inn = <<x>> => /\ Len(c) = Len(r) + 2 /\ Cardinality(Marked(c)) = Cardinality(Marked(r)) + 1
                    /\ c[Len(r) + 1] = x

LEMMA GoesOn ==
  ASSUME NEW r \in Roots, NEW inn, NEW x \in SUBSET Int, inn = <<>> \/ (inn = <<x>> /\ Secret(x)),
         NEW p \in SUBSET Int, ~Secret(p), NEW c, c = Append(r \o inn, p)
  PROVE  GoesTo(r, inn, x, p, c)
<1> USE DEF GoesTo
<1>1. CASE inn = <<>>
  <2>1. r \o inn = r /\ inn # <<x>>
    BY <1>1 DEF Roots
  <2>2. c = Append(r, p)
    BY <2>1
  <2>3. c \in Roots /\ Marked(c) = Marked(r)
    BY <2>2, AppendPlain
  <2>4. Prefix(r, c) /\ c[Len(c)] = p /\ Len(c) = Len(r) + 1
    BY <2>2 DEF Prefix, Roots
  <2> QED BY <1>1, <2>1, <2>3, <2>4
<1>2. CASE inn = <<x>> /\ Secret(x)
  <2>1. PICK q \in Roots : q = Append(r, x) /\ Cardinality(Marked(q)) = Cardinality(Marked(r)) + 1
    BY <1>2, AppendSecret
  <2>2. r \o inn = q /\ inn # <<>>
    BY <1>2, <2>1 DEF Roots
  <2>3. c = Append(q, p)
    BY <2>2
  <2>4. c \in Roots /\ Marked(c) = Marked(q)
    BY <2>3, AppendPlain
  <2>5. /\ Len(q) = Len(r) + 1 /\ q[Len(r) + 1] = x /\ Len(r) \in Nat
        /\ \A i \in 1..Len(r) : q[i] = r[i]
    BY <2>1 DEF Roots
  <2>6. Len(c) = Len(q) + 1 /\ c[Len(q) + 1] = p /\ \A i \in 1..Len(q) : c[i] = q[i]
    BY <2>3 DEF Roots
  <2>7. Prefix(r, c) /\ c[Len(c)] = p /\ Len(c) = Len(r) + 2 /\ c[Len(r) + 1] = x
    BY <2>5, <2>6 DEF Prefix
  <2> QED BY <1>2, <2>1, <2>2, <2>4, <2>7
<1> QED BY <1>1, <1>2

\* The root that an epoch's activation remembers is a root.
LEMMA RootBefore ==
  ASSUME NEW z \in Roots, Len(z) >= 2
  PROVE  SubSeq(z, 1, Len(z) - 1) \in Roots /\ SubSeq(z, 1, Len(z) - 1) # NoChain
<1>1. z \in Seq(SUBSET Int) /\ Len(z) \in Nat
  BY DEF Roots
<1>2. PICK n \in Int : n = Len(z) - 1 /\ 1 <= n
  BY <1>1
<1>3. \A i \in 1..n : z[i] \in SUBSET Int
  BY <1>1, <1>2
<1>4. SubSeq(z, 1, n) \in Seq(SUBSET Int) /\ Len(SubSeq(z, 1, n)) = IF 1 <= n THEN n - 1 + 1 ELSE 0
  BY <1>3, SubSeqProperties
<1>5. PICK f : f = SubSeq(z, 1, n)
  OBVIOUS
<1>6. f \in Roots /\ Len(f) >= 1
  BY <1>2, <1>4, <1>5 DEF Roots
<1>7. Len(NoChain) = 0
  BY DEF NoChain
<1>8. f # NoChain
  BY <1>6, <1>7
<1>9. f = SubSeq(z, 1, Len(z) - 1)
  BY <1>2, <1>5
<1> QED BY <1>6, <1>8, <1>9

LEMMA PrefixOfPrefix ==
  ASSUME NEW p \in Roots, NEW q \in Roots, NEW r \in Roots, Prefix(p, q), Prefix(q, r)
  PROVE  Prefix(p, r)
<1>1. Len(p) \in Nat /\ Len(q) \in Nat /\ Len(r) \in Nat
  BY DEF Roots
<1>2. Len(p) <= Len(r) /\ \A i \in 1..Len(p) : i \in 1..Len(q)
  BY <1>1 DEF Prefix
<1> QED BY <1>2 DEF Prefix

\* Two secrets of a step are no secret of a rekey.
LEMMA PairIsPlain ==
  ASSUME NEW x \in Nat, NEW y \in Nat
  PROVE  {x, y} \in SUBSET Int /\ ~Secret({x, y})
BY DEF Secret

\* Whoever can step is behind, and steps onto the root that the other side is at.
LEMMA StepsOntoTheOther ==
  ASSUME RekeyInv, NEW d \in Sides, NEW a \in Sides, a = Other(d), NEW m \in stored, m.from = a,
         NEW x \in SUBSET Int, NEW inn, inn = <<>> \/ (inn = <<x>> /\ Secret(x)),
         m.key.chain = Append(sess[d].rk \o inn, {sess[d].dhs, m.header.dh})
  PROVE  /\ m.key.chain = sess[a].rk /\ m.header.dh = sess[a].dhs
         /\ sess[a].dhr # pairs + 1
<1>1. PICK A \in Ratchets, B \in Ratchets : A = sess[a] /\ B = sess[d]
  BY DEF RekeyInv, RekeyTypes
<1>2. PICK h \in Nat : h = m.header.dh
  <2>1. m.header \in Header
    BY DEF RekeyInv, RekeyTypes, Carriers
  <2> QED BY <2>1 DEF Header
<1>3. PICK c : c = m.key.chain
  OBVIOUS
<1>4. /\ A.rk \in Roots /\ B.rk \in Roots /\ A.dhs \in Nat /\ B.dhs \in Nat /\ A.dhr \in Nat
      /\ Len(A.rk) \in Nat /\ Len(B.rk) \in Nat
  BY DEF Ratchets, Roots
<1>5. PICK p \in SUBSET Int : p = {B.dhs, h} /\ ~Secret(p)
  BY <1>4, PairIsPlain
<1>6. c = Append(B.rk \o inn, p)
  BY <1>1, <1>2, <1>3, <1>5
<1>7. /\ c \in Roots /\ Prefix(B.rk, c) /\ c[Len(c)] = p /\ Len(c) \in Nat
      /\ inn = <<>> => Len(c) = Len(B.rk) + 1
      /\ inn = <<x>> => Len(c) = Len(B.rk) + 2
  <2>1. GoesTo(B.rk, inn, x, p, c)
    BY <1>4, <1>5, <1>6, GoesOn
  <2> QED BY <2>1 DEF Roots, GoesTo
<1>8. Prefix(c, A.rk)
  BY <1>1, <1>3 DEF RekeyInv, SentOnRoot
<1>9. ~Ahead(d)
  <2>1. Len(B.rk) < Len(c) /\ Len(c) <= Len(A.rk)
    BY <1>4, <1>7, <1>8 DEF Prefix
  <2>2. Other(d) = a /\ ~Prefix(A.rk, B.rk)
    BY <1>4, <1>7, <2>1 DEF Prefix
  <2> QED BY <1>1, <2>2 DEF Ahead
<1>10. Ahead(a) /\ Other(a) = d
  BY <1>9 DEF RekeyInv, OneLine, Other, Sides
<1>11. /\ Len(A.rk) \in {Len(B.rk) + 1, Len(B.rk) + 2} /\ A.rk[Len(A.rk)] = {A.dhs, B.dhs}
       /\ Len(A.rk) = Len(B.rk) + 2 => Secret(A.rk[Len(B.rk) + 1])
  BY <1>1, <1>10 DEF Ahead
<1>12. Len(c) = Len(A.rk)
  <2>1. CASE inn = <<x>>
    BY <1>4, <1>7, <1>8, <1>11, <2>1 DEF Prefix
  <2>2. CASE inn = <<>>
    <3>1. Len(c) = Len(B.rk) + 1 /\ c[Len(B.rk) + 1] = p
      BY <1>7, <2>2
    <3>2. A.rk[Len(B.rk) + 1] = p
      BY <1>4, <1>8, <3>1 DEF Prefix
    <3> QED BY <1>4, <1>5, <1>11, <3>1, <3>2
  <2> QED BY <2>1, <2>2
<1>13. c = A.rk
  <2>1. \A i \in 1..Len(c) : c[i] = A.rk[i]
    BY <1>8 DEF Prefix
  <2>2. PICK r \in Roots : r = A.rk
    BY <1>4
  <2>3. c \in Seq(SUBSET Int) /\ r \in Seq(SUBSET Int) /\ Len(c) = Len(r) /\ \A i \in 1..Len(c) : c[i] = r[i]
    BY <1>7, <1>12, <2>1, <2>2 DEF Roots
  <2>4. c = r
    BY <2>3, SeqEqual
  <2> QED BY <2>2, <2>4
<1>14. h = A.dhs
  <2>1. {B.dhs, h} = {A.dhs, B.dhs}
    BY <1>5, <1>7, <1>11, <1>13
  <2> QED BY <2>1
<1>15. A.dhr # pairs + 1
  <2>1. A.dhr <= pairs /\ pairs \in Nat
    BY <1>1 DEF RekeyInv, OnRoot, RekeyTypes
  <2> QED BY <1>4, <2>1
<1> QED BY <1>1, <1>2, <1>3, <1>13, <1>14, <1>15

\* What a message of the other side finds when it is read, as constants.
ReadsTo(d, m, inn, x, ott, y, h, R) ==
  /\ inn = MixIn(d, m) /\ ott = MixOut(d) /\ h = Harvest(d, m)
  /\ inn \in Roots /\ ott \in Roots /\ h \in Cts
  /\ \/ inn = <<>> /\ ~Advances(d, m)
     \/ inn = <<x>> /\ Secret(x) /\ Advances(d, m) /\ d = "responder"
  /\ \/ ott = <<>> /\ ~Waiting(d)
     \/ ott = <<y>> /\ Secret(y) /\ Waiting(d) /\ d = "initiator" /\ out[d].tgt = epoch[d] + 1
  /\ R.key = m.key /\ R.state \in Ratchets
  /\ SameRoot(sess[d], R.state) \/ NextRoot(sess[d], R, m.header.dh, pairs + 1, inn, ott)
  /\ sess' = [sess EXCEPT ![d] = R.state]
  /\ pairs' = IF R.state.dhs = pairs + 1 THEN pairs + 1 ELSE pairs
  /\ epoch' = [epoch EXCEPT ![d] = IF R.state.dhs = pairs + 1 /\ Advances(d, m) THEN m.epoch
                                   ELSE IF R.state.dhs = pairs + 1 /\ Waiting(d) THEN out[d].tgt ELSE @]
  /\ in' = [in EXCEPT ![d] = IF R.state.dhs = pairs + 1 /\ Advances(d, m) THEN NoCt ELSE h]
  /\ out' = [out EXCEPT ![d] = IF Echoed(d, m) THEN NoOut
                               ELSE IF R.state.dhs = pairs + 1 /\ Waiting(d) THEN Activate(@, R.state) ELSE @]
  /\ UNCHANGED <<kem, cached, stored>>

LEMMA ReadFinds ==
  ASSUME RekeyInv, NEW d \in Sides, NEW m \in stored, Read(d, m)
  PROVE  \E inn, ott, h, R : \E x, y \in SUBSET Int : ReadsTo(d, m, inn, x, ott, y, h, R)
<1>1. RekeyTypes /\ OneEach /\ SentOnRoot /\ ~Locked(d, m) /\ Trial(d, m).key = m.key
  BY DEF RekeyInv, Read, Readable
<1>2. m.header \in Header /\ m.key.chain # NoChain /\ sess[d] \in Ratchets /\ pairs + 1 \in Nat
  BY <1>1 DEF RekeyTypes, Carriers, SentOnRoot
<1>3. PICK inn : inn = MixIn(d, m)
  OBVIOUS
<1>4. PICK x \in SUBSET Int : \/ inn = <<>> /\ ~Advances(d, m)
                              \/ inn = <<x>> /\ Secret(x) /\ Advances(d, m) /\ d = "responder"
  <2>1. CASE inn = <<>> /\ ~Advances(d, m)
    <3>1. {} \in SUBSET Int
      OBVIOUS
    <3> QED BY <2>1, <3>1
  <2>2. CASE ~(inn = <<>> /\ ~Advances(d, m))
    BY <1>1, <1>3, <2>2, MixInIs
  <2> QED BY <2>1, <2>2
<1>5. PICK ott : ott = MixOut(d)
  OBVIOUS
<1>6. PICK y \in SUBSET Int :
         \/ ott = <<>> /\ ~Waiting(d)
         \/ ott = <<y>> /\ Secret(y) /\ Waiting(d) /\ d = "initiator" /\ out[d].tgt = epoch[d] + 1
  <2>1. CASE ott = <<>> /\ ~Waiting(d)
    <3>1. {} \in SUBSET Int
      OBVIOUS
    <3> QED BY <2>1, <3>1
  <2>2. CASE ~(ott = <<>> /\ ~Waiting(d))
    BY <1>1, <1>5, <2>2, MixOutIs
  <2> QED BY <2>1, <2>2
<1>7. inn \in Roots /\ ott \in Roots
  <2>1. <<>> \in Roots /\ <<x>> \in Roots /\ <<y>> \in Roots
    BY DEF Roots
  <2> QED BY <1>4, <1>6, <2>1
<1>8. PICK h \in Cts : h = Harvest(d, m)
  <2>1. m.ct \in Cts /\ in[d] \in Cts /\ NoCt \in Cts
    BY <1>1 DEF RekeyTypes, Carriers, Cts, NoCt
  <2> QED BY <2>1 DEF Harvest
<1>9. PICK R : R = Trial(d, m)
  OBVIOUS
<1>10. R = Receive(sess[d], m.header, pairs + 1, inn, ott)
  BY <1>3, <1>5, <1>9 DEF Trial
<1>11. R.key = m.key
  BY <1>1, <1>9
<1>12. R.state \in Ratchets /\ (SameRoot(sess[d], R.state) \/ NextRoot(sess[d], R, m.header.dh, pairs + 1, inn, ott))
  BY <1>2, <1>7, <1>10, <1>11, ReadOrStepped
<1>13. /\ sess' = [sess EXCEPT ![d] = R.state]
       /\ pairs' = IF R.state.dhs = pairs + 1 THEN pairs + 1 ELSE pairs
       /\ UNCHANGED <<kem, cached, stored>>
  BY <1>9 DEF Read, Stepped
<1>14. /\ epoch' = [epoch EXCEPT ![d] = IF R.state.dhs = pairs + 1 /\ Advances(d, m) THEN m.epoch
                                        ELSE IF R.state.dhs = pairs + 1 /\ Waiting(d) THEN out[d].tgt ELSE @]
       /\ in' = [in EXCEPT ![d] = IF R.state.dhs = pairs + 1 /\ Advances(d, m) THEN NoCt ELSE h]
  BY <1>8, <1>9 DEF Read, Stepped
<1>15. out' = [out EXCEPT ![d] = IF Echoed(d, m) THEN NoOut
                                 ELSE IF R.state.dhs = pairs + 1 /\ Waiting(d) THEN Activate(@, R.state) ELSE @]
  BY <1>9 DEF Read, Stepped
<1>16. ReadsTo(d, m, inn, x, ott, y, h, R)
  BY <1>3, <1>4, <1>5, <1>6, <1>7, <1>8, <1>11, <1>12, <1>13, <1>14, <1>15 DEF ReadsTo
<1> QED BY <1>16

\* Read without a step: the roots stay.
LEMMA ReadInPlace ==
  ASSUME RekeyInv, NEW d \in Sides, NEW m \in stored, NEW x, NEW y, NEW inn, NEW ott, NEW h, NEW R,
         ReadsTo(d, m, inn, x, ott, y, h, R), SameRoot(sess[d], R.state)
  PROVE  RekeyInv'
<1>0. RekeyTypes /\ OnRoot /\ SentOnRoot /\ OneLine /\ OneEach
  BY DEF RekeyInv
<1>1. R.state.dhs = sess[d].dhs /\ sess[d].dhs <= pairs /\ sess[d].dhs \in Nat /\ pairs \in Nat
  BY <1>0 DEF SameRoot, OnRoot, RekeyTypes, Ratchets
<1>2. R.state.dhs # pairs + 1
  BY <1>1
<1>3. PICK t : t = R.state /\ t \in Ratchets /\ SameRoot(sess[d], t) /\ sess' = [sess EXCEPT ![d] = t]
  BY DEF ReadsTo
<1>4. pairs' = pairs /\ UNCHANGED <<kem, cached, stored>> /\ h \in Cts /\ in' = [in EXCEPT ![d] = h]
  BY <1>2 DEF ReadsTo
<1>5. epoch' = epoch
  <2>1. epoch' = [epoch EXCEPT ![d] = epoch[d]]
    BY <1>2 DEF ReadsTo
  <2> QED BY <1>0, <2>1 DEF RekeyTypes
<1>6. PICK o : o \in {NoOut, out[d]} /\ out' = [out EXCEPT ![d] = o]
  BY <1>2 DEF ReadsTo
<1>7. \A e \in Sides : SameRoot(sess[e], sess'[e]) /\ sess'[e] \in Ratchets
  <2>1. \A e \in Sides : sess[e] \in Ratchets
    BY <1>0 DEF RekeyTypes
  <2>2. \A e \in Sides : sess'[e] = IF e = d THEN t ELSE sess[e]
    BY <1>0, <1>3 DEF RekeyTypes
  <2> QED BY <1>3, <2>1, <2>2 DEF SameRoot
<1>8. RekeyTypes'
  <2>1. NoOut \in Outs
    BY DEF NoOut, Outs, NoChain, Roots
  <2>2. sess' \in [Sides -> Ratchets]
    BY <1>0, <1>3 DEF RekeyTypes
  <2>3. out' \in [Sides -> Outs]
    BY <1>0, <1>6, <2>1 DEF RekeyTypes
  <2>4. in' \in [Sides -> Cts]
    BY <1>0, <1>4 DEF RekeyTypes
  <2> QED BY <1>0, <1>4, <1>5, <2>2, <2>3, <2>4 DEF RekeyTypes
<1>9. OnRoot' /\ OneLine' /\ \A e \in Sides : Mixes(e)' = Mixes(e)
  BY <1>0, <1>4, <1>7, RootsStay
<1>10. SentOnRoot'
  <2>1. \A v \in stored : v.from \in Sides
    BY <1>0 DEF RekeyTypes, Carriers
  <2>2. \A e \in Sides : sess'[e].rk = sess[e].rk
    BY <1>7 DEF SameRoot
  <2> QED BY <1>0, <1>4, <2>1, <2>2 DEF SentOnRoot
<1>11. OneEach'
  <2>1. \A e \in Sides : (Cardinality(Mixes(e)) = epoch[e])'
    BY <1>0, <1>5, <1>9 DEF OneEach
  <2>2. out'["responder"] = NoOut /\ out'["initiator"] \in {NoOut, out["initiator"]}
    BY <1>0, <1>6 DEF OneEach, RekeyTypes, Sides
  <2>3. (Waiting("initiator") => out["initiator"].tgt = epoch["initiator"] + 1)'
    BY <1>0, <1>5, <2>2 DEF OneEach, Waiting
  <2> QED BY <2>1, <2>2, <2>3 DEF OneEach
<1> QED BY <1>8, <1>9, <1>10, <1>11 DEF RekeyInv

\* Read by a step: d is now ahead, of the root it has just reached.
LEMMA ReadAhead ==
  ASSUME RekeyInv, NEW d \in Sides, NEW m \in stored, m.from = Other(d),
         NEW x \in SUBSET Int, NEW y \in SUBSET Int, NEW inn, NEW ott, NEW h, NEW R,
         ReadsTo(d, m, inn, x, ott, y, h, R), NextRoot(sess[d], R, m.header.dh, pairs + 1, inn, ott)
  PROVE  RekeyInv'
<1>0. RekeyTypes /\ OnRoot /\ SentOnRoot /\ OneLine /\ OneEach
  BY DEF RekeyInv
<1>1. PICK a \in Sides : a = Other(d) /\ Other(a) = d /\ a # d /\ Sides = {a, d}
  BY DEF Sides, Other
<1>2. PICK A \in Ratchets, B \in Ratchets : A = sess[a] /\ B = sess[d]
  BY <1>0 DEF RekeyTypes
<1>3. PICK t \in Ratchets, k \in Nat : t = R.state /\ k = pairs + 1
  BY <1>0 DEF RekeyTypes, ReadsTo
<1>4. m.key.chain = Append(B.rk \o inn, {B.dhs, m.header.dh})
  BY <1>2 DEF ReadsTo, NextRoot
<1>5. /\ inn \in Roots /\ ott \in Roots /\ h \in Cts
      /\ \/ inn = <<>> /\ ~Advances(d, m)
         \/ inn = <<x>> /\ Secret(x) /\ Advances(d, m) /\ d = "responder"
      /\ \/ ott = <<>> /\ ~Waiting(d)
         \/ ott = <<y>> /\ Secret(y) /\ Waiting(d) /\ d = "initiator" /\ out[d].tgt = epoch[d] + 1
  BY DEF ReadsTo
<1>6. m.key.chain = A.rk /\ m.header.dh = A.dhs /\ A.dhr # pairs + 1
  <2>1. inn = <<>> \/ (inn = <<x>> /\ Secret(x))
    BY <1>5
  <2> QED BY <1>1, <1>2, <1>4, <2>1, StepsOntoTheOther
<1>7. /\ A.rk = Append(B.rk \o inn, {B.dhs, A.dhs}) /\ t.rk = Append(A.rk \o ott, {k, A.dhs})
      /\ t.cks = t.rk /\ t.dhs = k /\ t.dhr = A.dhs
  BY <1>2, <1>3, <1>4, <1>6 DEF ReadsTo, NextRoot
<1>8. /\ A.rk \in Roots /\ B.rk \in Roots /\ t.rk \in Roots /\ A.dhs \in Nat /\ B.dhs \in Nat /\ A.dhr \in Nat
      /\ Len(A.rk) \in Nat /\ Len(B.rk) \in Nat /\ Len(t.rk) \in Nat
  <2>1. \A z \in Ratchets : z.rk \in Roots /\ z.dhs \in Nat /\ z.dhr \in Nat
    BY DEF Ratchets
  <2>2. \A z \in Roots : Len(z) \in Nat
    BY DEF Roots
  <2> QED BY <2>1, <2>2
<1>9. PICK p, q \in SUBSET Int : p = {B.dhs, A.dhs} /\ ~Secret(p) /\ q = {k, A.dhs} /\ ~Secret(q)
  BY <1>8, PairIsPlain
<1>10. /\ Prefix(B.rk, A.rk)
       /\ inn = <<>> => Len(A.rk) = Len(B.rk) + 1 /\ Cardinality(Marked(A.rk)) = Cardinality(Marked(B.rk))
       /\ inn = <<x>> => /\ Len(A.rk) = Len(B.rk) + 2 /\ Cardinality(Marked(A.rk)) = Cardinality(Marked(B.rk)) + 1
  <2>1. inn = <<>> \/ (inn = <<x>> /\ Secret(x))
    BY <1>5
  <2>2. A.rk = Append(B.rk \o inn, p)
    BY <1>7, <1>9
  <2>3. GoesTo(B.rk, inn, x, p, A.rk)
    BY <1>8, <1>9, <2>1, <2>2, GoesOn
  <2> QED BY <2>3 DEF GoesTo
<1>11. /\ Prefix(A.rk, t.rk) /\ t.rk[Len(t.rk)] = q
       /\ ott = <<>> => Len(t.rk) = Len(A.rk) + 1 /\ Cardinality(Marked(t.rk)) = Cardinality(Marked(A.rk))
       /\ ott = <<y>> => /\ Len(t.rk) = Len(A.rk) + 2 /\ Cardinality(Marked(t.rk)) = Cardinality(Marked(A.rk)) + 1
                         /\ t.rk[Len(A.rk) + 1] = y
  <2>1. ott = <<>> \/ (ott = <<y>> /\ Secret(y))
    BY <1>5
  <2>2. t.rk = Append(A.rk \o ott, q)
    BY <1>7, <1>9
  <2>3. GoesTo(A.rk, ott, y, q, t.rk)
    BY <1>8, <1>9, <2>1, <2>2, GoesOn
  <2> QED BY <2>3 DEF GoesTo
<1>12. Len(A.rk) >= 1 /\ Len(t.rk) >= 2
  BY <1>5, <1>8, <1>10, <1>11
<1>13. /\ sess' = [sess EXCEPT ![d] = t] /\ pairs' = k /\ UNCHANGED <<kem, cached, stored>>
       /\ epoch' = [epoch EXCEPT ![d] = IF Advances(d, m) THEN m.epoch ELSE IF Waiting(d) THEN out[d].tgt ELSE @]
       /\ in' = [in EXCEPT ![d] = IF Advances(d, m) THEN NoCt ELSE h]
       /\ out' = [out EXCEPT ![d] = IF Echoed(d, m) THEN NoOut ELSE IF Waiting(d) THEN Activate(@, t) ELSE @]
  BY <1>3, <1>7 DEF ReadsTo
<1>14. sess'[d] = t /\ sess'[a] = A /\ sess' \in [Sides -> Ratchets]
  BY <1>0, <1>1, <1>2, <1>13 DEF RekeyTypes
<1>15. PICK n \in Nat : /\ epoch' = [epoch EXCEPT ![d] = n] /\ Cardinality(Marked(t.rk)) = n
  <2>1. Cardinality(Marked(B.rk)) = epoch[d] /\ epoch[d] \in Nat
    BY <1>0, <1>2 DEF OneEach, Mixes, Marked, Secret, RekeyTypes
  <2>2. m.epoch \in Nat /\ (Advances(d, m) => m.epoch = epoch[d] + 1)
    BY <1>0 DEF RekeyTypes, Carriers, Advances
  <2>3. CASE Advances(d, m)
    <3>1. inn = <<x>> /\ ott = <<>>
      BY <1>5, <2>3
    <3>2. Cardinality(Marked(t.rk)) = epoch[d] + 1
      BY <1>10, <1>11, <2>1, <3>1
    <3>3. epoch' = [epoch EXCEPT ![d] = epoch[d] + 1]
      BY <1>13, <2>2, <2>3
    <3>4. epoch[d] + 1 \in Nat
      BY <2>1
    <3> QED BY <3>2, <3>3, <3>4
  <2>4. CASE ~Advances(d, m) /\ Waiting(d)
    <3>1. inn = <<>> /\ ott = <<y>> /\ out[d].tgt = epoch[d] + 1
      BY <1>5, <2>4
    <3>2. Cardinality(Marked(t.rk)) = epoch[d] + 1
      BY <1>10, <1>11, <2>1, <3>1
    <3>3. epoch' = [epoch EXCEPT ![d] = epoch[d] + 1]
      BY <1>13, <2>4, <3>1
    <3>4. epoch[d] + 1 \in Nat
      BY <2>1
    <3> QED BY <3>2, <3>3, <3>4
  <2>5. CASE ~Advances(d, m) /\ ~Waiting(d)
    <3>1. inn = <<>> /\ ott = <<>>
      BY <1>5, <2>5
    <3>2. Cardinality(Marked(t.rk)) = epoch[d]
      BY <1>10, <1>11, <2>1, <3>1
    <3>3. epoch' = [epoch EXCEPT ![d] = epoch[d]]
      BY <1>13, <2>5
    <3> QED BY <2>1, <3>2, <3>3
  <2> QED BY <2>3, <2>4, <2>5
<1>16. PICK c \in Cts : in' = [in EXCEPT ![d] = c]
  <2>1. NoCt \in Cts
    BY DEF NoCt, Cts
  <2> QED BY <1>5, <1>13, <2>1
<1>17. PICK o \in Outs : /\ out' = [out EXCEPT ![d] = o] /\ (d = "responder" => o = NoOut)
                         /\ o = NoOut \/ o.conf # NoChain
  <2>1. NoOut \in Outs /\ out[d] \in Outs /\ (d = "responder" => out[d] = NoOut)
    BY <1>0 DEF NoOut, Outs, NoChain, Roots, RekeyTypes, OneEach
  <2>2. CASE Echoed(d, m)
    BY <1>13, <2>1, <2>2
  <2>3. CASE ~Echoed(d, m) /\ Waiting(d)
    <3>1. PICK f : f = SubSeq(t.rk, 1, Len(t.rk) - 1) /\ f \in Roots /\ f # NoChain
      <4>1. SubSeq(t.rk, 1, Len(t.rk) - 1) \in Roots /\ SubSeq(t.rk, 1, Len(t.rk) - 1) # NoChain
        BY <1>8, <1>12, RootBefore
      <4> QED BY <4>1
    <3>2. Activate(out[d], t) = [out[d] EXCEPT !.conf = f]
      BY <3>1 DEF Activate, Mixed
    <3>3. PICK o \in Outs : o = [out[d] EXCEPT !.conf = f]
      BY <2>1, <3>1 DEF Outs
    <3>4. o.conf = f
      BY <2>1, <3>3 DEF Outs
    <3>5. d # "responder"
      BY <1>5, <2>3
    <3>6. out' = [out EXCEPT ![d] = o]
      BY <1>13, <2>3, <3>2, <3>3
    <3> QED BY <3>1, <3>4, <3>5, <3>6
  <2>4. CASE ~Echoed(d, m) /\ ~Waiting(d)
    <3>1. out' = [out EXCEPT ![d] = out[d]]
      BY <1>13, <2>4
    <3> QED BY <2>1, <2>4, <3>1 DEF Waiting
  <2> QED BY <2>2, <2>3, <2>4
<1>18. RekeyTypes'
  <2>1. epoch' \in [Sides -> Nat] /\ in' \in [Sides -> Cts] /\ out' \in [Sides -> Outs]
    BY <1>0, <1>15, <1>16, <1>17 DEF RekeyTypes
  <2> QED BY <1>0, <1>13, <1>14, <2>1 DEF RekeyTypes
<1>19. OnRoot'
  <2>1. /\ A.cks \in {NoChain, A.rk} /\ A.rk # NoChain /\ A.dhs <= pairs /\ A.dhr <= pairs /\ pairs \in Nat
    BY <1>0, <1>2 DEF OnRoot, RekeyTypes
  <2>2. A.dhs <= k /\ A.dhr <= k /\ k <= k
    BY <1>3, <1>8, <2>1
  <2>3. t.rk # NoChain
    BY <1>12 DEF NoChain
  <2>4. \A e \in Sides : e = a \/ e = d
    BY <1>1
  <2> QED BY <1>7, <1>13, <1>14, <2>1, <2>2, <2>3, <2>4 DEF OnRoot
<1>20. SentOnRoot'
  <2>1. SUFFICES ASSUME NEW v \in stored
                 PROVE  /\ v.key.chain # NoChain /\ Prefix(v.key.chain, sess'[v.from].rk) /\ v.header.dh <= k
    BY <1>13, <2>1 DEF SentOnRoot
  <2>2. /\ v.key.chain # NoChain /\ Prefix(v.key.chain, sess[v.from].rk) /\ v.header.dh <= pairs
        /\ v.header.dh \in Nat /\ v.key.chain \in Roots /\ v.from \in Sides /\ pairs \in Nat
    BY <1>0 DEF SentOnRoot, RekeyTypes, Carriers, Header
  <2>3. v.header.dh <= k
    BY <1>3, <2>2
  <2>4. CASE v.from = a
    BY <1>2, <1>14, <2>2, <2>3, <2>4
  <2>5. CASE v.from = d
    <3>1. Prefix(v.key.chain, B.rk)
      BY <1>2, <2>2, <2>5
    <3>2. Prefix(v.key.chain, A.rk)
      BY <1>8, <1>10, <2>2, <3>1, PrefixOfPrefix
    <3>3. Prefix(v.key.chain, t.rk)
      BY <1>8, <1>11, <2>2, <3>2, PrefixOfPrefix
    <3> QED BY <1>14, <2>2, <2>3, <2>5, <3>3
  <2> QED BY <1>1, <2>2, <2>4, <2>5
<1>21. OneLine'
  <2>1. Len(t.rk) \in {Len(A.rk) + 1, Len(A.rk) + 2}
    BY <1>5, <1>11
  <2>2. Len(t.rk) = Len(A.rk) + 2 => d = "initiator" /\ Secret(t.rk[Len(A.rk) + 1])
    BY <1>5, <1>8, <1>11
  <2>3. /\ Prefix(A.rk, t.rk) /\ t.rk[Len(t.rk)] = {t.dhs, A.dhs} /\ t.dhr = A.dhs /\ A.dhr # t.dhs
    BY <1>3, <1>6, <1>7, <1>9, <1>11
  <2>4. Ahead(d)'
    BY <1>1, <1>14, <2>1, <2>2, <2>3 DEF Ahead
  <2> QED BY <2>4 DEF OneLine, Sides
<1>22. OneEach'
  <2>1. Mixes(d)' = Marked(t.rk) /\ Mixes(a)' = Mixes(a)
    BY <1>2, <1>14 DEF Mixes, Marked, Secret
  <2>2. epoch'[d] = n /\ epoch'[a] = epoch[a] /\ out'[d] = o /\ out'[a] = out[a]
    BY <1>0, <1>1, <1>15, <1>17 DEF RekeyTypes
  <2>3. \A e \in Sides : Cardinality(Mixes(e)') = epoch'[e]
    BY <1>0, <1>1, <1>15, <2>1, <2>2 DEF OneEach
  <2>4. out'["responder"] = NoOut
    BY <1>0, <1>1, <1>17, <2>2 DEF OneEach, Sides
  <2>5. (Waiting("initiator") => out["initiator"].tgt = epoch["initiator"] + 1)'
    <3>1. CASE d = "initiator"
      BY <1>17, <2>2, <3>1 DEF Waiting
    <3>2. CASE a = "initiator"
      BY <1>0, <2>2, <3>2 DEF Waiting, OneEach
    <3> QED BY <1>1, <3>1, <3>2 DEF Sides
  <2> QED BY <2>3, <2>4, <2>5 DEF OneEach
<1> QED BY <1>18, <1>19, <1>20, <1>21, <1>22 DEF RekeyInv

LEMMA RekeyReadKeeps ==
  ASSUME RekeyInv, NEW d \in Sides, NEW m \in stored, Read(d, m)
  PROVE  RekeyInv'
<1>1. m.from = Other(d)
  BY DEF Read
<1>2. PICK inn, ott, h, R : \E x, y \in SUBSET Int : ReadsTo(d, m, inn, x, ott, y, h, R)
  BY ReadFinds
<1>3. PICK x \in SUBSET Int, y \in SUBSET Int : ReadsTo(d, m, inn, x, ott, y, h, R)
  BY <1>2
<1>4. SameRoot(sess[d], R.state) \/ NextRoot(sess[d], R, m.header.dh, pairs + 1, inn, ott)
  BY <1>3 DEF ReadsTo
<1> QED BY <1>1, <1>3, <1>4, ReadInPlace, ReadAhead

LEMMA IdentityKeeps ==
  ASSUME RekeyInv, NewIdentity \/ Refresh
  PROVE  RekeyInv'
<1>1. /\ UNCHANGED <<sess, pairs, epoch, out, in, stored>> /\ kem' \in Nat /\ cached' \in Nat
  BY DEF NewIdentity, Refresh, state, RekeyInv, RekeyTypes
<1>2. RekeyTypes'
  BY <1>1 DEF RekeyInv, RekeyTypes
<1>3. OnRoot' /\ SentOnRoot'
  BY <1>1 DEF RekeyInv, OnRoot, SentOnRoot
<1>4. OneLine'
  BY <1>1 DEF RekeyInv, OneLine, Ahead
<1>5. OneEach'
  BY <1>1 DEF RekeyInv, OneEach, Mixes, Waiting
<1> QED BY <1>2, <1>3, <1>4, <1>5 DEF RekeyInv

LEMMA RekeyStart ==
  ASSUME RekeyInit
  PROVE  RekeyInv
<1>1. PICK A, B : A = InitInitiator(1, 2, 1) /\ B = InitResponder(1, 1)
  OBVIOUS
<1>2. PICK r \in Roots : r = <<{1}>>
  <2>1. <<{1}>> \in Roots
    BY DEF Roots
  <2> QED BY <2>1
<1>3. PICK p \in SUBSET Int : p = {2, 1} /\ ~Secret(p)
  BY PairIsPlain
<1>4. PICK q \in Roots : q = Append(r, p)
  BY <1>3, AppendPlain
<1>5. B = [rk |-> r, dhs |-> 1, dhr |-> 0, cks |-> <<>>, ckr |-> <<>>, ns |-> 0, nr |-> 0, pn |-> 0, skipped |-> {}]
  BY <1>1, <1>2 DEF InitResponder, Root, NoPair, NoChain
<1>6. A = [rk |-> q, dhs |-> 2, dhr |-> 1, cks |-> q, ckr |-> <<>>, ns |-> 0, nr |-> 0, pn |-> 0, skipped |-> {}]
  BY <1>1, <1>2, <1>3, <1>4 DEF InitInitiator, Root, Shared, KdfRootKey, NoChain
<1>7. <<>> \in Roots /\ {} \in SUBSET [dh : Nat, n : Nat, chain : Roots]
  BY DEF Roots
<1>8. A \in Ratchets /\ B \in Ratchets
  BY <1>5, <1>6, <1>7 DEF Ratchets
<1>9. sess["initiator"] = A /\ sess["responder"] = B /\ sess \in [Sides -> Ratchets]
  BY <1>1, <1>8 DEF RekeyInit, Sides
<1>10. Len(r) = 1 /\ r[1] = {1} /\ Len(q) = 2 /\ q[1] = r[1] /\ q[2] = p
  BY <1>2, <1>4 DEF Roots
<1>11. RekeyTypes
  <2>1. NoOut \in Outs /\ NoCt \in Cts
    BY DEF NoOut, NoCt, Outs, Cts, NoChain, Roots
  <2>2. out \in [Sides -> Outs] /\ in \in [Sides -> Cts] /\ epoch \in [Sides -> Nat]
    BY <2>1 DEF RekeyInit
  <2> QED BY <1>9, <2>2 DEF RekeyInit, RekeyTypes
<1>12. OnRoot
  <2>1. r # <<>> /\ q # <<>>
    <3>1. Len(<<>>) = 0
      OBVIOUS
    <3> QED BY <1>10, <3>1
  <2>2. pairs = 2
    BY DEF RekeyInit
  <2> QED BY <1>5, <1>6, <1>9, <2>1, <2>2 DEF OnRoot, Sides, NoChain
<1>13. SentOnRoot
  BY DEF RekeyInit, SentOnRoot
<1>14. Ahead("initiator")
  <2>1. Prefix(r, q)
    BY <1>10 DEF Prefix
  <2>2. /\ B.rk = r /\ A.rk = q /\ A.dhs = 2 /\ A.dhr = 1 /\ B.dhs = 1 /\ B.dhr = 0 /\ q[Len(q)] = {2, 1}
        /\ Len(q) = Len(r) + 1 /\ Len(q) # Len(r) + 2 /\ Other("initiator") = "responder"
    BY <1>3, <1>5, <1>6, <1>10 DEF Other
  <2>3. Len(q) \in {Len(r) + 1, Len(r) + 2} /\ 1 = 1 /\ 0 # 2
    BY <2>2
  <2> QED BY <1>9, <2>1, <2>2, <2>3 DEF Ahead
<1>15. OneEach
  <2>1. Mixes("initiator") = {} /\ Mixes("responder") = {}
    <3>1. \A i \in 1..Len(q) : i = 1 \/ i = 2
      BY <1>10
    <3>2. \A i \in 1..Len(r) : i = 1
      BY <1>10
    <3>3. ~(\E z \in r[1] : z < 0) /\ ~(\E z \in p : z < 0)
      BY <1>3, <1>10
    <3>4. ~(\E i \in 1..Len(q) : \E z \in q[i] : z < 0) /\ ~(\E i \in 1..Len(r) : \E z \in r[i] : z < 0)
      BY <1>10, <3>1, <3>2, <3>3
    <3> QED BY <1>5, <1>6, <1>9, <3>4 DEF Mixes
  <2>2. Cardinality({}) = 0
    BY FS_EmptySet
  <2>3. \A e \in Sides : Cardinality(Mixes(e)) = epoch[e]
    BY <2>1, <2>2 DEF RekeyInit, Sides
  <2> QED BY <2>3 DEF RekeyInit, OneEach, Waiting, Sides
<1> QED BY <1>11, <1>12, <1>13, <1>14, <1>15 DEF RekeyInv, OneLine

LEMMA RekeyInvHolds == RekeySpec => []RekeyInv
<1>1. RekeyInit => RekeyInv
  BY RekeyStart
<1>2. RekeyInv /\ [RekeyNext]_rekey => RekeyInv'
  <2>1. SUFFICES ASSUME RekeyInv, [RekeyNext]_rekey
                 PROVE  RekeyInv'
    OBVIOUS
  <2>2. CASE UNCHANGED rekey
    <3>1. UNCHANGED <<sess, pairs, epoch, out, in, stored, kem, cached>>
      BY <2>2 DEF rekey, state
    <3>2. RekeyTypes'
      BY <2>1, <3>1 DEF RekeyInv, RekeyTypes
    <3>3. OnRoot' /\ SentOnRoot'
      BY <2>1, <3>1 DEF RekeyInv, OnRoot, SentOnRoot
    <3>4. OneLine'
      BY <2>1, <3>1 DEF RekeyInv, OneLine, Ahead
    <3>5. OneEach'
      BY <2>1, <3>1 DEF RekeyInv, OneEach, Mixes, Waiting
    <3> QED BY <3>2, <3>3, <3>4, <3>5 DEF RekeyInv
  <2>3. ASSUME NEW d \in Sides, NEW due \in BOOLEAN, NEW arrives \in BOOLEAN, Send(d, due, arrives)
        PROVE  RekeyInv'
    BY <2>1, <2>3, SendKeeps
  <2>4. ASSUME NEW d \in Sides, NEW m \in stored, Read(d, m)
        PROVE  RekeyInv'
    BY <2>1, <2>4, RekeyReadKeeps
  <2>5. CASE NewIdentity \/ Refresh
    BY <2>1, <2>5, IdentityKeeps
  <2> QED BY <2>1, <2>2, <2>3, <2>4, <2>5 DEF RekeyNext
<1> QED BY <1>1, <1>2, PTL DEF RekeySpec

LEMMA LineIsAlike ==
  ASSUME RekeyInv
  PROVE  MixedOnceAndAlike
<1>1. RekeyTypes /\ OneLine /\ OneEach
  BY DEF RekeyInv
<1>2. PICK A \in Ratchets, B \in Ratchets : A = sess["initiator"] /\ B = sess["responder"]
  BY <1>1 DEF RekeyTypes, Sides
<1>3. A.rk \in Roots /\ B.rk \in Roots /\ Len(A.rk) \in Nat /\ Len(B.rk) \in Nat /\ A.dhs \in Nat /\ B.dhs \in Nat
  BY DEF Ratchets, Roots
<1>4. SUFFICES ASSUME NEW i \in 1..Len(B.rk), Secret(B.rk[i])
               PROVE  i \in 1..Len(A.rk) /\ B.rk[i] = A.rk[i]
  <2>1. \A i \in Mixes("responder") : i \in 1..Len(B.rk) /\ Secret(B.rk[i])
    BY <1>2 DEF Mixes, Secret
  <2>2. \A i \in Mixes("responder") : i \in 1..Len(A.rk) /\ B.rk[i] = A.rk[i] /\ Secret(A.rk[i])
    BY <1>4, <2>1
  <2>3. \A i \in Mixes("responder") : i \in Mixes("initiator") /\ sess["responder"].rk[i] = sess["initiator"].rk[i]
    BY <1>2, <2>2 DEF Mixes, Secret
  <2> QED BY <1>1, <2>3 DEF MixedOnceAndAlike, OneEach
<1>5. CASE Ahead("initiator")
  <2>1. Prefix(B.rk, A.rk)
    BY <1>2, <1>5 DEF Ahead, Other
  <2> QED BY <1>3, <2>1 DEF Prefix
<1>6. CASE Ahead("responder")
  <2>1. Prefix(A.rk, B.rk) /\ Len(B.rk) = Len(A.rk) + 1 /\ B.rk[Len(B.rk)] = {B.dhs, A.dhs}
    BY <1>2, <1>6 DEF Ahead, Other
  <2>2. ~Secret(B.rk[Len(B.rk)])
    BY <1>3, <2>1, PairIsPlain
  <2>3. i # Len(B.rk)
    BY <1>4, <2>2
  <2>4. i \in 1..Len(A.rk)
    BY <1>3, <2>1, <2>3
  <2> QED BY <2>1, <2>4 DEF Prefix
<1> QED BY <1>1, <1>5, <1>6 DEF OneLine

\* The comment at the top of pqRatchet.js, for every bound: a rekey is never mixed into
\* the root twice, and the two roots never part in silence. In every order of sends, reads
\* and repeated reads, and whatever is lost or replaced, each side has mixed in one secret
\* per epoch, and what the responder mixed in is what the initiator mixed in.
THEOREM MixedOnceAndAlikeHolds == RekeySpec => []MixedOnceAndAlike
BY RekeyInvHolds, LineIsAlike, PTL
=============================================================================

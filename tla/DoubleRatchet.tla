---------------------------- MODULE DoubleRatchet ----------------------------
(***************************************************************************)
(* The key machine of ratchet.js: root chain, sending and receiving chain, *)
(* skipped message keys.  The cryptography is symbolic:                    *)
(*                                                                         *)
(*   key pair     a number; the number also stands for its public half     *)
(*   x25519       the set of the two key pairs (either side computes it)   *)
(*   root key     the sequence of the secrets mixed into it, the first of  *)
(*                which is the handshake that made it: two root keys are   *)
(*                equal exactly when they were derived from equal inputs   *)
(*   chain key    kdfRootKey returns the new root and the new chain from   *)
(*                the same inputs, so a chain has the name of that root    *)
(*   message key  a chain and a position in it                             *)
(*                                                                         *)
(* The functions of the code mutate a state object and throw; here each    *)
(* returns the new state, and NoKey stands for the throw.                  *)
(***************************************************************************)
EXTENDS Integers, Sequences

CONSTANT MaxSkip     \* MAX_SKIP, message keys skipped in one go

ASSUME MaxSkipAssumption == MaxSkip \in Nat

NoPair  == 0         \* no remote public key yet
NoChain == <<>>      \* a chain that does not exist yet
NoKey   == [chain |-> NoChain, n |-> 0]

Chain == Seq(SUBSET Nat)
Header == [dh : Nat, pn : Nat, n : Nat]
Key == [chain : Chain, n : Nat]
RatchetState ==
  [rk : Chain, dhs : Nat, dhr : Nat, cks : Chain, ckr : Chain, ns : Nat, nr : Nat, pn : Nat,
   skipped : SUBSET [dh : Nat, n : Nat, chain : Chain]]

KdfRootKey(rk, dh) == Append(rk, dh)
Shared(x, y) == {x, y}
Root(h) == <<{h}>>

\* The initiator mixes a fresh pair k with the peer's signed prekey at once.
InitInitiator(h, k, spk) ==
  LET rk == KdfRootKey(Root(h), Shared(k, spk))
  IN [rk |-> rk, dhs |-> k, dhr |-> spk, cks |-> rk, ckr |-> NoChain,
      ns |-> 0, nr |-> 0, pn |-> 0, skipped |-> {}]

\* The responder starts with its signed prekey and no chain.
InitResponder(h, spk) ==
  [rk |-> Root(h), dhs |-> spk, dhr |-> NoPair, cks |-> NoChain, ckr |-> NoChain,
   ns |-> 0, nr |-> 0, pn |-> 0, skipped |-> {}]

\* Sending: the header and the key of the next message, and the state after.
SendHeader(s) == [dh |-> s.dhs, pn |-> s.pn, n |-> s.ns]
SendKey(s)    == [chain |-> s.cks, n |-> s.ns]

AfterSend(s)  == [s EXCEPT !.ns = @ + 1]

\* _skipTo: cache the keys of the receiving chain up to position until.
SkipFails(s, until) == s.ckr # NoChain /\ until - s.nr > MaxSkip
SkipTo(s, until) ==
  IF s.ckr = NoChain \/ until <= s.nr THEN s
  ELSE [s EXCEPT !.nr = until,
                 !.skipped = @ \cup {[dh |-> s.dhr, n |-> i, chain |-> s.ckr] : i \in s.nr..(until - 1)}]

\* _dhStep: a new receiving chain from the pair in use, then a fresh pair k
\* and a new sending chain.  in and out are what the hooks preR1 and preR2 mix
\* into the root before either: no secret, or one.
DhStep(s, dh, k, in, out) ==
  LET recv == KdfRootKey(s.rk \o in, Shared(s.dhs, dh))
      send == KdfRootKey(recv \o out, Shared(k, dh))
  IN [s EXCEPT !.pn = s.ns, !.ns = 0, !.nr = 0, !.dhr = dh,
               !.ckr = recv, !.dhs = k, !.cks = send, !.rk = send]

\* deriveReceiveKey: a cached key is used up; otherwise the receiving chain is
\* taken (after a step, if the header brings a new pair) to position n.
Cached(s, hdr) == {e \in s.skipped : e.dh = hdr.dh /\ e.n = hdr.n}

\* Slip: the cached key stays.
UseUp_Keeps(s, e) == s
UseUp(s, e) == [s EXCEPT !.skipped = @ \ {e}]

Receive(s, hdr, k, in, out) ==
  LET step  == hdr.dh # s.dhr
      s1    == IF step THEN DhStep(SkipTo(s, hdr.pn), hdr.dh, k, in, out) ELSE s
      s2    == SkipTo(s1, hdr.n)
      fails == (step /\ SkipFails(s, hdr.pn)) \/ SkipFails(s1, hdr.n)
  IN CASE Cached(s, hdr) # {} ->
            LET e == CHOOSE e \in Cached(s, hdr) : TRUE
            IN [key |-> [chain |-> e.chain, n |-> e.n], state |-> UseUp(s, e)]
       [] Cached(s, hdr) = {} /\ fails -> [key |-> NoKey, state |-> s]
       [] OTHER -> [key |-> [chain |-> s2.ckr, n |-> s2.nr], state |-> [s2 EXCEPT !.nr = @ + 1]]
=============================================================================

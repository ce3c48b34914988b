----------------------------- MODULE V4Session -----------------------------
(***************************************************************************)
(* Two devices that talk in protocol v4 (ratchetSession.js on top of       *)
(* hybridSession.js): how they get from no session to one session, and     *)
(* what happens when both start one, when messages arrive late, twice or   *)
(* never, when the app is closed at the wrong moment, and when a user      *)
(* resets the session by hand.                                             *)
(*                                                                         *)
(* Every device keeps, per peer device, a session record (rec), a          *)
(* handshake record (hyb) and the plaintexts it decrypted (texts).  The    *)
(* activities of a device run at the same time and meet in these records:  *)
(*                                                                         *)
(*   op      one encryption or decryption, under the lock sess:peer:dev    *)
(*   prime   background priming, under locks of its own: "pair" is         *)
(*           primePair, "solo" is primeRatchetSession, run by a reset      *)
(*   reset   the reset by the user, under no lock                          *)
(*   shadow  the session of the telemetry (ratchetShadow.js) that travels  *)
(*           with messages of the older protocol; it has records and locks *)
(*           of its own, but uses the same handshake record and prekeys    *)
(*                                                                         *)
(* so each of them is split where the code awaits between reading a record *)
(* and writing it.                                                         *)
(*                                                                         *)
(* Devices are numbered in the byte order of their identity keys, and the  *)
(* signed prekey of device d is key pair d.  The time stamp the server     *)
(* gives a message is its position in the log.                             *)
(***************************************************************************)
EXTENDS DoubleRatchet, FiniteSets

CONSTANTS
  Dev,         \* the two devices
  MaxHs,       \* bound: handshakes
  MaxMsgs,     \* bound: messages encrypted
  Bounds,      \* bounds of one behaviour: msgs, messages encrypted; resets by
               \* the user; crashes, times the app is closed in the middle of
               \* something; shadows, messages of the older protocol; opk,
               \* whether a fetch may get an OPK, or none, or either
  None         \* an absent record

ASSUME DevAssumption ==
  /\ Dev \subseteq Nat \ {0} /\ \E a, b \in Dev : a # b /\ Dev = {a, b}
  /\ MaxHs \in Nat /\ MaxMsgs \in Nat
  /\ Bounds \subseteq [msgs : 0..MaxMsgs, resets : Nat, crashes : Nat, shadows : Nat, opk : SUBSET BOOLEAN]

Peer(d) == CHOOSE e \in Dev : e # d

Primer == {"pair", "solo", "shadow"}

VARIABLES
  rec,      \* rec[d]: session record with the peer device, or None
  hyb,      \* hyb[d]: handshake record, or None
  accepts,  \* accepts[d][h]: times d accepted handshake h
  spent,    \* spent[d]: handshakes d accepted for its shadow session
  shadow,   \* shadow[d]: shadow session record with the peer device, or None
  legacy,   \* legacy[d]: handshakes on their way to d in shadow fields
  begun,    \* history: begun[h], times h was made an initiator's session
  texts,    \* texts[d]: messages whose plaintext d has stored
  shown,    \* shown[d]: messages decrypted whose plaintext is not stored yet
  op,       \* op[d]: the encryption or decryption in progress, or None
  prime,    \* prime[d][p]: where priming p stands
  inflight, \* inflight[d]: the priming whose fetch others join, or None
  reset,    \* reset[d]: a reset has deleted rec[d] and not yet hyb[d]
  outbox,   \* outbox[d]: messages encrypted and not yet at the server
  log,      \* the server's messages
  hs,       \* the handshakes begun: by whom, and whether with an OPK
  keys,     \* number of the last key pair generated
  left,     \* what remains of the bounds
  fresh     \* history: the user has not reset anything yet

shadows  == <<shadow, spent, legacy>>
records  == <<rec, hyb, accepts, begun, texts, shadows>>
activity == <<shown, op, prime, inflight, reset>>
vars == <<records, activity, outbox, log, hs, keys, left, fresh>>

IdlePrime == [pc |-> "idle", hs |-> 0, on |-> None]

Init ==
  /\ rec = [d \in Dev |-> None]
  /\ hyb = [d \in Dev |-> None]
  /\ accepts = [d \in Dev |-> [h \in 1..MaxHs |-> 0]]
  /\ begun = [h \in 1..MaxHs |-> 0]
  /\ texts = [d \in Dev |-> {}]
  /\ shown = [d \in Dev |-> {}]
  /\ op = [d \in Dev |-> None]
  /\ prime = [d \in Dev |-> [p \in Primer |-> IdlePrime]]
  /\ inflight = [d \in Dev |-> None]
  /\ reset = [d \in Dev |-> FALSE]
  /\ outbox = [d \in Dev |-> {}]
  /\ log = <<>>
  /\ hs = <<>>
  /\ keys = CHOOSE m \in Dev : \A d \in Dev : d <= m
  /\ shadow = [d \in Dev |-> None]
  /\ spent = [d \in Dev |-> {}] /\ legacy = [d \in Dev |-> {}]
  /\ left \in Bounds
  /\ fresh = TRUE

-----------------------------------------------------------------------------
(* Records *)

\* What a prime stores, and what accepting a handshake stores.  hs is the
\* handshake: the initiator keeps its header (initHdr), the responder the
\* initiator's ephemeral key (initEk), and either names the handshake.
InitiatorRec(d, h, k) ==
  [role |-> "initiator", hs |-> h, peerSeen |-> FALSE, alive |-> 0,
   state |-> InitInitiator(h, k, Peer(d))]

ResponderRec(d, h, ts) ==
  [role |-> "responder", hs |-> h, peerSeen |-> TRUE, alive |-> ts,
   state |-> InitResponder(h, d)]

\* compareBytes(mine, peer's) < 0
MyInitWins(d) == d < Peer(d)

\* _persistWithTieBreak: which handshake record stays.
Persist(d, new) ==
  IF hyb[d] # None /\ hyb[d].role # new.role /\ ~MyInitWins(d) THEN hyb[d] ELSE new

-----------------------------------------------------------------------------
(* Priming: primePair, primeRatchetSession, ensureHybridSession            *)

Reusable(d) == hyb[d] # None /\ hyb[d].role = "initiator"

\* A send needs a session with a sending chain, or calls primePair.
Usable(d) == rec[d] # None /\ rec[d].state.cks # NoChain

\* The priming itself looks again, and goes on only if there is no record.
Absent(d, p) == IF p = "shadow" THEN shadow[d] = None ELSE rec[d] = None

\* A priming that finds a record ends; one that finds a fetch in flight joins
\* it; an initiator's handshake record is used again, without a fetch.
PrimeBegin(d, p) ==
  /\ \/ p = "pair" /\ prime[d][p].pc = "idle" /\ ~Usable(d)
     \/ p \in {"solo", "shadow"} /\ prime[d][p].pc = "asked"
  /\ \/ /\ ~Absent(d, p)
        /\ prime' = [prime EXCEPT ![d][p] = IdlePrime]
        /\ UNCHANGED inflight
     \/ /\ Absent(d, p) /\ inflight[d] # None
        /\ prime' = [prime EXCEPT ![d][p] = [pc |-> "join", hs |-> 0, on |-> inflight[d]]]
        /\ UNCHANGED inflight
     \/ /\ Absent(d, p) /\ inflight[d] = None
        /\ Reusable(d)
        /\ prime' = [prime EXCEPT ![d][p] = [pc |-> "save", hs |-> hyb[d].hs, on |-> None]]
        /\ UNCHANGED inflight
     \/ /\ Absent(d, p) /\ inflight[d] = None
        /\ ~Reusable(d)
        /\ prime' = [prime EXCEPT ![d][p] = [pc |-> "fetch", hs |-> 0, on |-> None]]
        /\ inflight' = [inflight EXCEPT ![d] = p]
  /\ UNCHANGED <<records, shown, op, reset, outbox, log, hs, keys, left, fresh>>

\* The fetch ends: everyone who waits for it goes on with its result.  Its
\* end clears the entry of the single flight, whoever that entry belongs to.
EndFetch(d, p, outcome) ==
  /\ prime' = [prime EXCEPT ![d] =
       [q \in Primer |-> IF q = p \/ (@[q].pc = "join" /\ @[q].on = p) THEN outcome ELSE @[q]]]
  /\ inflight' = [inflight EXCEPT ![d] = None]

PrimeFetched(d, p) ==
  LET h == Len(hs) + 1
  IN /\ prime[d][p].pc = "fetch"
     /\ h <= MaxHs
     /\ \E opk \in left.opk : hs' = Append(hs, [by |-> d, opk |-> opk])
     /\ hyb' = [hyb EXCEPT ![d] = Persist(d, [role |-> "initiator", hs |-> h])]
     /\ EndFetch(d, p, [pc |-> "save", hs |-> h, on |-> None])
     /\ UNCHANGED <<rec, accepts, begun, texts, shadows, shown, op, reset, outbox, log, keys, left, fresh>>

PrimeFailed(d, p) ==
  /\ prime[d][p].pc = "fetch"
  /\ EndFetch(d, p, IdlePrime)
  /\ UNCHANGED <<records, shown, op, reset, outbox, log, hs, keys, left, fresh>>

\* The session record is written without looking at it again.
PrimeSave(d, p) ==
  /\ prime[d][p].pc = "save"
  /\ IF p = "shadow"
     THEN /\ shadow' = [shadow EXCEPT ![d] = [role |-> "initiator", hs |-> prime[d][p].hs]]
          /\ UNCHANGED <<rec, keys, begun>>
     ELSE /\ rec' = [rec EXCEPT ![d] = InitiatorRec(d, prime[d][p].hs, keys + 1)]
          /\ keys' = keys + 1
          /\ begun' = [begun EXCEPT ![prime[d][p].hs] = @ + 1]
          /\ UNCHANGED shadow
  /\ prime' = [prime EXCEPT ![d][p] = IdlePrime]
  /\ UNCHANGED <<hyb, accepts, texts, spent, legacy, shown, op, inflight, reset, outbox, log, hs, left, fresh>>

-----------------------------------------------------------------------------
(* Sending: _encryptForDevice, then the POST                               *)

EncryptBegin(d) ==
  /\ op[d] = None
  /\ Usable(d)
  /\ left.msgs > 0
  /\ op' = [op EXCEPT ![d] = [kind |-> "encrypt", rec |-> rec[d], msg |-> 0]]
  /\ left' = [left EXCEPT !.msgs = @ - 1]
  /\ UNCHANGED <<records, shown, prime, inflight, reset, outbox, log, hs, keys, fresh>>

\* Slip: the handshake header travels with the first message only.
Message_InitOnce(d, r) ==
  [from |-> d, header |-> SendHeader(r.state), key |-> SendKey(r.state),
   init |-> IF r.role = "initiator" /\ r.state.ns = 0 THEN r.hs ELSE 0]

\* The handshake header travels with every message until the peer was heard.
Message(d, r) ==
  [from |-> d, header |-> SendHeader(r.state), key |-> SendKey(r.state),
   init |-> IF r.role = "initiator" /\ ~r.peerSeen THEN r.hs ELSE 0]

EncryptEnd(d) ==
  /\ op[d] # None /\ op[d].kind = "encrypt"
  /\ rec' = [rec EXCEPT ![d] = [op[d].rec EXCEPT !.state = AfterSend(@)]]
  /\ outbox' = [outbox EXCEPT ![d] = @ \cup {Message(d, op[d].rec)}]
  /\ op' = [op EXCEPT ![d] = None]
  /\ UNCHANGED <<hyb, accepts, begun, texts, shadows, shown, prime, inflight, reset, log, hs, keys, left, fresh>>

\* Two sends may reach the server in either order.  A POST that fails sends
\* the text again in the older protocol: for the session the message is gone.
Post(d, m) ==
  /\ m \in outbox[d]
  /\ \/ log' = Append(log, m)
     \/ UNCHANGED log
  /\ outbox' = [outbox EXCEPT ![d] = @ \ {m}]
  /\ UNCHANGED <<records, activity, hs, keys, left, fresh>>

-----------------------------------------------------------------------------
(* Receiving: decryptMessage of chatPipeline.js, ratchetDecrypt            *)

\* Pushed, or listed from the history, once or often, in any order; a stored
\* plaintext is shown without the ratchet.
DecryptBegin(d, i) ==
  /\ op[d] = None
  /\ log[i].from = Peer(d)
  /\ i \notin texts[d]
  /\ op' = [op EXCEPT ![d] = [kind |-> "decrypt", rec |-> rec[d], msg |-> i]]
  /\ UNCHANGED <<records, shown, prime, inflight, reset, outbox, log, hs, keys, left, fresh>>

\* _decryptWithRec: the derived key opens the message or it does not.
Attempt(r, m) == Receive(r.state, m.header, keys + 1, <<>>, <<>>)
Opens(r, m)   == Attempt(r, m).key = m.key

\* The record after a successful decryption of message i.
AfterRead(r, i) ==
  [r EXCEPT !.state = Attempt(r, log[i]).state, !.peerSeen = TRUE,
            !.alive = IF i > @ THEN i ELSE @]

\* Save the record and hand out the text; the caller stores the text later.
ReadAndSave(d, r, i) ==
  /\ rec' = [rec EXCEPT ![d] = AfterRead(r, i)]
  /\ keys' = IF AfterRead(r, i).state.dhs = keys + 1 THEN keys + 1 ELSE keys
  /\ shown' = [shown EXCEPT ![d] = @ \cup {i}]
  /\ op' = [op EXCEPT ![d] = None]

\* The message carries a handshake, the session cannot read it, and the
\* handshake is to replace the session: only if the message is newer than the
\* last one the session read, and then if the responder sees another
\* handshake, if the initiator lost the tie-break, or if the initiator's
\* session was already in use.
Adopts(d, r, m, ts) ==
  /\ m.init # 0
  /\ ts > r.alive
  /\ CASE r.role = "responder"                  -> m.init # r.hs
       [] r.role = "initiator" /\ ~r.peerSeen   -> ~MyInitWins(d)
       [] OTHER                                 -> TRUE

\* consumeForResponder finds the private half of the OPK, if one was used.
CanAccept(d, h) == hs[h].opk => accepts[d][h] = 0 /\ h \notin spent[d]

WantsAccept(d, r, m, ts) ==
  IF r = None THEN m.init # 0 ELSE ~Opens(r, m) /\ Adopts(d, r, m, ts)

Deciding(d) == op[d] # None /\ op[d].kind = "decrypt"

DecryptRead(d) ==
  /\ Deciding(d)
  /\ op[d].rec # None
  /\ Opens(op[d].rec, log[op[d].msg])
  /\ ReadAndSave(d, op[d].rec, op[d].msg)
  /\ UNCHANGED <<hyb, accepts, begun, texts, shadows, prime, inflight, reset, outbox, log, hs, left, fresh>>

\* acceptHybridSession, first part: the OPK is consumed.
DecryptConsume(d) ==
  LET m == log[op[d].msg]
  IN /\ Deciding(d)
     /\ WantsAccept(d, op[d].rec, m, op[d].msg)
     /\ CanAccept(d, m.init)
     /\ accepts' = [accepts EXCEPT ![d][m.init] = @ + 1]
     /\ op' = [op EXCEPT ![d].kind = "accept"]
     /\ UNCHANGED <<rec, hyb, begun, texts, shadows, shown, prime, inflight, reset, outbox, log, hs, keys, left, fresh>>

\* No session and no handshake, or a refusal: the message stays locked.
DecryptGiveUp(d) ==
  LET m == log[op[d].msg]
  IN /\ Deciding(d)
     /\ op[d].rec # None => ~Opens(op[d].rec, m)
     /\ WantsAccept(d, op[d].rec, m, op[d].msg) => ~CanAccept(d, m.init)
     /\ op' = [op EXCEPT ![d] = None]
     /\ UNCHANGED <<records, shown, prime, inflight, reset, outbox, log, hs, keys, left, fresh>>

\* acceptHybridSession, second part, and _acceptResponder: both records.
AcceptSave(d) ==
  /\ op[d] # None /\ op[d].kind = "accept"
  /\ LET i == op[d].msg
         r == ResponderRec(d, log[i].init, i)
     IN /\ hyb' = [hyb EXCEPT ![d] = Persist(d, [role |-> "responder", hs |-> log[i].init])]
        /\ rec' = [rec EXCEPT ![d] = r]
        /\ op' = [op EXCEPT ![d] = [kind |-> "first", rec |-> r, msg |-> i]]
  /\ UNCHANGED <<accepts, begun, texts, shadows, shown, prime, inflight, reset, outbox, log, hs, keys, left, fresh>>

\* The message that brought the handshake, read in the new session.
FirstRead(d) ==
  /\ op[d] # None /\ op[d].kind = "first"
  /\ IF Opens(op[d].rec, log[op[d].msg])
     THEN ReadAndSave(d, op[d].rec, op[d].msg)
     ELSE op' = [op EXCEPT ![d] = None] /\ UNCHANGED <<rec, keys, shown>>
  /\ UNCHANGED <<hyb, accepts, begun, texts, shadows, prime, inflight, reset, outbox, log, hs, left, fresh>>

\* storeV4Plaintext, after the lock was released.
StoreText(d, i) ==
  /\ i \in shown[d]
  /\ texts' = [texts EXCEPT ![d] = @ \cup {i}]
  /\ shown' = [shown EXCEPT ![d] = @ \ {i}]
  /\ UNCHANGED <<rec, hyb, accepts, begun, shadows, op, prime, inflight, reset, outbox, log, hs, keys, left, fresh>>

-----------------------------------------------------------------------------
(* The shadow session: shadowOnSend, shadowOnReceive                       *)

\* A message of the older protocol: without a shadow session one is primed in
\* the background, and an initiator's handshake header travels along.
ShadowSend(d) ==
  /\ left.shadows > 0
  /\ left' = [left EXCEPT !.shadows = @ - 1]
  /\ \/ /\ shadow[d] = None /\ prime[d]["shadow"].pc = "idle"
        /\ prime' = [prime EXCEPT ![d]["shadow"] = [IdlePrime EXCEPT !.pc = "asked"]]
        /\ UNCHANGED legacy
     \/ /\ shadow[d] # None /\ shadow[d].role = "initiator"
        /\ legacy' = [legacy EXCEPT ![Peer(d)] = @ \cup {shadow[d].hs}]
        /\ UNCHANGED prime
  /\ UNCHANGED <<rec, hyb, accepts, begun, texts, shadow, spent, shown, op, inflight, reset, outbox, log,
                 hs, keys, fresh>>

\* It arrives: a device without a shadow session accepts the handshake, which
\* consumes the OPK, then writes both records.
ShadowConsume(d, h) ==
  /\ h \in legacy[d]
  /\ legacy' = [legacy EXCEPT ![d] = @ \ {h}]
  /\ IF shadow[d] = None /\ CanAccept(d, h)
     THEN /\ spent' = [spent EXCEPT ![d] = @ \cup {h}]
          /\ shadow' = [shadow EXCEPT ![d] = [role |-> "accepting", hs |-> h]]
     ELSE UNCHANGED <<spent, shadow>>
  /\ UNCHANGED <<rec, hyb, accepts, begun, texts, activity, outbox, log, hs, keys, left, fresh>>

ShadowSave(d) ==
  /\ shadow[d] # None /\ shadow[d].role = "accepting"
  /\ hyb' = [hyb EXCEPT ![d] = Persist(d, [role |-> "responder", hs |-> shadow[d].hs])]
  /\ shadow' = [shadow EXCEPT ![d].role = "responder"]
  /\ UNCHANGED <<rec, accepts, begun, texts, spent, legacy, activity, outbox, log, hs, keys, left, fresh>>

-----------------------------------------------------------------------------
(* The user and the platform                                               *)

\* resetV4Session deletes the session records, then the handshake records and
\* the entry of the single flight, then primes.
ResetBegin(d) ==
  /\ left.resets > 0
  /\ ~reset[d] /\ prime[d]["solo"].pc = "idle"
  /\ rec' = [rec EXCEPT ![d] = None]
  /\ reset' = [reset EXCEPT ![d] = TRUE]
  /\ left' = [left EXCEPT !.resets = @ - 1]
  /\ fresh' = FALSE
  /\ UNCHANGED <<hyb, accepts, begun, texts, shadows, shown, op, prime, inflight, outbox, log, hs, keys>>

ResetEnd(d) ==
  /\ reset[d]
  /\ hyb' = [hyb EXCEPT ![d] = None]
  /\ inflight' = [inflight EXCEPT ![d] = None]
  /\ prime' = [prime EXCEPT ![d]["solo"] = [IdlePrime EXCEPT !.pc = "asked"]]
  /\ reset' = [reset EXCEPT ![d] = FALSE]
  /\ UNCHANGED <<rec, accepts, begun, texts, shadows, shown, op, outbox, log, hs, keys, left, fresh>>

\* The page is closed and opened again: what is in IndexedDB stays.
Crash(d) ==
  /\ left.crashes > 0
  /\ left' = [left EXCEPT !.crashes = @ - 1]
  /\ op' = [op EXCEPT ![d] = None]
  /\ shown' = [shown EXCEPT ![d] = {}]
  /\ prime' = [prime EXCEPT ![d] = [p \in Primer |-> IdlePrime]]
  /\ inflight' = [inflight EXCEPT ![d] = None]
  /\ reset' = [reset EXCEPT ![d] = FALSE]
  /\ outbox' = [outbox EXCEPT ![d] = {}]
  /\ shadow' = [shadow EXCEPT ![d] = IF @ # None /\ @.role = "accepting" THEN None ELSE @]
  /\ UNCHANGED <<rec, hyb, accepts, begun, texts, spent, legacy, log, hs, keys, fresh>>

Next ==
  \E d \in Dev :
    \/ \E p \in Primer : PrimeBegin(d, p) \/ PrimeFetched(d, p) \/ PrimeFailed(d, p) \/ PrimeSave(d, p)
    \/ EncryptBegin(d) \/ EncryptEnd(d)
    \/ \E m \in outbox[d] : Post(d, m)
    \/ \E i \in 1..Len(log) : DecryptBegin(d, i) \/ StoreText(d, i)
    \/ DecryptRead(d) \/ DecryptConsume(d) \/ DecryptGiveUp(d) \/ AcceptSave(d) \/ FirstRead(d)
    \/ ShadowSend(d) \/ ShadowSave(d) \/ \E h \in legacy[d] : ShadowConsume(d, h)
    \/ ResetBegin(d) \/ ResetEnd(d)
    \/ Crash(d)

Spec == Init /\ [][Next]_vars

-----------------------------------------------------------------------------
(* Properties *)

SessionRecord ==
  [role : {"initiator", "responder"}, hs : 1..MaxHs, peerSeen : BOOLEAN,
   alive : 0..MaxMsgs, state : RatchetState]

Step ==
  [kind : {"encrypt", "decrypt", "accept", "first"}, rec : {None} \cup SessionRecord, msg : 0..MaxMsgs]

Wire == [from : Dev, header : Header, key : Key, init : 0..MaxHs]

TypeOK ==
  /\ rec \in [Dev -> {None} \cup SessionRecord]
  /\ hyb \in [Dev -> {None} \cup [role : {"initiator", "responder"}, hs : 1..MaxHs]]
  /\ accepts \in [Dev -> [1..MaxHs -> Nat]]
  /\ begun \in [1..MaxHs -> Nat]
  /\ texts \in [Dev -> SUBSET (1..MaxMsgs)] /\ shown \in [Dev -> SUBSET (1..MaxMsgs)]
  /\ op \in [Dev -> {None} \cup Step]
  /\ prime \in [Dev -> [Primer -> [pc : {"idle", "asked", "fetch", "join", "save"},
                                  hs : 0..MaxHs, on : {None} \cup Primer]]]
  /\ inflight \in [Dev -> {None} \cup Primer]
  /\ reset \in [Dev -> BOOLEAN]
  /\ outbox \in [Dev -> SUBSET Wire]
  /\ log \in Seq(Wire) /\ Len(log) <= MaxMsgs
  /\ hs \in Seq([by : Dev, opk : BOOLEAN]) /\ Len(hs) <= MaxHs
  /\ keys \in Nat
  /\ \A d \in Dev : spent[d] \subseteq 1..MaxHs /\ legacy[d] \subseteq 1..MaxHs
  /\ shadow \in [Dev -> {None} \cup [role : {"initiator", "accepting", "responder"}, hs : 1..MaxHs]]
  /\ left.msgs \in 0..MaxMsgs /\ fresh \in BOOLEAN

\* The reception of m, with time stamp ts, would succeed.
Reaches(m, ts) ==
  LET e == Peer(m.from)
      r == rec[e]
  IN \/ r # None /\ Opens(r, m)
     \/ WantsAccept(e, r, m, ts) /\ CanAccept(e, m.init) /\ Opens(ResponderRec(e, m.init, ts), m)

Quiet ==
  \A d \in Dev :
    /\ op[d] = None /\ outbox[d] = {} /\ ~reset[d]
    /\ \A p \in Primer : prime[d][p].pc = "idle"

CanTalk(d) ==
  \/ rec[d] = None
  \/ Usable(d) /\ Reaches(Message(d, rec[d]), Len(log) + 1)

\* Nothing is going on, and no message of either side, delivered again or still
\* to be written, will ever be read: the pair needs a reset by hand.
Stuck ==
  /\ Quiet
  /\ \A d \in Dev : ~CanTalk(d)
  /\ \A i \in 1..Len(log) : i \in texts[Peer(log[i].from)] \/ ~Reaches(log[i], i)

\* The peer's session was begun with an OPK that d consumed, and d has lost the
\* session it made of it.
Orphaned(d) ==
  LET h == rec[Peer(d)].hs
  IN rec[Peer(d)].role = "initiator" /\ hs[h].opk /\ accepts[d][h] > 0 /\ rec[d].hs # h

\* The shadow session of d has consumed the OPK of the handshake of the peer's
\* session, which therefore no session of d can answer.
TakenByShadow(d) ==
  LET h == rec[Peer(d)].hs
  IN rec[Peer(d)].role = "initiator" /\ hs[h].opk /\ h \in spent[d]

\* d has accepted the handshake of the peer's session more than once.
Rewound(d) ==
  LET h == rec[Peer(d)].hs
  IN rec[Peer(d)].role = "initiator" /\ accepts[d][h] > 1

\* d has made two sessions of the same handshake of its own.
Restarted(d) == rec[d].role = "initiator" /\ begun[rec[d].hs] > 1

\* Both sides answer handshakes of the other, so neither sends one any more.
BothResponders == \A d \in Dev : rec[d] # None /\ rec[d].role = "responder"

\* The tie-break, the recency gate and the handshake header that travels with
\* every message until the peer is heard (ratchetDecrypt, _encryptForDevice)
\* bring the two sides together whatever the order of events, except for the
\* five known ways: these are the only ones in which a pair is ever stuck.
StuckHasACause ==
  Stuck => BothResponders \/ \E d \in Dev : Orphaned(d) \/ TakenByShadow(d) \/ Rewound(d) \/ Restarted(d)

\* No handshake is begun twice by its initiator (the single flight and the
\* idempotence of ensureHybridSession, the session lookup of primePair): a
\* second session of one handshake restarts its chains and cannot be read.
HandshakeBegunOnce == \A h \in 1..MaxHs : begun[h] <= 1

\* The same as long as the user has reset nothing: closing the app at any
\* moment never makes a device begin a handshake a second time.
BegunOnceUnlessReset == fresh => HandshakeBegunOnce

\* A responder's session replaces another session only for a message newer
\* than the last one that session read (the recency gate of ratchetDecrypt).
SacrificeOnlyForNewer ==
  [][\A d \in Dev :
       rec[d] # None /\ rec'[d] # None /\ rec'[d].role = "responder" /\ rec'[d].hs # rec[d].hs
       => rec'[d].alive > rec[d].alive]_rec

\* No two messages that reached the server were encrypted under one key, although
\* two sends, a receive and a priming overlap (the session lock around the
\* load and the save of _encryptForDevice).
NoKeyReuse ==
  \A i, j \in 1..Len(log) : log[i].key = log[j].key => i = j

\* Message keys are one-time ("Ratchet-Message-Keys sind EINMALIG"): once a
\* message was decrypted, the stored session cannot derive its key again,
\* whatever was skipped or overwritten, unless that session is a second one made
\* of the same handshake (which a handshake without an OPK permits).
UsedKeyIsGone ==
  \A d \in Dev :
    rec[d] # None /\ accepts[d][rec[d].hs] <= 1
    => \A i \in texts[d] \cup shown[d] : ~Opens(rec[d], log[i])

\* A message key encrypts one message and decrypts it once: NoKeyReuse and
\* UsedKeyIsGone.
KeysUsedOnce == NoKeyReuse /\ UsedKeyIsGone

\* ratchetSession.js, at the top: the sessions are separate from the shadow, with
\* a handshake and root of their own ("eigener Handshake/RK0").
OwnHandshake ==
  \A d \in Dev : rec[d] # None /\ shadow[d] # None => rec[d].hs # shadow[d].hs

\* ratchetDecrypt: "init fließt beidseitig bis !peerSeen fällt -> Konvergenz
\* garantiert": two sides that both started a session never end up stuck.
NeverStuck == ~Stuck

\* ratchetDecrypt: the recency gate keeps the pair from both being responders
\* for good, since a real re-initiation is newer than the last message read.
NeverBothResponders == ~(Stuck /\ BothResponders)

\* _persistWithTieBreak: when handshake records of opposite roles collide, the
\* one whose initiator has the lower identity key is kept.
KeepsLowerInitiator ==
  [][\A d \in Dev :
       hyb[d] # None /\ hyb'[d] # None /\ hyb[d].role # hyb'[d].role
       => hs'[hyb'[d].hs].by < hs[hyb[d].hs].by]_hyb
=============================================================================

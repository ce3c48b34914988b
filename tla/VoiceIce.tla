------------------------------ MODULE VoiceIce ------------------------------
(***************************************************************************)
(* The candidates of one call: both clients find them one by one and send   *)
(* them through /voice/ice; they overtake the ring, the answer and each     *)
(* other. A side keeps them at three places until it can use them           *)
(* (src/frontend/src/stores/voice.svelte.js, src/src/routes/voiceRoutes.js).*)
(* The call itself is VoiceCall's; here it goes well.                       *)
(***************************************************************************)
EXTENDS Naturals, FiniteSets

CONSTANT Cands   \* candidates each side finds

VARIABLES
    log,     \* call_log.status of the call
    stage,   \* per side how far startCall, receiveCall or acceptCall are
    side,    \* per side the variables of the store
    post,    \* candidates on their way to the Worker, with their sender
    push     \* candidates on their way to a socket, with their receiver

vars == <<log, stage, side, post, push>>

Sides == {"caller", "callee"}
Other(s) == CHOOSE t \in Sides : t # s

(* local: _localIceQueue, and direct: it is null. raw: _pendingRawIcePayloads. *)
(* pending: _pendingRemoteIce. opening: _handleIce waits for decryptIce.       *)
NewSide == [found |-> {}, local |-> {}, direct |-> FALSE, raw |-> {}, pending |-> {}, opening |-> {}, used |-> {}]

TypeOK ==
    /\ log \in {"none", "ringing", "connected"}
    /\ stage["caller"] \in {"new", "pc", "rang", "remote", "flushed"}
    /\ stage["callee"] \in {"new", "known", "pc", "remote", "raw flushed", "flushed", "answered"}
    /\ \A s \in Sides : \A f \in DOMAIN NewSide \ {"direct"} : side[s][f] \subseteq Cands
    /\ post \subseteq Sides \X Cands /\ push \subseteq Sides \X Cands

Init ==
    /\ log = "none" /\ stage = [s \in Sides |-> "new"] /\ side = [s \in Sides |-> NewSide]
    /\ post = {} /\ push = {}

Goes(s, from, to) == stage[s] = from /\ stage' = [stage EXCEPT ![s] = to]
HasPc(s) == stage[s] \notin {"new", "known"}
HasRemote(s) == stage[s] \in {"remote", "raw flushed", "flushed", "answered"}
KnowsCall(s) == stage[s] # "new"

(* A candidate is queued until the Worker knows the call, then sent at once.   *)
Found(s, c) ==
    /\ HasPc(s) /\ c \notin side[s].found
    /\ side' = [side EXCEPT ![s] = [@ EXCEPT !.found = @ \cup {c},
                                             !.local = IF side[s].direct THEN @ ELSE @ \cup {c}]]
    /\ post' = IF side[s].direct THEN post \cup {<<s, c>>} ELSE post
    /\ UNCHANGED <<log, stage, push>>

FlushLocal(s) ==
    /\ side' = [side EXCEPT ![s] = [@ EXCEPT !.direct = TRUE, !.local = {}]]
    /\ post' = post \cup {<<s, c>> : c \in side[s].local}

(* /voice/ice: only for a call that rings or is connected.                     *)
Relay(s, c) ==
    /\ <<s, c>> \in post /\ post' = post \ {<<s, c>>}
    /\ push' = IF log \in {"ringing", "connected"} THEN push \cup {<<Other(s), c>>} ELSE push
    /\ UNCHANGED <<log, stage, side>>

(* _handleIce: kept as it is without a call or a connection, else opened.      *)
Buffers(s) == ~KnowsCall(s) \/ ~HasPc(s)

HandleIce(s, c) ==
    /\ <<s, c>> \in push /\ push' = push \ {<<s, c>>}
    /\ side' = [side EXCEPT ![s] = IF Buffers(s) THEN [@ EXCEPT !.raw = @ \cup {c}]
                                   ELSE IF KnowsCall(s) THEN [@ EXCEPT !.opening = @ \cup {c}] ELSE @]
    /\ UNCHANGED <<log, stage, post>>

(* Opened: what holds now decides.                                             *)
Opened(s, c) ==
    /\ c \in side[s].opening
    /\ side' = [side EXCEPT ![s] = IF HasRemote(s)
                                   THEN [@ EXCEPT !.opening = @ \ {c}, !.used = @ \cup {c}]
                                   ELSE [@ EXCEPT !.opening = @ \ {c}, !.pending = @ \cup {c}]]
    /\ UNCHANGED <<log, stage, post, push>>

FlushPending(s) == side' = [side EXCEPT ![s] = [@ EXCEPT !.used = @ \cup side[s].pending, !.pending = {}]]

(* The caller: set up, ring, flush what is queued, and hear the answer.        *)
SetUp == Goes("caller", "new", "pc") /\ UNCHANGED <<log, side, post, push>>
Ring == Goes("caller", "pc", "rang") /\ log' = "ringing" /\ FlushLocal("caller") /\ UNCHANGED push
Answered == /\ log = "connected" /\ Goes("caller", "rang", "remote")
            /\ UNCHANGED <<log, side, post, push>>
CallerFlush == Goes("caller", "remote", "flushed") /\ FlushPending("caller") /\ UNCHANGED <<log, post, push>>

(* The callee: hear the ring, accept, set the offer, and go on from await to   *)
(* await; the answer connects the call in the log.                             *)
RingHeard == log # "none" /\ Goes("callee", "new", "known") /\ UNCHANGED <<log, side, post, push>>
Accept == Goes("callee", "known", "pc") /\ UNCHANGED <<log, side, post, push>>
SetOffer == Goes("callee", "pc", "remote") /\ UNCHANGED <<log, side, post, push>>
FlushRaw ==
    /\ Goes("callee", "remote", "raw flushed")
    /\ side' = [side EXCEPT !["callee"] = [@ EXCEPT !.opening = @ \cup side["callee"].raw, !.raw = {}]]
    /\ UNCHANGED <<log, post, push>>
CalleeFlush == Goes("callee", "raw flushed", "flushed") /\ FlushPending("callee") /\ UNCHANGED <<log, post, push>>
Answer == Goes("callee", "flushed", "answered") /\ log' = "connected" /\ FlushLocal("callee") /\ UNCHANGED push

Steps == SetUp \/ Ring \/ Answered \/ CallerFlush \/ RingHeard \/ Accept \/ SetOffer \/ FlushRaw
         \/ CalleeFlush \/ Answer

Next ==
    \/ Steps
    \/ \E s \in Sides, c \in Cands : Found(s, c) \/ Relay(s, c) \/ HandleIce(s, c) \/ Opened(s, c)

Spec == Init /\ [][Next]_vars

(* Once both sides are through and nothing is on its way, every candidate one  *)
(* side found is used by the other, in whatever order ring, answer and         *)
(* candidates came: none is left in a buffer, or refused by the Worker.        *)
NoCandidateLeftBehind ==
    (stage["caller"] = "flushed" /\ stage["callee"] = "answered" /\ post = {} /\ push = {}) =>
        \A s \in Sides : side[s].found \subseteq side[Other(s)].used \cup side[Other(s)].opening
=============================================================================

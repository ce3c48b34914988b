---------------------------- MODULE MCDelivery -----------------------------
(* What one device shows of a user's chats, the connection that brings the     *)
(* events, and the input below the open chat.  ChatSync takes drops, returns   *)
(* and doubles of the connection as given, so the initial state says which of  *)
(* the three a behaviour is about.                                             *)
EXTENDS ChatSync

CONSTANTS MaxSocks, MaxFaults, p, q

VARIABLES part,
          running, name, call, sock, cur, connected, retry, ping, pong, due, owed, faults,
          chosen, reply, editing, draft, drafts, own, text, before, input, jobs, posted, left,
          typed, stray, excused

L == INSTANCE WsLink WITH Socks <- 1..MaxSocks

(* Replies, moves between chats and a failure; a file on its way; edits; an    *)
(* edit and a file; two files; edits, replies and a failure; a chat closed     *)
(* while more is typed than the caption on its way, and opened again.          *)
Types(w, m, s, f, k, x) == [words |-> w, moves |-> m, sends |-> s, files |-> f, marks |-> k, fails |-> x]
InputLimits == {Types(2, 3, 2, 0, 1, 1), Types(1, 3, 1, 1, 0, 1), Types(2, 2, 2, 0, 2, 0),
                Types(2, 2, 1, 1, 1, 0), Types(1, 2, 1, 2, 0, 0), Types(2, 2, 2, 0, 1, 1),
                Types(2, 3, 1, 1, 0, 0)}
(* No chat, and no message of one, is the value that stands for none.          *)
ASSUME InputAssumption == None \notin {p, q} \cup ({p, q} \X {1, 2})

C == INSTANCE Composer WITH Chat <- {p, q}, Limits <- InputLimits, sel <- chosen

sync == <<vars, acts>>
tab == <<running, name, call, sock, cur, connected, retry, ping, pong, due, owed, faults>>
typing == <<chosen, reply, editing, draft, drafts, own, text, before, input, jobs, posted, left,
            typed, stray, excused>>
all == <<part, sync, tab, typing>>

InputOff ==
  /\ chosen = None /\ reply = None /\ editing = None /\ draft = None /\ drafts = None
  /\ own = None /\ text = None /\ before = None /\ input = None /\ jobs = None
  /\ posted = None /\ left = None /\ typed = None /\ stray = None /\ excused = None

MCInit ==
  /\ Init /\ L!Init
  /\ \/ part \in {"sync", "link"} /\ InputOff
     \/ part = "input" /\ C!CInit

MCNext ==
  /\ UNCHANGED part
  /\ \/ part = "sync" /\ Next /\ UNCHANGED <<tab, typing>>
     \/ part = "link" /\ L!WNext /\ UNCHANGED <<sync, typing>>
     \/ part = "input" /\ C!CNext /\ UNCHANGED <<sync, tab>>

MCSpec ==
  /\ MCInit /\ [][MCNext]_all
  /\ WF_all(part = "link" /\ L!Settles /\ UNCHANGED <<part, faults, sync, typing>>)
  /\ WF_all(part = "link" /\ L!Beats /\ UNCHANGED <<part, faults, sync, typing>>)

(* See WsLink: a running link comes back for good.                            *)
ComesBack == L!ComesBack
(* See WsLink: no conversion leaves the tab bound to the guest's handle alone. *)
HearsItsName == L!HearsItsName
(* See WsLink, from the comment of reconnect in ws.js: one socket at a time.  *)
OneSocket == L!OneSocket
(* Composer: what is typed is kept until it is sent, once and where it belongs. *)
TypingInOrder == part = "input" =>
  C!NothingTypedIsLost /\ C!SentOnce /\ C!EditsStay /\ C!BelongsToItsChat
=============================================================================

------------------------------ MODULE Composer ------------------------------
(* The input below the open chat (ChatInput.svelte): typing, replying, editing, *)
(* attaching and sending while other chats are chosen.  It stays mounted when   *)
(* another chat is chosen and goes when none is; a text is a set of words.  The *)
(* effects of the component run in the action that triggers them.               *)
EXTENDS Integers, FiniteSets

CONSTANTS
  Chat, None,
  Limits     \* bounds, a set of [words, moves, sends, files, marks, fails]

VARIABLES
  sel,       \* chat.svelte.js: _selectedChat
  reply,     \* _replyingTo, the chat of the message
  editing,   \* _editingMsg
  draft,     \* _draftText
  drafts,    \* drafts[c]: _drafts
  own,       \* own[m]: the words of the user's message m
  text,      \* the input
  before,    \* _draftBeforeEdit
  input,     \* which of the inputs mounted so far
  jobs,      \* its requests and those of the inputs before it
  posted,    \* messages that were sent
  left,      \* what is left of the bounds
  typed,     \* history: the words
  stray,     \* history: words that came to stand where they do not belong
  excused    \* history: words that may be lost

cvars == <<sel, reply, editing, draft, drafts, own, text, before, input, jobs, posted, left,
           typed, stray, excused>>

Msg == Chat \X {1, 2}
Word == [n : 1..3, at : Chat, of : Msg \cup {None}]
Mounted == sel # None
Ours(t) == Mounted /\ t.input = input
Busy == \E t \in jobs : Ours(t) /\ t.kind \in {"send", "edit"}
Spend(what) == left[what] > 0 /\ left' = [left EXCEPT ![what] = @ - 1]
InFlight == UNION {t.words : t \in jobs}

CTypeOK ==
  /\ sel \in Chat \cup {None} /\ reply \in Chat \cup {None} /\ editing \in Msg \cup {None}
  /\ draft \subseteq Word /\ drafts \in [Chat -> SUBSET Word] /\ own \in [Msg -> SUBSET Word]
  /\ text \subseteq Word /\ before \subseteq Word /\ stray \cup excused \subseteq typed
  /\ \A p \in posted : p.to \in Chat /\ p.words \subseteq Word

CInit ==
  /\ sel = None /\ reply = None /\ editing = None /\ draft = {} /\ drafts = [c \in Chat |-> {}]
  /\ own = [m \in Msg |-> {}] /\ text = {} /\ before = {} /\ input = 0
  /\ jobs = {} /\ posted = {} /\ left \in Limits /\ typed = {} /\ stray = {} /\ excused = {}

(* The text becomes t and the edit ed; outside of an edit the text then is the *)
(* draft.  That loses a draft the input did not show, and the one an edit that *)
(* does not give it back was begun over.                                       *)
Shows(t, ed, stored, lost) ==
  LET writes == ed = None /\ (t # text \/ editing # None)
      shown == IF editing = None THEN text ELSE before
      back == shown = stored /\ (editing = None \/ t = before) IN
  /\ text' = t /\ editing' = ed /\ draft' = IF writes THEN t ELSE stored
  /\ excused' = excused \cup lost \cup (IF writes /\ ~back THEN stored ELSE {})
Strays(words) == stray' = stray \cup words

----------------------------------------------------------------------------
(* Typing, and choosing a message to edit or to answer.  What is being sent    *)
(* when an edit begins comes back when it ends.                                *)
Type ==
  /\ Mounted /\ ~Busy /\ Spend("words")
  /\ LET w == [n |-> left.words, at |-> sel, of |-> editing] IN
     Shows(text \cup {w}, editing, draft, {}) /\ typed' = typed \cup {w}
  /\ UNCHANGED <<sel, reply, drafts, own, before, input, jobs, posted, stray>>

SetEditing(m) ==
  /\ sel = m[1] /\ editing # m /\ Spend("marks")
  /\ Shows(own[m], m, draft, {}) /\ before' = text /\ reply' = None /\ Strays(text \cap InFlight)
  /\ UNCHANGED <<sel, drafts, own, input, jobs, posted, typed>>
(* Also an edit that is sent unchanged.                                        *)
CancelEdit ==
  /\ editing # None /\ Spend("marks") /\ Shows(before, None, draft, {}) /\ before' = {}
  /\ UNCHANGED <<sel, reply, drafts, own, input, jobs, posted, typed, stray>>
SetReplyingTo ==
  /\ Mounted /\ Spend("marks") /\ reply' = sel /\ Shows(text, None, draft, {})
  /\ UNCHANGED <<sel, drafts, own, before, input, jobs, posted, typed, stray>>

(* Another chat: the input keeps its text.  A file on its way is sent to the   *)
(* chat that is chosen by then.                                                *)
Leaves_DropsDraft == drafts' = drafts /\ reply' = None /\ Spend("moves")  \* slip
Leaves ==
  /\ drafts' = IF Mounted THEN [drafts EXCEPT ![sel] = draft] ELSE drafts
  /\ reply' = None /\ Spend("moves")
SelectChat(c) ==
  /\ c # sel /\ sel' = c /\ Leaves
  /\ IF Mounted
     THEN /\ Shows(text, None, drafts[c], {}) /\ Strays(text \cup before)
          /\ UNCHANGED <<before, input>>
     ELSE /\ text' = drafts[c] /\ draft' = drafts[c] /\ editing' = None /\ before' = {}
          /\ input' = input + 1 /\ UNCHANGED <<stray, excused>>
  /\ jobs' = {[t EXCEPT !.away = @ \/ t.file # c] : t \in jobs}
  /\ UNCHANGED <<own, posted, typed>>
(* A caption on its way, when more was typed since, is in the draft as well.   *)
Close ==
  /\ Mounted /\ sel' = None /\ Leaves /\ editing' = None /\ draft' = {} /\ text' = {} /\ before' = {}
  /\ LET caught(t) == Ours(t) /\ t.kind = "upload" IN
     /\ jobs' = {IF caught(t) THEN [t EXCEPT !.words = text] ELSE t : t \in jobs}
     /\ Strays((draft \cap InFlight) \cup IF \E t \in jobs : caught(t) THEN text ELSE {})
  /\ UNCHANGED <<own, input, posted, typed, excused>>

----------------------------------------------------------------------------
(* Requests: send, _handlePicked and onGifPicked.                              *)
Job(kind, words, m, file) ==
  [input |-> input, kind |-> kind, words |-> words, m |-> m, to |-> sel, reply |-> reply,
   file |-> file, away |-> FALSE, n |-> left]

(* chatStore.sendMessage, up to its request.                                   *)
SendMessage(job, others) ==
  /\ jobs' = others \cup {job} /\ reply' = None /\ draft' = {} /\ drafts' = [drafts EXCEPT ![sel] = {}]
  /\ excused' = excused \cup (draft \ job.words)

SendText ==
  /\ Mounted /\ ~Busy /\ editing = None /\ text # {} /\ Spend("sends")
  /\ SendMessage(Job("send", text, None, None), jobs) /\ Strays(text \cap InFlight)
  /\ UNCHANGED <<sel, editing, own, text, before, input, posted, typed>>
SendEdit ==
  /\ editing # None /\ ~Busy /\ text \notin {{}, own[editing]} /\ Spend("sends")
  /\ jobs' = jobs \cup {Job("edit", text, editing, None)}
  /\ UNCHANGED <<sel, reply, editing, draft, drafts, own, text, before, input, posted, typed, stray, excused>>
(* A file is encrypted and stored for the chat that is open; once that is done *)
(* the caption is what the input holds then. A GIF has no upload.              *)
PickFile ==
  /\ Mounted /\ Spend("files") /\ jobs' = jobs \cup {[Job("upload", {}, None, sel) EXCEPT !.to = None]}
  /\ UNCHANGED <<sel, reply, editing, draft, drafts, own, text, before, input, posted, typed, stray, excused>>
PickGif ==
  /\ Mounted /\ Spend("files")
  /\ SendMessage(Job("caption", text, None, None), jobs) /\ Strays(text \cap InFlight)
  /\ UNCHANGED <<sel, editing, own, text, before, input, posted, typed>>
Uploaded(t) ==
  LET words == IF Ours(t) THEN text ELSE t.words IN
  /\ t.kind = "upload" /\ Mounted
  /\ SendMessage([t EXCEPT !.kind = "caption", !.words = words, !.to = sel, !.reply = reply], jobs \ {t})
  /\ Strays(words \cap UNION {u.words : u \in jobs \ {t}})
  /\ UNCHANGED <<sel, editing, own, text, before, input, posted, left, typed>>
(* A refused upload, and one whose chat was closed by then.                    *)
UploadFails(t) ==
  /\ t.kind = "upload" /\ (Mounted => Spend("fails")) /\ (~Mounted => left' = left)
  /\ jobs' = jobs \ {t}
  /\ UNCHANGED <<sel, reply, editing, draft, drafts, own, text, before, input, posted, typed, stray, excused>>

(* The answers. A message that fails stays as a failed bubble, until the chat  *)
(* is left.                                                                    *)
Posts(t, ok) ==
  /\ posted' = IF ok THEN posted \cup {[n |-> Cardinality(posted), to |-> t.to, words |-> t.words,
                                       file |-> t.file, away |-> t.away, reply |-> t.reply]} ELSE posted
  /\ IF ok THEN left' = left ELSE Spend("fails")
Unsent(t, ok) == IF ok THEN {} ELSE t.words

Sent(t) == \E ok \in BOOLEAN :
  /\ t.kind = "send" /\ Posts(t, ok) /\ jobs' = jobs \ {t}
  /\ IF Ours(t) THEN Shows({}, editing, draft, Unsent(t, ok))
     ELSE excused' = excused \cup Unsent(t, ok) /\ UNCHANGED <<text, editing, draft>>
  /\ UNCHANGED <<sel, reply, drafts, own, before, input, typed, stray>>
(* With the caption goes what was typed since.                                 *)
Captioned(t) == \E ok \in BOOLEAN :
  /\ t.kind = "caption" /\ Posts(t, ok)
  /\ IF Ours(t) /\ t.words # {} THEN Shows({}, editing, draft, Unsent(t, ok) \cup (text \ t.words))
     ELSE excused' = excused \cup Unsent(t, ok) /\ UNCHANGED <<text, editing, draft>>
  /\ jobs' = {IF u.input = t.input /\ u.kind = "upload" THEN [u EXCEPT !.words = {}] ELSE u : u \in jobs \ {t}}
  /\ UNCHANGED <<sel, reply, drafts, own, before, input, typed, stray>>
(* Whatever edit is open then ends; the input gives way to what was there      *)
(* before an edit also when that was given back already.                       *)
Edited(t) ==
  /\ t.kind = "edit" /\ own' = [own EXCEPT ![t.m] = t.words] /\ jobs' = jobs \ {t}
  /\ CASE Ours(t) -> /\ Shows(before, None, draft, IF editing = t.m THEN {} ELSE text) /\ before' = {}
       [] Mounted /\ ~Ours(t) -> Shows(text, None, draft, {}) /\ before' = before
       [] OTHER -> UNCHANGED <<text, editing, draft, excused, before>>
  /\ UNCHANGED <<sel, reply, drafts, input, posted, left, typed, stray>>
NotEdited(t) ==
  /\ t.kind = "edit" /\ Spend("fails") /\ jobs' = jobs \ {t}
  /\ UNCHANGED <<sel, reply, editing, draft, drafts, own, text, before, input, posted, typed, stray, excused>>

Answers == \E t \in jobs : Uploaded(t) \/ UploadFails(t) \/ Sent(t) \/ Captioned(t) \/ Edited(t) \/ NotEdited(t)

CNext ==
  \/ Type \/ CancelEdit \/ SetReplyingTo \/ Close
  \/ \E m \in Msg : SetEditing(m)
  \/ \E c \in Chat : SelectChat(c)
  \/ SendText \/ SendEdit \/ PickFile \/ PickGif \/ Answers

CSpec == CInit /\ [][CNext]_cvars

----------------------------------------------------------------------------
(* A word typed for a new message is kept somewhere until it is sent.          *)
NothingTypedIsLost == \A w \in typed \ excused :
  \/ w.of # None \/ w \in text \cup before \cup draft \cup InFlight
  \/ (\E c \in Chat : w \in drafts[c]) \/ (\E p \in posted : w \in p.words)
(* It is sent once, and what is sent goes to the chat it was typed for.        *)
SentOnce == \A p \in posted : \A w \in p.words \ stray :
  w.at = p.to /\ (w.of = None => \A q \in posted : w \in q.words => q = p)
(* A message is changed to what was typed in its edit.                         *)
EditsStay == \A m \in Msg : \A w \in own[m] : w.of = m
(* A reply is to a message of its chat, and so is a file, unless another chat  *)
(* was chosen during the upload.                                               *)
BelongsToItsChat == \A p \in posted : p.reply \in {None, p.to} /\ (p.file \in {None, p.to} \/ p.away)
=============================================================================

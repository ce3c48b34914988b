----------------------------- MODULE ServerView -----------------------------
(* What one user's app shows of her servers and what she does on the strength  *)
(* of it: the store of servers, the settings and channel windows and the live  *)
(* events of App.svelte. Each request is sent, handled at the server, and      *)
(* answered; requests and answers overtake each other. Others, who are admins  *)
(* too, change the same things meanwhile.                                      *)
EXTENDS Naturals, FiniteSets, TLC

CONSTANTS Server, Channel, Call, None, Limits

VARIABLES
  row,        \* at the server: is she a member, the texts, a role, the access to each channel
  selected,   \* the server she chose
  detail,     \* what is shown
  newest,     \* version of the newest answer applied since she chose it
  form,       \* the window she edits in
  list,       \* the access list in that window, with the channel it was asked for
  call, due,  \* requests under way; live events on their way to her
  left, why,  \* what may still happen; why the view may be wrong
  odd         \* what she did that she had not been shown

view == <<row, selected, detail, newest, form, list, call, due, left, why, odd>>

(* Two texts (name, description), two bits of a role, two bits of an override: *)
(* the first bit of an override is the right to see the channel.               *)
Field == {1, 2}
Values(part) == IF part = "texts" THEN 0..2 ELSE 0..1
Blank == [f \in Field |-> 0]
Nobody == [of |-> None, is |-> Blank]

VTypeOK ==
  /\ row \in [Server -> [member : BOOLEAN, version : Nat, texts : [Field -> 0..2], role : [Field -> 0..1],
                         access : [Channel -> [Field -> 0..1]]]]
  /\ selected \in Server \union {None} /\ newest \in Nat
  /\ detail = None \/ detail.of \in Server
  /\ form = None \/ form.part \in {"texts", "role", "access"}

VInit ==
  /\ row = [s \in Server |-> [member |-> TRUE, version |-> 0, texts |-> Blank, role |-> Blank,
                              access |-> [c \in Channel |-> Blank]]]
  /\ selected = None /\ detail = None /\ newest = 0 /\ form = None /\ list = Nobody
  /\ call = [c \in Call |-> None] /\ due = {} /\ left \in Limits /\ why = {} /\ odd = {}

Request(do, s) == [do |-> do, of |-> s, part |-> "none", channel |-> None, set |-> <<>>, then |-> "none",
                   seen |-> None, form |-> None, blame |-> {}]
Load(s) == Request("load", s)
Send(c, q) == call[c] = None /\ call' = [call EXCEPT ![c] = q]
Spend(k) == left[k] > 0 /\ left' = [left EXCEPT ![k] = @ - 1]

(* Choosing a server clears what is shown and asks for the new one.            *)
Select(s) == selected' = s /\ detail' = None /\ newest' = 0 /\ why' = {}
SelectServer(s, c) ==
  /\ form = None /\ Spend("acts") /\ selected # s /\ Select(s)
  /\ IF s = None THEN UNCHANGED call ELSE Send(c, Load(s))
  /\ UNCHANGED <<row, form, list, due, odd>>

(* The server answers with the state it finds. A form's request names a role   *)
(* or a channel of the server the form was filled from, which must be its own. *)
Snapshot(s) == [of |-> s, version |-> row[s].version, texts |-> row[s].texts, role |-> row[s].role]
Answer(c, ok, what) == call' = [call EXCEPT ![c].seen = [ok |-> ok, what |-> what, version |-> row[call[c].of].version]]
Found(q) == row[q.of].member /\ (q.part \in {"role", "access"} => q.form.of = q.of)
Changed(s, new) == [row EXCEPT ![s] = [new EXCEPT !.version = @ + 1]]
Tell(kind, s) == due' = due \union {<<kind, s, row[s].version + 1>>}
Merge(q, old) == [f \in Field |-> IF f \in DOMAIN q.set THEN q.set[f] ELSE old[f]]
Old(q) == IF q.part = "access" THEN row[q.of].access[q.channel] ELSE row[q.of][q.part]
Written(q) ==
  IF q.part = "access" THEN [row[q.of] EXCEPT !.access[q.channel] = Merge(q, @)]
  ELSE [row[q.of] EXCEPT ![q.part] = Merge(q, @)]
(* What a write does that its author did not ask for.                          *)
Undoes(q) == {f \in Field \ q.form.touched : Merge(q, Old(q))[f] # Old(q)[f]}
Oddities(q) ==
  LET blame == q.blame \union (IF q.form.base # Old(q) THEN {"behind"} ELSE {})
      act(w) == [what |-> w, part |-> q.part, blame |-> blame]
  IN {act(w) : w \in (IF q.form.of # q.of THEN {"another"} ELSE {})
                     \union (IF Undoes(q) # {} THEN {"undid"} ELSE {})}

ServeRead(c, q) ==
  /\ q.do \in {"load", "list"}
  /\ Answer(c, Found(q), IF q.do = "load" THEN Snapshot(q.of)
                         ELSE IF q.channel = None THEN Blank ELSE row[q.of].access[q.channel])
  /\ UNCHANGED <<row, due, odd>>
ServeWrite(c, q) ==
  /\ q.do = "write" /\ Answer(c, Found(q), None)
  /\ IF Found(q)
     THEN row' = Changed(q.of, Written(q)) /\ odd' = odd \union Oddities(q) /\ Tell("changed", q.of)
     ELSE UNCHANGED <<row, due, odd>>
ServeLeave(c, q) ==
  /\ q.do = "leave" /\ Answer(c, row[q.of].member, None) /\ UNCHANGED <<due, odd>>
  /\ row' = IF row[q.of].member THEN Changed(q.of, [row[q.of] EXCEPT !.member = FALSE]) ELSE row
ServeJoin(c, q) ==
  /\ q.do = "join" /\ Answer(c, TRUE, None) /\ UNCHANGED odd
  /\ IF row[q.of].member THEN UNCHANGED <<row, due>>
     ELSE row' = Changed(q.of, [row[q.of] EXCEPT !.member = TRUE]) /\ Tell("changed", q.of)
Serve(c) ==
  /\ call[c] # None /\ call[c].seen = None
  /\ ServeRead(c, call[c]) \/ ServeWrite(c, call[c]) \/ ServeLeave(c, call[c]) \/ ServeJoin(c, call[c])
  /\ UNCHANGED <<selected, detail, newest, form, list, left, why>>

(* The network loses a request or its answer: the app sees an error.           *)
Break(c) ==
  /\ call[c] # None /\ (call[c].seen # None => call[c].seen.version < 9)
  /\ Spend("lost")
  /\ call' = [call EXCEPT ![c].seen = [ok |-> FALSE, what |-> None, version |-> 9]]
  /\ UNCHANGED <<row, selected, detail, newest, form, list, due, why, odd>>
Broken(q) == q.seen.version = 9

(* An answer with the detail of a server is shown whichever server is chosen   *)
(* by now, and an error clears what is shown. After a save of the texts the    *)
(* window takes over what is shown; after a change of access the list is asked *)
(* for again.                                                                  *)
Causes(q) == (IF q.of # selected THEN {"late"} ELSE {}) \union (IF Broken(q) THEN {"failed"} ELSE {})
             \union (IF q.seen.version < newest THEN {"overtaken"} ELSE {})
Shown(q) == IF q.seen.ok THEN q.seen.what ELSE None
Blame == IF detail # None /\ detail.of # form.of THEN {"late"} ELSE {}
Afterwards(q) == IF q.then = "list" /\ form # None /\ form.part = "access" /\ detail' # None
                 THEN [Request("list", detail'.of) EXCEPT !.channel = form.channel, !.part = "access", !.form = form]
                 ELSE None
ApplyLoad(c, q) ==
  /\ q.do = "load" /\ detail' = Shown(q) /\ why' = why \union Causes(q)
  /\ newest' = IF q.of = selected /\ ~Broken(q) /\ q.seen.version > newest THEN q.seen.version ELSE newest
  /\ form' = IF q.then = "resync" /\ form # None /\ form.part = "texts" /\ detail' # None
             THEN [form EXCEPT !.input = detail'.texts, !.base = detail'.texts, !.touched = {}, !.of = detail'.of]
             ELSE form
  /\ call' = [call EXCEPT ![c] = Afterwards(q)] /\ UNCHANGED <<selected, list>>
ApplyList(c, q) ==
  /\ q.do = "list" /\ list' = IF q.seen.ok THEN [of |-> q.channel, is |-> q.seen.what] ELSE Nobody
  /\ call' = [call EXCEPT ![c] = None] /\ UNCHANGED <<selected, detail, newest, form, why>>
ApplyWrite(c, q) ==
  /\ q.do = "write" /\ form' = IF q.seen.ok /\ q.part = "role" THEN None ELSE form
  /\ call' = [call EXCEPT ![c] = IF q.seen.ok THEN [Load(q.of) EXCEPT !.then = q.then] ELSE None]
  /\ UNCHANGED <<selected, detail, newest, list, why>>
ApplyLeave(c, q) ==
  /\ q.do = "leave" /\ call' = [call EXCEPT ![c] = None] /\ UNCHANGED <<form, list>>
  /\ IF q.seen.ok /\ selected = q.of THEN Select(None)
     ELSE why' = why \union (Causes(q) \ {"late"}) /\ UNCHANGED <<selected, detail, newest>>
ApplyJoin(c, q) ==
  /\ q.do = "join" /\ UNCHANGED <<form, list>>
  /\ IF q.seen.ok THEN Select(q.of) /\ call' = [call EXCEPT ![c] = Load(q.of)]
     ELSE call' = [call EXCEPT ![c] = None] /\ UNCHANGED <<selected, detail, newest, why>>
Apply(c) ==
  /\ call[c] # None /\ call[c].seen # None
  /\ \/ ApplyLoad(c, call[c]) \/ ApplyList(c, call[c]) \/ ApplyWrite(c, call[c])
     \/ ApplyLeave(c, call[c]) \/ ApplyJoin(c, call[c])
  /\ UNCHANGED <<row, due, left, odd>>

(* Others change a text, a role or an override, or turn her out. Everyone who  *)
(* is a member, and the one turned out, is told over the socket.               *)
Others(s) ==
  /\ row[s].member /\ Spend("others") /\ UNCHANGED <<selected, detail, newest, form, list, call, why, odd>>
  /\ \/ \E p \in left.parts \ {"access", "away"}, f \in Field, v \in 0..2 :
          /\ v \in Values(p) \ {row[s][p][f]} /\ (p = "texts" => v = 2)
          /\ row' = Changed(s, [row[s] EXCEPT ![p][f] = v]) /\ Tell("changed", s)
     \/ \E ch \in Channel : /\ "access" \in left.parts
                            /\ row' = Changed(s, [row[s] EXCEPT !.access[ch][2] = 1 - @]) /\ Tell("changed", s)
     \/ \E k \in {"server_member_banned", "server_member_kicked"} :
          /\ "away" \in left.parts
          /\ row' = Changed(s, [row[s] EXCEPT !.member = FALSE]) /\ Tell(k, s)

(* A live event of the chosen server asks for it again; that of her own ban    *)
(* does so and then returns her to the list. That of a kick is not among them. *)
Heard == {"changed", "server_member_banned"}
Resets == {"server_member_banned"}
Hear(e, c) ==
  /\ e \in due /\ due' = due \ {e} /\ UNCHANGED <<row, list, left, odd>>
  /\ IF selected # e[2] \/ e[1] \notin Heard
     THEN /\ UNCHANGED <<selected, detail, newest, form, call>>
          /\ why' = IF selected = e[2] THEN why \union {"kicked"} ELSE why
     ELSE /\ Send(c, Load(e[2])) /\ UNCHANGED form
          /\ IF e[1] \in Resets THEN Select(None) ELSE UNCHANGED <<selected, detail, newest, why>>
Miss(e) ==
  /\ e \in due /\ Spend("lost") /\ due' = due \ {e}
  /\ why' = IF selected = e[2] THEN why \union {"lost"} ELSE why
  /\ UNCHANGED <<row, selected, detail, newest, form, list, call, odd>>

(* She opens a window on what is shown: the texts and the role are copied, the *)
(* access list is asked for, and stays that of the last channel until it comes.*)
Opens(p, ch) == [part |-> p, of |-> detail.of, channel |-> ch, touched |-> {}, saved |-> FALSE,
                 base |-> IF p = "access" THEN Blank ELSE detail[p], input |-> IF p = "access" THEN Blank ELSE detail[p]]
OpenCopy(p) ==
  /\ detail # None /\ form = None /\ Spend("acts") /\ form' = Opens(p, None)
  /\ UNCHANGED <<row, selected, detail, newest, list, call, due, why, odd>>
OpenAccess(ch, c) ==
  /\ detail # None /\ Spend("acts")
  /\ form # None => form.part = "access" /\ form.channel # ch
  /\ form' = Opens("access", ch) /\ list' = IF form = None THEN Nobody ELSE list
  /\ Send(c, [Request("list", detail.of) EXCEPT !.channel = ch, !.part = "access", !.form = form'])
  /\ UNCHANGED <<row, selected, detail, newest, due, why, odd>>
Open == \/ \E p \in left.parts \intersect {"texts", "role"} : OpenCopy(p)
        \/ \E ch \in Channel, c \in Call : "access" \in left.parts /\ OpenAccess(ch, c)
Edit ==
  /\ form # None /\ form.part # "access" /\ form.touched = {}
  /\ \E f \in Field : \E v \in {1} \ {form.input[f]} :
       form' = [form EXCEPT !.input[f] = v, !.touched = {f}]
  /\ UNCHANGED <<row, selected, detail, newest, list, call, due, left, why, odd>>
Close ==
  /\ form # None /\ form' = None
  /\ UNCHANGED <<row, selected, detail, newest, list, call, due, left, why, odd>>

(* Saving goes to the server that is shown. Of the texts, those which differ   *)
(* from what is shown are sent; of a role or an override, the whole.           *)
Only(r, fs) == [f \in fs |-> r[f]]
\* Slip: every text is sent.
Differs_All == Field
Differs == {f \in Field : form.input[f] # detail.texts[f]}
Moved == IF detail.texts # form.base THEN {"moved"} ELSE {}
Busy == \E c \in Call : call[c] # None /\ (call[c].do = "write" \/ call[c].then # "none")
Granted == [list.is EXCEPT ![1] = 1]
Stale == (IF list.of = None THEN {"empty"} ELSE {}) \union (IF list.of \in Channel \ {form.channel} THEN {"misplaced"} ELSE {})
Body ==
  CASE form.part = "texts" -> [set |-> Only(form.input, Differs), then |-> "resync", blame |-> Moved, form |-> form]
    [] form.part = "role" -> [set |-> form.input, then |-> "none", blame |-> {}, form |-> form]
    [] form.part = "access" -> [set |-> Granted, then |-> "list", blame |-> Stale,
                                form |-> [form EXCEPT !.touched = {1}, !.base = list.is]]
Save(c) ==
  /\ form # None /\ detail # None /\ ~Busy /\ ~form.saved
  /\ form.part = "texts" => Differs # {}
  /\ form.part = "role" => form.input # form.base
  /\ Send(c, [Request("write", detail.of) EXCEPT
       !.part = form.part, !.channel = form.channel, !.set = Body.set, !.then = Body.then,
       !.form = Body.form, !.blame = Body.blame \union Blame])
  /\ form' = [form EXCEPT !.saved = TRUE]
  /\ UNCHANGED <<row, selected, detail, newest, list, due, left, why, odd>>

(* The question names the server that is shown, the request the chosen one.    *)
Leave(c) ==
  /\ selected # None /\ form = None /\ Spend("acts") /\ "away" \in left.parts
  /\ \A d \in Call : call[d] # None => call[d].do # "leave"
  /\ Send(c, Request("leave", selected))
  /\ odd' = IF detail # None /\ detail.of # selected
            THEN odd \union {[what |-> "left", part |-> "none", blame |-> why]} ELSE odd
  /\ UNCHANGED <<row, selected, detail, newest, form, list, due, why>>
Join(s, c) ==
  /\ ~row[s].member /\ form = None /\ Spend("acts") /\ Send(c, Request("join", s))
  /\ UNCHANGED <<row, selected, detail, newest, form, list, due, why, odd>>

VNext ==
  \/ \E s \in Server \union {None}, c \in Call : SelectServer(s, c)
  \/ \E c \in Call : Serve(c) \/ Break(c) \/ Apply(c) \/ Save(c) \/ Leave(c)
  \/ \E s \in Server : Others(s) \/ \E c \in Call : Join(s, c)
  \/ \E e \in due : Miss(e) \/ \E c \in Call : Hear(e, c)
  \/ Open \/ Edit \/ Close

-----------------------------------------------------------------------------
Rest == due = {} /\ \A c \in Call : call[c] = None

(* At rest the app shows the chosen server as it is and nothing of any other;  *)
(* where it does not, an answer came late or in the wrong order, a request     *)
(* failed, an event was lost, or it was that of a kick.                        *)
ViewIsTrue ==
  Rest /\ why = {} =>
    IF selected # None /\ row[selected].member THEN detail = Snapshot(selected) ELSE detail = None

(* She leaves, or writes to, another server than the one she was shown only    *)
(* after a late answer; a text she did not touch is put back only if its new   *)
(* value had already appeared behind the window; and the bits of an override   *)
(* she did not touch are changed only by a list that was empty, another        *)
(* channel's or older than the change.                                         *)
ActsAreAsShown ==
  \A o \in odd :
    /\ o.what \in {"left", "another"} => "late" \in o.blame
    /\ o.what = "undid" /\ o.part = "texts" => o.blame \intersect {"moved", "late"} # {}
    /\ o.what = "undid" /\ o.part # "texts" => o.blame \intersect {"empty", "misplaced", "behind"} # {}

ViewInOrder == ViewIsTrue /\ ActsAreAsShown
=============================================================================

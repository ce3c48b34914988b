------------------------------ MODULE Contents ------------------------------
(* The rows and the stored files of one server and of one group: the icon, the *)
(* channels, the messages and their attachments. Rows are in the database,     *)
(* files in a bucket; a request writes first the one, then the other, and may  *)
(* overlap with another request or break off between two writes.               *)
EXTENDS Naturals, FiniteSets, TLC

CONSTANTS Group, Channels, Worker, None, Limits

VARIABLES
  open, icon,     \* the server's row and the icon it names
  convos,         \* the rows of the group and of the channels
  members,        \* does the group still have a member
  messages,       \* rows: conversation and attachment
  bucket, next,   \* the files; the next new key
  req, left,      \* requests under way; what may still happen
  why             \* why a file or a row was left behind

contents == <<open, icon, convos, members, messages, bucket, next, req, left, why>>
Message == [of : {Group} \union Channels, file : Nat, id : Nat]

Requests == [op : {"icon", "unicon", "send", "delete", "create"}, of : {Group, None} \union Channels,
             file : Nat, list : SUBSET Nat,
             at : {"put", "row", "delete", "check", "insert", "list", "all", "messages", "files"}]

CTypeOK ==
  /\ open \in BOOLEAN /\ members \in BOOLEAN /\ icon \in Nat /\ next \in Nat
  /\ convos \subseteq {Group} \union Channels /\ messages \subseteq Message /\ bucket \subseteq Nat
  /\ req \in [Worker -> Requests \union {None}]

(* An icon (file 1), a channel, and a group with one attachment (file 2).      *)
CInit ==
  /\ open = TRUE /\ icon = 1 /\ members = TRUE /\ \E c \in Channels : convos = {Group, c}
  /\ messages = {[of |-> Group, file |-> 2, id |-> 2]} /\ bucket = {1, 2} /\ next = 3
  /\ req = [r \in Worker |-> None] /\ left \in Limits /\ why = {}

Begin(r, q) ==
  /\ req[r] = None /\ left.ops > 0 /\ left' = [left EXCEPT !.ops = @ - 1]
  /\ req' = [req EXCEPT ![r] = q]
  /\ UNCHANGED <<open, icon, convos, members, messages, bucket, next, why>>
At(r, op, step) == req[r] # None /\ req[r].op = op /\ req[r].at = step
Goto(r, step) == req' = [req EXCEPT ![r].at = step]
Ends(r) == req' = [req EXCEPT ![r] = None]
Ask(op, of, file, list, step) == [op |-> op, of |-> of, file |-> file, list |-> list, at |-> step]

(* The icon: the old key is read, the new file written, then the row, then the *)
(* old file deleted, whatever the row has named meanwhile.                     *)
uploadServerIconReads(r) == open /\ Begin(r, Ask("icon", None, icon, {}, "put"))
uploadServerIconPut(r) ==
  /\ At(r, "icon", "put") /\ bucket' = bucket \union {next} /\ next' = next + 1
  /\ req' = [req EXCEPT ![r].at = "row", ![r].list = {next}]
  /\ UNCHANGED <<open, icon, convos, members, messages, left, why>>
Overwrites(r) == (IF icon \in {0, req[r].file} THEN {} ELSE {<<icon, "overlap">>})
                 \union (IF open THEN {} ELSE {<<k, "closed">> : k \in req[r].list})
IconRow(r, key) ==
  /\ icon' = IF open THEN key ELSE icon
  /\ why' = why \union Overwrites(r) /\ Goto(r, "delete")
  /\ UNCHANGED <<open, convos, members, messages, bucket, next, left>>
uploadServerIconRow(r) == At(r, "icon", "row") /\ \E k \in req[r].list : IconRow(r, k)
deleteServerIconReads(r) == open /\ icon # 0 /\ Begin(r, Ask("unicon", None, icon, {}, "row"))
deleteServerIconRow(r) == At(r, "unicon", "row") /\ IconRow(r, 0)
IconDelete(r) ==
  /\ At(r, "icon", "delete") \/ At(r, "unicon", "delete")
  /\ bucket' = bucket \ {req[r].file} /\ Ends(r)
  /\ UNCHANGED <<open, icon, convos, members, messages, next, left, why>>

(* An attachment is uploaded by a member of the group and named by the message *)
(* sent next, which is checked anew. Channels take no uploads: their members   *)
(* are not in conversation_members.                                            *)
Upload(r) == members /\ Begin(r, Ask("send", Group, 0, {}, "put"))
UploadPut(r) ==
  /\ At(r, "send", "put") /\ bucket' = bucket \union {next} /\ next' = next + 1
  /\ req' = [req EXCEPT ![r].file = next, ![r].at = "check"]
  /\ UNCHANGED <<open, icon, convos, members, messages, left, why>>
WriteChannel(r, c) == open /\ c \in convos /\ Begin(r, Ask("send", c, 0, {}, "insert"))
SendChecked(r) ==
  /\ At(r, "send", "check")
  /\ IF members THEN Goto(r, "insert") /\ UNCHANGED why
     ELSE Ends(r) /\ why' = why \union {<<req[r].file, "unsent">>}
  /\ UNCHANGED <<open, icon, convos, members, messages, bucket, next, left>>
Listing(c) == \E r \in Worker : req[r] # None /\ req[r].op = "delete" /\ req[r].of = c /\ req[r].at \in {"all", "messages"}
SendInserts(r) ==
  /\ At(r, "send", "insert") /\ next' = next + 1
  /\ messages' = messages \union {[of |-> req[r].of, file |-> req[r].file, id |-> next]}
  /\ why' = IF req[r].of \in convos /\ ~Listing(req[r].of) THEN why
            ELSE why \union {<<req[r].file, "late">>, <<next, "late">>}
  /\ Ends(r) /\ UNCHANGED <<open, icon, convos, members, bucket, left>>

(* Deleting a message, the group after its last member has left it, or a       *)
(* channel: files first, one by one, then the rows.                            *)
DeleteMessage(r) ==
  \E m \in messages : m.of = Group /\ Begin(r, Ask("delete", m.of, m.file, {m.id}, "files"))
LastLeaves(r) ==
  /\ members /\ req[r] = None /\ left.ops > 0 /\ left' = [left EXCEPT !.ops = @ - 1] /\ members' = FALSE
  /\ req' = [req EXCEPT ![r] = Ask("delete", Group, 0, {}, "list")]
  /\ UNCHANGED <<open, icon, convos, messages, bucket, next, why>>
channelDelete(r, c) == open /\ c \in convos /\ Begin(r, Ask("delete", c, 0, {}, "list"))
In(c) == {m \in messages : m.of = c}
FilesOf(M) == {m.file : m \in M} \ {0}
\* Slip: the rows go without their files.
Listed_Nothing(r) ==
  /\ At(r, "delete", "list") /\ req' = [req EXCEPT ![r].at = "all"]
  /\ UNCHANGED <<open, icon, convos, members, messages, bucket, next, left, why>>
Listed(r) ==
  /\ At(r, "delete", "list")
  /\ req' = [req EXCEPT ![r].list = FilesOf(In(req[r].of)), ![r].at = "all"]
  /\ UNCHANGED <<open, icon, convos, members, messages, bucket, next, left, why>>
FileDeleted(r) ==
  /\ At(r, "delete", "all") /\ req[r].list # {}
  /\ \E f \in req[r].list : bucket' = bucket \ {f} /\ req' = [req EXCEPT ![r].list = @ \ {f}]
  /\ UNCHANGED <<open, icon, convos, members, messages, next, left, why>>
(* Of the group, the conversation's row and the messages go one after the      *)
(* other, of a channel in one batch.                                           *)
RowsDeleted(r) ==
  LET c == req[r].of IN
  /\ At(r, "delete", "all") /\ req[r].list = {} /\ convos' = convos \ {c}
  /\ IF c = Group THEN Goto(r, "messages") /\ UNCHANGED messages ELSE Ends(r) /\ messages' = messages \ In(c)
  /\ UNCHANGED <<open, icon, members, bucket, next, left, why>>
MessagesDeleted(r) ==
  /\ At(r, "delete", "messages") /\ messages' = messages \ In(req[r].of) /\ Ends(r)
  /\ UNCHANGED <<open, icon, convos, members, bucket, next, left, why>>
OneFileDeleted(r) ==
  /\ At(r, "delete", "files") /\ bucket' = bucket \ {req[r].file} /\ Goto(r, "row")
  /\ UNCHANGED <<open, icon, convos, members, messages, next, left, why>>
OneRowDeleted(r) ==
  /\ At(r, "delete", "row") /\ messages' = {m \in messages : m.id \notin req[r].list} /\ Ends(r)
  /\ UNCHANGED <<open, icon, convos, members, bucket, next, left, why>>

(* A channel is made in the server; the server is closed by deleting its row,  *)
(* to which only the tables of schema-servers.sql cascade.                     *)
channelCreate(r, c) == open /\ c \notin convos /\ Begin(r, Ask("create", c, 0, {}, "insert"))
ChannelInserted(r) ==
  /\ At(r, "create", "insert") /\ convos' = convos \union {req[r].of} /\ Ends(r)
  /\ why' = IF open THEN why ELSE why \union {<<req[r].of, "closed">>}
  /\ UNCHANGED <<open, icon, members, messages, bucket, next, left>>
closeServer(r) ==
  /\ open /\ left.ops > 0 /\ left' = [left EXCEPT !.ops = @ - 1] /\ open' = FALSE
  /\ why' = why \union {<<x, "closed">> : x \in ({icon} \ {0}) \union (convos \ {Group})}
  /\ UNCHANGED <<icon, convos, members, messages, bucket, next, req>>

(* The worker ends a request, or the app is closed between upload and message. *)
Holds(q) == {q.file} \union q.list \union (IF q.op = "delete" THEN FilesOf(In(q.of)) ELSE {})
BreakOff(r) ==
  /\ req[r] # None /\ left.breaks > 0 /\ left' = [left EXCEPT !.breaks = @ - 1] /\ Ends(r)
  /\ why' = why \union {<<x, "broke off">> : x \in Holds(req[r])}
                \union {<<m.id, "broke off">> : m \in IF req[r].op = "delete" THEN In(req[r].of) ELSE {}}
  /\ UNCHANGED <<open, icon, convos, members, messages, bucket, next>>

CNext ==
  \E r \in Worker :
    \/ uploadServerIconReads(r) \/ uploadServerIconPut(r) \/ uploadServerIconRow(r)
    \/ deleteServerIconReads(r) \/ deleteServerIconRow(r) \/ IconDelete(r)
    \/ Upload(r) \/ UploadPut(r) \/ SendChecked(r) \/ SendInserts(r) \/ DeleteMessage(r) \/ LastLeaves(r)
    \/ Listed(r) \/ FileDeleted(r) \/ RowsDeleted(r) \/ MessagesDeleted(r) \/ OneFileDeleted(r) \/ OneRowDeleted(r)
    \/ ChannelInserted(r) \/ closeServer(r) \/ BreakOff(r)
    \/ \E c \in Channels : WriteChannel(r, c) \/ channelDelete(r, c) \/ channelCreate(r, c)

-----------------------------------------------------------------------------
Idle == \A r \in Worker : req[r] = None
Blamed(x) == \E w \in why : w[1] = x
Named == (IF open THEN {icon} ELSE {}) \union FilesOf({m \in messages : m.of \in convos})

(* The row of an open server never names a file that is deleted, however the   *)
(* uploads and deletions of icons overlap and wherever they break off.         *)
IconIsThere == open /\ icon # 0 => icon \in bucket

(* When no request is under way every stored file is named by a row and every  *)
(* named file is stored, a message has its conversation and a channel its      *)
(* server, unless a request broke off, two icon requests overlapped, a message *)
(* was stored after its conversation was listed for deletion, it was never     *)
(* sent, or the server was closed.                                             *)
NothingLeftBehind ==
  Idle => /\ \A f \in bucket \ Named : Blamed(f)
          /\ \A m \in messages : /\ m.of \in convos \/ Blamed(m.id)
                                 /\ m.file \in bucket \union {0} \/ Blamed(m.file)
          /\ open \/ \A c \in convos \ {Group} : Blamed(c)

ContentsAgree == IconIsThere /\ NothingLeftBehind
=============================================================================

------------------------------ MODULE Accounts ------------------------------
(***************************************************************************)
(* One handle at the server: its passkeys, its sessions, the index of its  *)
(* sessions, and the deletion of the account (authRoutes.js, auth.js,      *)
(* loginFinish.js, the device revocation of e2eRoutes.js).                 *)
(*                                                                         *)
(* Everything here lies in a key-value store that has get, put and delete  *)
(* and nothing atomic over two of them.  A request is a process: one step  *)
(* per access to the store, and the requests interleave at each of them.   *)
(* Two people use the handle: the owner, and somebody who registers the    *)
(* handle as well, at the same time or after the account was deleted.      *)
(***************************************************************************)
EXTENDS Integers, Sequences, FiniteSets

CONSTANTS
  Person,       \* people who may register the handle
  First,        \* the person who owns it at the beginning
  Request,      \* requests the server may be serving at once
  MaxSessions,  \* bound: sessions per person
  MaxKeys,      \* bound: passkeys per person
  MaxIndex,     \* tokens kept in the index (20 in the code)
  MaxPasskeys,  \* MAX_PASSKEYS
  Life,         \* lifetime of a session and of the index, in ticks
  Bounds,       \* the bounds a behaviour may choose: [ops, requests, now]
  None          \* an absent entry

ASSUME AccountsAssumption ==
  /\ First \in Person
  /\ MaxSessions \in Nat /\ MaxSessions >= 2 /\ MaxIndex \in Nat /\ MaxIndex >= 2
  /\ MaxPasskeys \in Nat \ {0} /\ Life \in Nat \ {0}
  /\ \A b \in Bounds : b.requests \in Nat /\ b.now \in Nat

Session == {<<"session", p, n>> : p \in Person, n \in 1..MaxSessions}
Passkey == {<<"passkey", p, n>> : p \in Person, n \in 1..MaxKeys}
Of(x) == x[2]

ASSUME NoneAssumption ==
  /\ None \notin [tokens : Seq(Session), till : Int] /\ None \notin [till : Int, exp : Int, last : Int]
  /\ \A keys \in SUBSET Passkey : None # keys

Kept == {"kv", "db"}      \* where an account's data lies
Never == -1               \* a session without a fixed end

VARIABLES
  now,       \* the clock
  session,   \* KV session:<token>: [till, exp, last], or None
  index,     \* KV sessions:index:<handle>: [tokens, till], or None
  creds,     \* KV webauthn:<handle>: the passkeys, or None
  flag,      \* KV deleted:<handle>
  regCha,    \* KV challenge:register:<handle>: [by, add], or None
  logCha,    \* KV challenge:login:<handle>: the request it was made for
  device,    \* the user's other device may still be revoked
  data,      \* data[x], whose rows and entries of the account are in x
  req,       \* the requests under way
  begun,     \* requests begun so far
  bounds,    \* the bounds of this behaviour
  handed,    \* history: sessions whose cookie reached a client
  ended,     \* history: sessions ended by an answered logout, revoke or delete
  known,     \* history: known[k], what the user was told of passkey k
  owner,     \* history: who registered last, None after an answered deletion
  why,       \* history: why[x], what excuses x, a session or a passkey
  mixed      \* history: what excuses data of two owners

stores == <<session, index, creds, flag, regCha, logCha, device, data>>
ghosts == <<handed, ended, known, owner, why, mixed>>
vars == <<now, stores, req, begun, bounds, ghosts>>

Op == {"visit", "login", "register", "remove", "rename", "logout", "revoke",
       "disown", "delete"}

Idle == [op |-> "none", pc |-> "idle", who |-> First, tok |-> None,
         key |-> None, add |-> FALSE, copy |-> None, since |-> {}]

\* An entry of the store is there until its time to live has passed.
Live(t) == session[t] # None /\ now < session[t].till
Listed == IF index = None THEN <<>> ELSE index.tokens
ListedSet == {Listed[i] : i \in DOMAIN Listed}
SetOf(s) == {s[i] : i \in DOMAIN s}
Excuse(X, c) == [x \in DOMAIN why |-> IF x \in X THEN why[x] \union {c} ELSE why[x]]
Deleting == {r \in Request : req[r].op = "delete" /\ req[r].pc \notin {"auth", "go"}}

At(r, pc) == req[r].pc = pc
Go(r, pc) == req' = [req EXCEPT ![r].pc = pc]
GoWith(r, pc, read) == req' = [req EXCEPT ![r].pc = pc, ![r].copy = read]
End(r) == req' = [req EXCEPT ![r] = Idle]

SessionOf(e) == [till |-> now + Life, exp |-> e, last |-> now]

Init ==
  /\ now = 0
  /\ session = [t \in Session |-> IF Of(t) = First /\ t[3] <= 2
                                  THEN [till |-> Life, exp |-> Life, last |-> 0] ELSE None]
  /\ index = [tokens |-> <<<<"session", First, 1>>, <<"session", First, 2>>>>, till |-> Life]
  /\ creds = {k \in Passkey : Of(k) = First /\ k[3] <= 2}
  /\ flag = FALSE /\ regCha = None /\ logCha = None /\ device = TRUE
  /\ data = [x \in Kept |-> {First}]
  /\ req = [r \in Request |-> Idle] /\ begun = 0
  /\ bounds \in Bounds
  /\ handed = {t \in Session : session[t] # None} /\ ended = {}
  /\ known = [k \in Passkey |-> IF k \in creds THEN "kept" ELSE "unused"]
  /\ owner = First
  /\ why = [x \in Session \union Passkey |-> {}] /\ mixed = {}

(***************************************************************************)
(* A request arrives.  It carries the cookie of a session of its sender,   *)
(* and names a passkey of its sender where the operation needs one.        *)
(***************************************************************************)
FreshKey(p) == {k \in Passkey : Of(k) = p /\ known[k] = "unused"}
FirstOf(X) == {x \in X : \A y \in X : x[3] <= y[3]}

KeyFor(op, p) ==
  CASE op = "register" -> FirstOf(FreshKey(p))
    [] op = "login" -> {k \in Passkey : Of(k) = p /\ known[k] \in {"kept", "gone"}}
    [] op \in {"remove", "rename"} -> {k \in Passkey : Of(k) = p /\ known[k] = "kept"}
    [] OTHER -> {None}
CookieFor(op, p) ==
  LET own == {t \in handed : Of(t) = p}
  IN CASE op = "login" -> {None} [] op = "register" -> own \union {None} [] OTHER -> own

Begin(r, op, p) ==
  /\ req[r].op = "none" /\ begun < bounds.requests
  /\ \E tok \in CookieFor(op, p), key \in KeyFor(op, p) :
       /\ req' = [req EXCEPT ![r] = [Idle EXCEPT !.op = op, !.who = p, !.tok = tok, !.key = key,
            !.pc = CASE op = "login" -> "challenge" [] op = "register" -> "start"
                     [] op = "logout" -> "find" [] OTHER -> "auth",
            !.since = IF op \in {"revoke", "disown", "delete"} THEN handed ELSE {}]]
       /\ known' = IF op = "register" THEN [known EXCEPT ![key] = "asked"] ELSE known
  /\ begun' = begun + 1
  /\ UNCHANGED <<now, stores, bounds, handed, ended, owner, why, mixed>>

\* A good part of the lifetime passes, far more than any request takes.
Tick ==
  /\ now < bounds.now /\ \A r \in Request : req[r].op = "none"
  /\ now' = now + 1
  /\ IF index # None /\ index.till <= now'
       THEN /\ index' = None
            /\ why' = Excuse({t \in ListedSet : session[t] # None /\ now' < session[t].till},
                             "IndexExpired")
       ELSE UNCHANGED <<index, why>>
  /\ UNCHANGED <<session, creds, flag, regCha, logCha, device, data, req, begun, bounds,
                 handed, ended, known, owner, mixed>>

\* The lock of the handle runs out (after 300 days).
Unlock ==
  /\ flag /\ "unlock" \in bounds.ops /\ \A r \in Request : req[r].op = "none"
  /\ flag' = FALSE
  /\ UNCHANGED <<now, session, index, creds, regCha, logCha, device, data, req, begun, bounds, ghosts>>

(***************************************************************************)
(* requireSession: the session is read; one past its fixed end is deleted; *)
(* one that was not refreshed for six hours is put back with a new time to *)
(* live, from the copy that was read.                                      *)
(***************************************************************************)
Proceed(r) == IF req[r].op = "visit" THEN End(r) ELSE GoWith(r, "go", None)

Authenticate(r) ==
  /\ At(r, "auth")
  /\ LET t == req[r].tok
     IN IF t = None \/ ~Live(t)
          THEN End(r) /\ UNCHANGED session
        ELSE IF session[t].exp # Never /\ now > session[t].exp
          THEN End(r) /\ session' = [session EXCEPT ![t] = None]
        ELSE /\ \E due \in BOOLEAN :
                  /\ (now > session[t].last => due)
                  /\ IF due THEN GoWith(r, "refresh", session[t]) ELSE Proceed(r)
             /\ UNCHANGED session
  /\ UNCHANGED <<now, index, creds, flag, regCha, logCha, device, data, begun, bounds, ghosts>>

Refresh(r) ==
  /\ At(r, "refresh")
  /\ LET t == req[r].tok
     IN /\ session' = [session EXCEPT ![t] = [req[r].copy EXCEPT !.till = now + Life, !.last = now]]
        /\ why' = IF Live(t) THEN why ELSE Excuse({t}, "Refreshed")
  /\ Proceed(r)
  /\ UNCHANGED <<now, index, creds, flag, regCha, logCha, device, data, begun, bounds,
                 handed, ended, known, owner, mixed>>

(***************************************************************************)
(* The passkeys are one entry, read and written as a whole.  A write from  *)
(* a copy that is no longer current changes more than the request asked    *)
(* for: those passkeys are excused.                                        *)
(***************************************************************************)
Stored == IF creds = None THEN {} ELSE creds
SymDiff(A, B) == (A \ B) \union (B \ A)
WriteCreds(copy, new) ==
  /\ creds' = new
  /\ why' = Excuse(IF copy = Stored /\ Deleting = {} /\ owner # None THEN {}
                    ELSE SymDiff(copy, Stored) \union new, "Overwrote")

\* Remove a passkey, but not the last one.

ReadForRemove(r) ==
  /\ At(r, "go") /\ req[r].op = "remove"
  /\ IF creds = None \/ Cardinality(Stored) <= 1 \/ req[r].key \notin Stored
       THEN End(r) ELSE GoWith(r, "write", creds)
  /\ UNCHANGED <<now, stores, begun, bounds, ghosts>>

\* Rename a passkey: the name is left out, the write is not.
ReadForRename(r) ==
  /\ At(r, "go") /\ req[r].op = "rename"
  /\ IF req[r].key \notin Stored THEN End(r) ELSE GoWith(r, "write", creds)
  /\ UNCHANGED <<now, stores, begun, bounds, ghosts>>

\* What the request makes of the passkeys it read.
NewCreds(op, copy, k) ==
  CASE op = "remove" -> copy \ {k} [] op = "rename" -> copy [] op = "register" -> copy \union {k}

WritePasskeys(r) ==
  /\ At(r, "write")
  /\ WriteCreds(req[r].copy, NewCreds(req[r].op, req[r].copy, req[r].key))
  /\ known' = CASE req[r].op = "remove" -> [known EXCEPT ![req[r].key] = "gone"]
                [] req[r].op = "register" -> [known EXCEPT ![req[r].key] = "kept"]
                [] OTHER -> known
  /\ End(r)
  /\ UNCHANGED <<now, session, index, flag, regCha, logCha, device, data, begun, bounds,
                 handed, ended, owner, mixed>>

(***************************************************************************)
(* Registration.  The start looks for the lock of a deleted handle and for *)
(* passkeys of the handle, and only then (after the captcha) stores the    *)
(* challenge, with the decision whether this adds a passkey or registers   *)
(* the handle; the finish relies on that decision.                         *)
(***************************************************************************)
RegisterStart(r) ==
  /\ At(r, "start")
  /\ IF flag THEN End(r)
     ELSE IF creds # None THEN Go(r, "auth")
     ELSE GoWith(r, "put", FALSE)
  /\ UNCHANGED <<now, stores, begun, bounds, ghosts>>

RegisterRoom(r) ==
  /\ At(r, "go") /\ req[r].op = "register"
  /\ IF Cardinality(Stored) >= MaxPasskeys THEN End(r) ELSE GoWith(r, "put", TRUE)
  /\ UNCHANGED <<now, stores, begun, bounds, ghosts>>

RegisterPut(r) ==
  /\ At(r, "put")
  /\ regCha' = [by |-> r, add |-> req[r].copy]
  /\ GoWith(r, "take", None)
  /\ UNCHANGED <<now, session, index, creds, flag, logCha, device, data, begun, bounds, ghosts>>

\* register/finish: the challenge must be the one this client signed.
RegisterTake(r) ==
  /\ At(r, "take")
  /\ IF regCha = None THEN End(r)
     ELSE IF regCha.by # r THEN End(r)
     ELSE GoWith(r, "spend", regCha.add)
  /\ UNCHANGED <<now, stores, begun, bounds, ghosts>>

RegisterSpend(r) ==
  /\ At(r, "spend")
  /\ regCha' = None
  /\ GoWith(r, IF req[r].copy THEN "read" ELSE "found", None)
  /\ UNCHANGED <<now, session, index, creds, flag, logCha, device, data, begun, bounds, ghosts>>

ReadForAdd(r) ==
  /\ At(r, "read")
  /\ IF creds = None THEN End(r) ELSE GoWith(r, "write", creds)
  /\ UNCHANGED <<now, stores, begun, bounds, ghosts>>

\* A new account: one passkey, whatever lies there by now.
Found(r) ==
  /\ At(r, "found")
  /\ LET k == req[r].key  p == req[r].who IN
       /\ WriteCreds({}, {k})
       /\ known' = [known EXCEPT ![k] = "kept"]
       /\ data' = [x \in Kept |-> data[x] \union {p}]
       /\ owner' = p
       /\ mixed' = mixed \union (IF Deleting # {} THEN {"RegisteredWhileDeleting"} ELSE {})
                          \union (IF flag THEN {"FlaggedSince"} ELSE {})
                          \union (IF creds # None THEN {"RegistrationsOverlap"} ELSE {})
  /\ Go(r, "open")
  /\ UNCHANGED <<now, session, index, flag, regCha, logCha, device, begun, bounds, handed, ended>>

(***************************************************************************)
(* Login.  The challenge belongs to the handle: a second login under way   *)
(* replaces it.  The finish writes the passkeys back (use counter and time *)
(* of last use), then stores the session and enters it into the index.     *)
(***************************************************************************)
LoginStart(r) ==
  /\ At(r, "challenge")
  /\ IF Stored = {} THEN End(r) /\ UNCHANGED logCha
     ELSE logCha' = r /\ Go(r, "signed")
  /\ UNCHANGED <<now, session, index, creds, flag, regCha, device, data, begun, bounds, ghosts>>

LoginTake(r) ==
  /\ At(r, "signed")
  /\ IF logCha # r THEN End(r) ELSE Go(r, "match")
  /\ UNCHANGED <<now, stores, begun, bounds, ghosts>>

LoginMatch(r) ==
  /\ At(r, "match")
  /\ IF Stored = {} THEN End(r) /\ UNCHANGED logCha
     ELSE IF req[r].key \notin Stored THEN End(r) /\ logCha' = None
     ELSE GoWith(r, "spent", creds) /\ UNCHANGED logCha
  /\ UNCHANGED <<now, session, index, creds, flag, regCha, device, data, begun, bounds, ghosts>>

LoginSpend(r) ==
  /\ At(r, "spent")
  /\ logCha' = None
  /\ Go(r, "used")
  /\ UNCHANGED <<now, session, index, creds, flag, regCha, device, data, begun, bounds, ghosts>>

LoginUsed(r) ==
  /\ At(r, "used")
  /\ WriteCreds(req[r].copy, req[r].copy)
  /\ GoWith(r, "open", None)
  /\ UNCHANGED <<now, session, index, flag, regCha, logCha, device, data, begun, bounds,
                 handed, ended, known, owner, mixed>>

\* A new session; one opened by a login also ends at a fixed time.
NewSession(p) == {t \in Session : Of(t) = p /\ t \notin handed /\ session[t] = None
                                 /\ \A r \in Request : req[r].tok # t}
OpenSession(r) ==
  /\ At(r, "open")
  /\ \E t \in FirstOf(NewSession(req[r].who)) :
       /\ session' = [session EXCEPT ![t] =
            SessionOf(IF req[r].op = "login" THEN now + Life ELSE Never)]
       /\ req' = [req EXCEPT ![r].pc = "list", ![r].tok = t]
       /\ why' = Excuse(IF Deleting # {} \/ owner # req[r].who THEN {t} ELSE {}, "OpenedLate")
  /\ UNCHANGED <<now, index, creds, flag, regCha, logCha, device, data, begun, bounds,
                 handed, ended, known, owner, mixed>>

(***************************************************************************)
(* The index of sessions: read, changed, written as a whole.               *)
(***************************************************************************)
Lost(copy) == SymDiff(SetOf(copy), ListedSet)
\* Slip: a full index keeps its oldest sessions.
Newest_Oldest(s) == IF Len(s) > MaxIndex THEN SubSeq(s, 1, MaxIndex) ELSE s

Newest(s) == IF Len(s) > MaxIndex THEN SubSeq(s, Len(s) - MaxIndex + 1, Len(s)) ELSE s

ReadIndex(r) ==
  /\ At(r, "list")
  /\ IF req[r].op = "logout" /\ index = None THEN End(r)
     ELSE GoWith(r, "enter", Listed)
  /\ ended' = IF req[r].op = "logout" /\ index = None THEN ended \union {req[r].tok} ELSE ended
  /\ UNCHANGED <<now, stores, begun, bounds, handed, known, owner, why, mixed>>

\* registerSessionToken: the oldest fall out of a full index.
RegisterSessionToken(r) ==
  /\ At(r, "enter") /\ req[r].op # "logout"
  /\ LET grown == Append(req[r].copy, req[r].tok) IN
       /\ index' = [tokens |-> Newest(grown), till |-> now + Life]
       /\ why' = [x \in DOMAIN why |-> why[x]
                    \union (IF x \in Lost(req[r].copy) THEN {"IndexOverlap"} ELSE {})
                    \union (IF x \in SetOf(grown) /\ Len(grown) > MaxIndex /\ x = grown[1]
                            THEN {"FellOut"} ELSE {})]
  /\ handed' = handed \union {req[r].tok}
  /\ End(r)
  /\ UNCHANGED <<now, session, creds, flag, regCha, logCha, device, data, begun, bounds,
                 ended, known, owner, mixed>>

\* /auth/logout, with whatever cookie the client holds.
Logout(r) ==
  /\ At(r, "find")
  /\ GoWith(r, "leave", Live(req[r].tok))
  /\ UNCHANGED <<now, stores, begun, bounds, ghosts>>

LogoutDelete(r) ==
  /\ At(r, "leave")
  /\ session' = [session EXCEPT ![req[r].tok] = None]
  /\ IF req[r].copy THEN GoWith(r, "list", None) /\ UNCHANGED ended
     ELSE End(r) /\ ended' = ended \union {req[r].tok}
  /\ UNCHANGED <<now, index, creds, flag, regCha, logCha, device, data, begun, bounds,
                 handed, known, owner, why, mixed>>

\* The index that was read, filtered; put back even when the session is not in it.
Without(s, t) ==
  LET kept[i \in 0..Len(s)] == IF i = 0 THEN <<>>
                               ELSE IF s[i] = t THEN kept[i - 1] ELSE Append(kept[i - 1], s[i])
  IN kept[Len(s)]

UnregisterSessionToken(r) ==
  /\ At(r, "enter") /\ req[r].op = "logout"
  /\ index' = [tokens |-> Without(req[r].copy, req[r].tok), till |-> now + Life]
  /\ why' = Excuse(Lost(req[r].copy), "IndexOverlap")
  /\ ended' = ended \union {req[r].tok}
  /\ End(r)
  /\ UNCHANGED <<now, session, creds, flag, regCha, logCha, device, data, begun, bounds,
                 handed, known, owner, mixed>>

(***************************************************************************)
(* revokeAllSessions, called by the revocation of a device ("revoke": of   *)
(* another one, the caller's session stays; "disown": of the caller's own) *)
(* and by the deletion of the account.  It swallows its own errors.        *)
(***************************************************************************)
RevokeDevice(r) ==
  /\ At(r, "go") /\ req[r].op \in {"revoke", "disown"}
  /\ device' = FALSE
  /\ IF device THEN GoWith(r, "revoke", None) ELSE End(r)
  /\ UNCHANGED <<now, session, index, creds, flag, regCha, logCha, data, begun, bounds, ghosts>>

Except(r) == IF req[r].op = "revoke" THEN {req[r].tok} ELSE {}

\* Sessions stored but not listed yet.
Opening == {q \in Request : req[q].pc \in {"list", "enter"} /\ req[q].op \in {"login", "register"}}

\* What an answered revocation promises: the sessions of before are over.
Answered(r) == req[r].since \ Except(r)
AfterRevoke(r) ==
  IF req[r].op = "delete" THEN Go(r, "token") /\ UNCHANGED ended
  ELSE End(r) /\ ended' = ended \union Answered(r)

RevokeRead(r) ==
  /\ At(r, "revoke")
  /\ IF index = None THEN AfterRevoke(r)
     ELSE GoWith(r, "kill", Listed) /\ UNCHANGED ended
  /\ why' = Excuse({req[q].tok : q \in Opening}, "OpenedLate")
  /\ UNCHANGED <<now, stores, begun, bounds, handed, known, owner, mixed>>

RevokeKill(r) ==
  /\ At(r, "kill")
  /\ session' = [t \in Session |-> IF t \in SetOf(req[r].copy) \ Except(r) THEN None ELSE session[t]]
  /\ Go(r, "reindex")
  /\ UNCHANGED <<now, index, creds, flag, regCha, logCha, device, data, begun, bounds, ghosts>>

RevokeIndex(r) ==
  /\ At(r, "reindex")
  /\ index' = IF Except(r) \intersect SetOf(req[r].copy) # {}
              THEN [tokens |-> <<req[r].tok>>, till |-> now + Life] ELSE None
  /\ why' = Excuse(Lost(req[r].copy), "IndexOverlap")
  /\ AfterRevoke(r)
  /\ UNCHANGED <<now, session, creds, flag, regCha, logCha, device, data, begun, bounds,
                 handed, known, owner, mixed>>

\* An error of the store inside: a warning in the log, and the caller goes on.
RevokeError(r) ==
  /\ req[r].pc \in {"revoke", "kill", "reindex"}
  /\ "fail" \in bounds.ops
  /\ why' = Excuse({t \in Session : session[t] # None}, "RevokeFailed")
  /\ AfterRevoke(r)
  /\ UNCHANGED <<now, stores, begun, bounds, handed, known, owner, mixed>>

(***************************************************************************)
(* DELETE /account, step by step; the lock of the handle comes late.       *)
(***************************************************************************)
DeleteCheck(r) ==
  /\ At(r, "go") /\ req[r].op = "delete"
  /\ \E ownsServer \in BOOLEAN : IF ownsServer THEN End(r) ELSE Go(r, "revoke")
  /\ UNCHANGED <<now, stores, begun, bounds, ghosts>>

DeleteToken(r) ==
  /\ At(r, "token")
  /\ session' = [session EXCEPT ![req[r].tok] = None]
  /\ Go(r, "passkeys")
  /\ UNCHANGED <<now, index, creds, flag, regCha, logCha, device, data, begun, bounds, ghosts>>

\* Slip: the passkeys stay.
DeletePasskeys_Not(r) ==
  /\ At(r, "passkeys")
  /\ Go(r, "entries")
  /\ UNCHANGED <<now, session, index, creds, flag, regCha, logCha, device, data, begun, bounds, ghosts>>

DeletePasskeys(r) ==
  /\ At(r, "passkeys")
  /\ creds' = None
  /\ Go(r, "entries")
  /\ UNCHANGED <<now, session, index, flag, regCha, logCha, device, data, begun, bounds, ghosts>>

DeleteEntries(r) ==
  /\ At(r, "entries")
  /\ data' = [data EXCEPT !["kv"] = {}]
  /\ Go(r, "lock")
  /\ UNCHANGED <<now, session, index, creds, flag, regCha, logCha, device, begun, bounds, ghosts>>

DeleteLock(r) ==
  /\ At(r, "lock")
  /\ flag' = TRUE
  /\ Go(r, "rows")
  /\ UNCHANGED <<now, session, index, creds, regCha, logCha, device, data, begun, bounds, ghosts>>

DeleteRows(r) ==
  /\ At(r, "rows")
  /\ data' = [data EXCEPT !["db"] = {}]
  /\ ended' = ended \union Answered(r)
  /\ known' = [k \in Passkey |-> IF known[k] = "kept" THEN "gone" ELSE known[k]]
  /\ owner' = IF mixed = {} THEN None ELSE owner
  /\ End(r)
  /\ UNCHANGED <<now, session, index, creds, flag, regCha, logCha, device, begun, bounds,
                 handed, why, mixed>>

\* An access fails: the request ends with an error, what it did stays.
DeleteError(r) ==
  /\ req[r].op = "delete" /\ req[r].pc \in {"token", "passkeys", "entries", "lock", "rows"}
  /\ "fail" \in bounds.ops
  /\ mixed' = mixed \union {"DeletionFailed"}
  /\ End(r)
  /\ UNCHANGED <<now, stores, begun, bounds, handed, ended, known, owner, why>>

(***************************************************************************)
Handler(r) ==
  \/ Authenticate(r) \/ Refresh(r)
  \/ ReadForRemove(r) \/ ReadForRename(r) \/ WritePasskeys(r)
  \/ RegisterStart(r) \/ RegisterRoom(r) \/ RegisterPut(r) \/ RegisterTake(r)
  \/ RegisterSpend(r) \/ ReadForAdd(r) \/ Found(r)
  \/ LoginStart(r) \/ LoginTake(r) \/ LoginMatch(r) \/ LoginSpend(r) \/ LoginUsed(r)
  \/ OpenSession(r) \/ ReadIndex(r) \/ RegisterSessionToken(r)
  \/ Logout(r) \/ LogoutDelete(r) \/ UnregisterSessionToken(r)
  \/ RevokeDevice(r) \/ RevokeRead(r) \/ RevokeKill(r) \/ RevokeIndex(r) \/ RevokeError(r)
  \/ DeleteCheck(r) \/ DeleteToken(r) \/ DeletePasskeys(r) \/ DeleteEntries(r)
  \/ DeleteLock(r) \/ DeleteRows(r) \/ DeleteError(r)

Next ==
  \/ Tick \/ Unlock
  \/ \E r \in Request :
       \/ \E op \in bounds.ops \intersect Op, p \in Person : Begin(r, op, p)
       \/ Handler(r)

Spec == Init /\ [][Next]_vars

-----------------------------------------------------------------------------
(* Properties                                                              *)

\* The types of the variables.
TypeOK ==
  /\ now \in Nat /\ begun \in Nat /\ bounds \in Bounds
  /\ \A t \in Session : session[t] # None =>
       session[t].till \in Nat /\ session[t].exp \in Int /\ session[t].last \in Nat
  /\ index # None => index.tokens \in Seq(Session) /\ Len(index.tokens) <= MaxIndex
  /\ creds = None \/ creds \subseteq Passkey
  /\ flag \in BOOLEAN /\ device \in BOOLEAN
  /\ data \in [Kept -> SUBSET Person]
  /\ handed \subseteq Session /\ ended \subseteq handed
  /\ known \in [Passkey -> {"unused", "asked", "kept", "gone"}]

\* A session that an answered logout, device revocation or deletion should have
\* ended stays alive only for a reason: its refresh put it back, the index lost
\* it or expired, it fell out of the index, the store failed, or it was opened
\* while the account was being deleted (auth.js, authRoutes.js).
EndedHasACause == \A t \in ended : Live(t) => why[t] # {}

\* The account never is without any passkey while it exists; a passkey the user
\* was told is registered is there, and one the user removed is not, unless a
\* write from an outdated copy changed it (authRoutes.js, loginFinish.js).
PasskeysHaveACause ==
  /\ creds # {}
  /\ Deleting = {} /\ mixed = {} => \A k \in Passkey :
       /\ known[k] = "kept" /\ k \notin Stored => why[k] # {}
       /\ known[k] = "gone" /\ k \in Stored => why[k] # {}

\* Sessions, passkeys and data under the handle are those of the person who
\* registered it last, or of nobody after the deletion, unless two of these
\* sequences overlapped or a deletion broke off (authRoutes.js).
OneOwnerHasACause ==
  mixed = {} /\ Deleting = {} =>
    /\ \A t \in Session : Live(t) => Of(t) = owner \/ why[t] # {}
    /\ \A k \in Stored : Of(k) = owner \/ why[k] # {}
    /\ \A x \in Kept : data[x] = {owner} \ {None}

\* The handle is its owner's, with the passkeys the owner was told of:
\* PasskeysHaveACause and OneOwnerHasACause.
HandleIsOneOwners == PasskeysHaveACause /\ OneOwnerHasACause

\* A session that is in use is not ended by the mere passing of time: "active
\* users stay logged in practically without limit" (auth.js, sliding refresh).
UsedSessionLasts ==
  \A r \in Request : LET t == req[r].tok IN
    At(r, "auth") /\ Live(t) => session[t].exp = Never \/ now <= session[t].exp
=============================================================================

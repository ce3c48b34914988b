-------------------------- MODULE Accounts_proofs --------------------------
(***************************************************************************)
(* Three of the parts of MCAccounts, for any number of requests.           *)
(*                                                                         *)
(* Contacts: ContactsInOrder.                                              *)
(*                                                                         *)
(* Its first half speaks of rows at rest. Between the two statements of a  *)
(* change the rows are one-sided, and other changes may read them then.    *)
(* Mends(c) says that the second statement of c makes the rows agree if it *)
(* meets them as c left them; as long as no change crossed another, either *)
(* the rows agree or such a call is under way (RowsMend).                  *)
(*                                                                         *)
(* Its second half: what a client without an entry in blind shows is the   *)
(* row, or a load is due, or a change is under way that makes one due, or  *)
(* the only load on its way brings the row (Settled).                      *)
(***************************************************************************)
EXTENDS MCAccounts, FiniteSetTheorems, SequenceTheorems, WellFoundedInduction, TLAPS

Rowed == [User -> C!Status]

\* The stages of a change: before, between and after its statements.
Ahead == {"agree1", "again1", "first1", "accept1", "cancel1"}
After == {"push", "bump", "quiet"}
Stage == {"free", "read", "version", "rows", "shown"} \cup Ahead \cup C!Second \cup After
Reason == {"NotPushed", "BrokeOff", "Overtaken", "BeforeBump", "Expired", "PushLost", "AnswerLost", "LoadFailed"}

ChangeOK(c) ==
  LET q == ccall[c] IN
  /\ q.op \in C!Change /\ q.me \in User
  /\ q.pc \in {"read"} \cup Ahead \cup C!Second \cup After
  /\ IF q.pc = "read" THEN q.seen = Nobody ELSE q.seen \in Rowed
ListOK(c) ==
  LET q == ccall[c] IN
  /\ q.op = "list" /\ q.me \in User /\ q.me \in online
  /\ q.pc \in {"version", "rows", "shown"}
  /\ q.tag \in Int /\ q.tag <= stamps /\ q.copy \in C!Status

Calls == [Call -> [op : C!Change \cup {"list", Nobody}, pc : Stage, me : User \cup {Nobody},
                   seen : Rowed \cup {Nobody}, tag : Int, copy : C!Status]]

Fields ==
  /\ crow \in Rowed /\ version \in [User -> Nat] /\ stamps \in Nat
  /\ list \in [User -> C!Status] /\ due \in [User -> Nat] /\ online \subseteq User
  /\ cached \in [User -> [tag : Int, row : C!Status]]
  /\ \A u \in User : cached[u].tag <= stamps /\ version[u] <= stamps
  /\ asked \subseteq User /\ crossed \in BOOLEAN /\ alone \in BOOLEAN
  /\ blind \in [User -> SUBSET Reason]
  /\ ccall \in Calls

ContactTypes == Fields /\ \A c \in Call : ccall[c] = C!Free \/ ChangeOK(c) \/ ListOK(c)

\* Who asked, where the rows say so.
Agree(r) ==
  \A u \in User :
    /\ r[u] = "accepted" => r[C!Peer(u)] = "accepted" /\ (asked = User \/ alone)
    /\ r[u] = "out" => u \in asked
    /\ r[u] = "in" => C!Peer(u) \in asked

\* What the request saw of the rows, or made of them.
SawRight(c) ==
  LET q == ccall[c]  m == q.seen[q.me]  y == q.seen[C!Peer(q.me)] IN
  /\ q.pc = "agree1" => y \in {"in", "out"} /\ (y = "in" => alone)
  /\ q.pc = "agree2" => y = "accepted"
  /\ q.pc = "again1" => y = "removed"
  /\ q.pc = "first1" => y \in {"none", "rejected"}
  /\ q.pc \in {"again2", "first2"} => y = "in"
  /\ q.pc = "accept1" => m \in {"in", "out"} /\ (m = "out" => alone)
  /\ q.pc = "accept2" => m = "accepted"
  /\ q.pc = "cancel1" => m = "out"
  /\ q.pc \in {"reject2", "cancel2"} => m = "none"
  /\ q.pc = "remove2" => m \in {"removed", "none"}

Mends(c) ==
  LET q == ccall[c]  m == q.seen[q.me]  peer == C!Peer(q.me) IN
  /\ q.pc \in C!Second
  /\ q.pc \in {"agree2", "accept2"} => peer \in asked \/ alone
  /\ q.pc = "first2" => m # "accepted" /\ (m = "in" => peer \in asked)

RowsMend == ~crossed => /\ \A c \in Call : ccall[c].op \in C!Change => SawRight(c)
                        /\ Agree(crow) \/ \E c \in Call : Mends(c)

\* Who will have the client of u load its list.
WillTell(c, u) == ccall[c].pc \in C!Second \cup {"push", "quiet"} \/ (ccall[c].pc = "bump" /\ ccall[c].me = u)
Telling(u) == \E c \in Call : ccall[c].op \in C!Change /\ WillTell(c, u)
Changes == \E c \in Call : ccall[c].op \in C!Change /\ C!Writing(c)
Brings(c) == ccall[c].pc = "shown" => ccall[c].copy = C!View(crow[ccall[c].me])

Settled(u) ==
  \/ due[u] > 0 \/ Telling(u)
  \/ /\ \A c \in C!Loads(u) : Brings(c)
     /\ C!Loads(u) = {} => list[u] = C!View(crow[u])
Versioned(u) == "Expired" \in blind[u] \/ version[u] = stamps
CopyRight(u) ==
  /\ ~Changes /\ cached[u].tag = stamps => cached[u].row = C!View(crow[u])
  /\ \A c, d \in C!Loads(u) : c = d
  /\ \A c \in C!Loads(u) :
       /\ ccall[c].pc = "version" => ccall[c].tag = cached[u].tag /\ ccall[c].copy = cached[u].row
       /\ ccall[c].pc = "shown" /\ ccall[c].tag = stamps /\ ~Changes => ccall[c].copy = C!View(crow[u])
Shown(u) == Versioned(u) /\ (blind[u] = {} => CopyRight(u) /\ (u \in online => Settled(u)))
ListsShown == \A u \in User : Shown(u)

ContactsInv == ContactTypes /\ RowsMend /\ ListsShown

-----------------------------------------------------------------------------
(* The operators *)

\* There are two users, each the other's peer.
LEMMA Two ==
  ASSUME NEW u \in User
  PROVE  /\ C!Peer(u) \in User /\ C!Peer(u) # u /\ C!Peer(C!Peer(u)) = u
         /\ \A v \in User : v = u \/ v = C!Peer(u)
<1>1. PICK a \in User, b \in User : a # b /\ User = {a, b}
  BY MCAccountsAssumption
<1>2. \A w \in User : \E v \in User : v # w
  BY <1>1
<1>3. \A w \in User : C!Peer(w) \in User /\ C!Peer(w) # w
  BY <1>2 DEF C!Peer
<1> QED BY <1>1, <1>3

\* A call is of one of its kinds.
LEMMA Kinds ==
  ASSUME ContactTypes, NEW c \in Call
  PROVE  /\ ccall[c].op = Nobody => ccall[c] = C!Free
         /\ ccall[c].op \in C!Change => ChangeOK(c)
         /\ ccall[c].op = "list" => ListOK(c)
         /\ ccall[c].op \in C!Change \cup {"list", Nobody}
         /\ C!Free.op = Nobody /\ C!Free.pc = "free"
  BY MCAccountsAssumption DEF ContactTypes, Fields, ChangeOK, ListOK, C!Free, C!Change

-----------------------------------------------------------------------------
(* What a step does to the calls *)

Same(c) == \A d \in Call : d # c => ccall'[d] = ccall[d]

\* A statement of c that changes a row.
Wrote(c) ==
  /\ ccall[c].op \in C!Change
  /\ ccall[c].pc \in {"read"} \cup Ahead \cup C!Second
  /\ ccall' \in Calls /\ Same(c)
  /\ ccall'[c].op = ccall[c].op /\ ccall'[c].me = ccall[c].me
  /\ ccall'[c].pc \in C!Second \cup {"push", "quiet"}
  /\ ccall'[c].seen = crow' /\ crow' \in Rowed
  /\ asked' \subseteq User
  /\ C!Excused(c) /\ C!Others

LEMMA PutStep ==
  ASSUME ContactTypes, NEW c \in Call, NEW u \in User, NEW s \in C!Status, NEW pc \in Stage,
         C!Put(c, u, s, pc)
  PROVE  /\ ccall' \in Calls /\ Same(c)
         /\ ccall'[c].op = ccall[c].op /\ ccall'[c].me = ccall[c].me
         /\ ccall'[c].pc = pc /\ ccall'[c].seen = crow'
         /\ crow' = [crow EXCEPT ![u] = s] /\ crow' \in Rowed
         /\ C!Excused(c)
<1>1. /\ crow' = [crow EXCEPT ![u] = s] /\ C!Excused(c)
      /\ ccall' = [ccall EXCEPT ![c].pc = pc, ![c].seen = crow']
  BY DEF C!Put
<1>2. crow' \in Rowed
  BY <1>1 DEF ContactTypes, Fields, Rowed
<1>3. ccall \in Calls
  BY DEF ContactTypes, Fields
<1>4. ccall' = [ccall EXCEPT ![c] = [ccall[c] EXCEPT !.pc = pc, !.seen = crow']]
  BY <1>1, <1>3 DEF Calls
<1>5. ccall'[c] = [ccall[c] EXCEPT !.pc = pc, !.seen = crow'] /\ Same(c)
  BY <1>3, <1>4 DEF Calls, Same
<1>6. ccall[c] \in [op : C!Change \cup {"list", Nobody}, pc : Stage, me : User \cup {Nobody},
                    seen : Rowed \cup {Nobody}, tag : Int, copy : C!Status]
  BY <1>3 DEF Calls
<1>7. /\ ccall'[c].op = ccall[c].op /\ ccall'[c].me = ccall[c].me
      /\ ccall'[c].pc = pc /\ ccall'[c].seen = crow'
  BY <1>5, <1>6
<1>8. ccall' \in Calls
  BY <1>2, <1>3, <1>4, <1>6 DEF Calls
<1> QED BY <1>1, <1>2, <1>5, <1>7, <1>8

\* An update of a row that is not there changes nothing.
LEMMA UpdateStep ==
  ASSUME ContactTypes, NEW c \in Call, NEW u \in User, NEW s \in C!Status, NEW pc \in Stage,
         C!Update(c, u, s, pc)
  PROVE  \E t \in C!Status : t = (IF crow[u] = "none" THEN "none" ELSE s) /\ C!Put(c, u, t, pc)
  BY DEF C!Update, C!Status

\* The writes of each request.
LEMMA WriteSteps ==
  ASSUME ContactTypes, NEW c \in Call,
         C!RequestWrites(c) \/ C!Accept(c) \/ C!Cancel(c) \/ C!Remove(c) \/ (C!Reject(c) /\ ~C!Hang(c))
  PROVE  Wrote(c)
<1> DEFINE me == ccall[c].me
           you == C!Peer(ccall[c].me)
<1>0. /\ {"request", "accept", "reject", "remove", "cancel"} \subseteq C!Change
      /\ {"none", "in", "out", "accepted", "removed", "rejected"} \subseteq C!Status
  BY DEF C!Change, C!Status
<1>1. ccall[c].op \in C!Change /\ ChangeOK(c)
  BY <1>0, Kinds DEF C!RequestWrites, C!Accept, C!Cancel, C!Reject, C!Remove
<1>2. me \in User /\ you \in User /\ asked \subseteq User
  BY <1>1, Two DEF ChangeOK, ContactTypes, Fields
<1>3. /\ asked' \subseteq User /\ C!Others
      /\ ccall[c].pc \in {"read"} \cup Ahead \cup C!Second
  BY <1>1, <1>2, MCAccountsAssumption
  DEF C!RequestWrites, C!Accept, C!Cancel, C!Reject, C!Remove, Ahead, C!Second, C!Me, C!Hang
<1>4. \E u \in User, s \in C!Status, pc \in C!Second \cup {"push", "quiet"} : C!Put(c, u, s, pc)
  <2>0. C!Me(c) = me /\ C!You(c) = you
    BY DEF C!Me, C!You
  <2> HIDE DEF me, you
  <2> DEFINE Goal == \E u \in User, s \in C!Status, pc \in C!Second \cup {"push", "quiet"} : C!Put(c, u, s, pc)
  <2>1. ASSUME NEW u \in User, NEW s \in C!Status, NEW pc \in C!Second \cup {"push", "quiet"},
               C!Put(c, u, s, pc) \/ C!Update(c, u, s, pc)
        PROVE  Goal
    BY <2>1 DEF C!Update, C!Status
  <2>2. {"agree2", "again2", "first2", "accept2", "reject2", "remove2", "cancel2"} \subseteq C!Second
    BY DEF C!Second
  <2>3. crow[me] \in C!Status
    BY <1>2 DEF ContactTypes, Fields, Rowed
  <2> SUFFICES Goal
    BY DEF Goal
  <2> HIDE DEF Goal
  <2>4. CASE C!RequestWrites(c)
    BY <2>4, <2>0, <2>1, <2>2, <2>3, <1>0, <1>2 DEF C!RequestWrites
  <2>5. CASE C!Accept(c)
    BY <2>5, <2>0, <2>1, <2>2, <1>0, <1>2 DEF C!Accept
  <2>6. CASE C!Cancel(c)
    BY <2>6, <2>0, <2>1, <2>2, <1>0, <1>2 DEF C!Cancel
  <2>7. CASE C!Reject(c) /\ ~C!Hang(c)
    BY <2>7, <2>0, <2>1, <2>2, <1>0, <1>2 DEF C!Reject
  <2>8. CASE C!Remove(c)
    BY <2>8, <2>0, <2>1, <2>2, <1>0, <1>2 DEF C!Remove
  <2> QED BY <2>4, <2>5, <2>6, <2>7, <2>8
<1>5. PICK u \in User, s \in C!Status, pc \in C!Second \cup {"push", "quiet"} : C!Put(c, u, s, pc)
  BY <1>4
<1>6. pc \in Stage
  <2>1. pc \in C!Second \cup {"push", "quiet"}
    BY <1>5
  <2>2. pc \in C!Second \/ pc = "push" \/ pc = "quiet"
    BY <2>1
  <2> QED BY <2>2 DEF Stage, After
<1> QED BY <1>1, <1>3, <1>5, <1>6, PutStep DEF Wrote

\* A call the step is not about stays of its kind.
LEMMA OthersKept ==
  ASSUME ContactTypes, NEW d \in Call, ccall'[d] = ccall[d], stamps \in Int, stamps' \in Int, stamps <= stamps',
         ccall[d].op = "list" => ccall[d].me \in online'
  PROVE  ccall'[d] = C!Free \/ ChangeOK(d)' \/ ListOK(d)'
<1>1. ccall[d] = C!Free \/ ChangeOK(d) \/ ListOK(d)
  BY DEF ContactTypes, Fields
<1>2. CASE ccall[d] = C!Free
  BY <1>2
<1>3. CASE ChangeOK(d)
  BY <1>3 DEF ChangeOK
<1>4. CASE ListOK(d)
  <2>1. ccall[d].op = "list" /\ ccall[d].tag \in Int /\ ccall[d].tag <= stamps'
    BY <1>4 DEF ListOK
  <2> QED BY <1>4, <2>1 DEF ListOK
<1> QED BY <1>1, <1>2, <1>3, <1>4

\* What a step that is not about u leaves alone.
Aside(u) ==
  /\ blind'[u] = blind[u] /\ version'[u] = version[u] /\ stamps' = stamps
  /\ cached'[u] = cached[u] /\ crow' = crow
  /\ Changes => Changes'
  /\ \A c \in Call : c \in C!Loads(u) \/ c \in C!Loads(u)' => ccall'[c] = ccall[c]
  /\ u \in online' => /\ u \in online /\ due'[u] = due[u] /\ list'[u] = list[u]
                      /\ Telling(u) => Telling(u)'

LEMMA AsideKeeps ==
  ASSUME NEW u \in User, Shown(u), Aside(u)
  PROVE  Shown(u)'
<1>1. Versioned(u)'
  BY DEF Shown, Versioned, Aside
<1>2. C!Loads(u)' = C!Loads(u)
  BY DEF C!Loads, Aside
<1>3. \A c \in C!Loads(u) : ccall'[c] = ccall[c]
  BY DEF C!Loads, Aside
<1>4. ASSUME blind'[u] = {}
      PROVE  CopyRight(u)'
  <2>1. blind[u] = {} /\ CopyRight(u)
    BY <1>4 DEF Shown, Aside
  <2>2. /\ stamps' = stamps /\ cached'[u] = cached[u] /\ crow' = crow
    BY DEF Aside
  <2>3. Changes => Changes'
    BY DEF Aside
  <2> QED BY <2>1, <2>2, <2>3, <1>2, <1>3 DEF CopyRight
<1>5. ASSUME blind'[u] = {}, u \in online'
      PROVE  Settled(u)'
  <2>1. /\ u \in online /\ due'[u] = due[u] /\ list'[u] = list[u] /\ crow' = crow
        /\ Telling(u) => Telling(u)'
    BY <1>5 DEF Aside
  <2>2. Settled(u)
    BY <1>5, <2>1 DEF Shown, Aside
  <2>3. \A c \in C!Loads(u) : Brings(c) => Brings(c)'
    BY <1>3, <2>1 DEF Brings
  <2> QED BY <1>2, <2>1, <2>2, <2>3 DEF Settled
<1> QED BY <1>1, <1>4, <1>5 DEF Shown

\* A step of a call that was not writing ends no change.
LEMMA SideStep ==
  ASSUME NEW c \in Call, Same(c), ~(ccall[c].op \in C!Change /\ C!Writing(c))
  PROVE  (Changes => Changes') /\ \A u \in User : Telling(u) => Telling(u)'
<1>1. \A d \in Call, u \in User : d # c => /\ (C!Writing(d) => C!Writing(d)')
                                           /\ (WillTell(d, u) => WillTell(d, u)')
                                           /\ ccall'[d].op = ccall[d].op
  BY DEF Same, C!Writing, WillTell
<1>2. \A u \in User : WillTell(c, u) => C!Writing(c)
  BY DEF WillTell, C!Writing
<1>3. ASSUME Changes
      PROVE  Changes'
  <2>1. PICK d \in Call : ccall[d].op \in C!Change /\ C!Writing(d)
    BY <1>3 DEF Changes
  <2>2. ccall'[d].op \in C!Change /\ C!Writing(d)'
    BY <2>1 DEF Same, C!Writing
  <2> QED BY <2>2 DEF Changes
<1>4. ASSUME NEW u \in User, Telling(u)
      PROVE  Telling(u)'
  <2>1. PICK d \in Call : ccall[d].op \in C!Change /\ WillTell(d, u)
    BY <1>4 DEF Telling
  <2>2. d # c
    BY <1>2, <2>1
  <2>3. ccall'[d].op \in C!Change /\ WillTell(d, u)'
    BY <1>1, <2>1, <2>2
  <2> QED BY <2>3 DEF Telling
<1> QED BY <1>3, <1>4

\* A statement that changes a row: its change will have all told.
LEMMA WroteKeeps ==
  ASSUME ContactTypes, ListsShown, NEW c \in Call, Wrote(c)
  PROVE  ContactTypes' /\ ListsShown'
<1>1. /\ version' = version /\ stamps' = stamps /\ list' = list /\ cached' = cached
      /\ due' = due /\ online' = online /\ blind' = blind /\ alone' = alone
  BY DEF Wrote, C!Others, C!Told
<1>2. Changes' /\ \A u \in User : Telling(u)'
  BY DEF Wrote, Changes, Telling, WillTell, C!Writing
<1>3. crossed' \in BOOLEAN
  BY DEF Wrote, C!Excused, ContactTypes, Fields
<1>4. ContactTypes'
  <2>1. \A d \in Call : ccall'[d] = C!Free \/ ChangeOK(d)' \/ ListOK(d)'
    <3> TAKE d \in Call
    <3>1. CASE d = c
      <4>1. ChangeOK(c)
        BY Kinds DEF Wrote
      <4>2. ccall'[c].pc # "read"
        BY DEF Wrote, C!Second
      <4>3. ChangeOK(c)'
        BY <4>1, <4>2 DEF ChangeOK, Wrote, After
      <4> QED BY <3>1, <4>3
    <3>2. CASE d # c
      <4>1. ccall'[d] = ccall[d]
        BY <3>2 DEF Wrote, Same
      <4>2. ccall[d].op = "list" => ccall[d].me \in online'
        BY <1>1, Kinds DEF ListOK
      <4>3. stamps \in Int /\ stamps' \in Int /\ stamps <= stamps'
        BY <1>1 DEF ContactTypes, Fields
      <4> QED BY <4>1, <4>2, <4>3, OthersKept
    <3> QED BY <3>1, <3>2
  <2>2. crow' \in Rowed /\ ccall' \in Calls /\ asked' \subseteq User
    BY DEF Wrote
  <2> QED BY <1>1, <1>3, <2>1, <2>2 DEF ContactTypes, Fields
<1>5. ASSUME NEW u \in User
      PROVE  Shown(u)'
  <2>1. Versioned(u)' /\ (blind[u] = {} => CopyRight(u))
    BY <1>1 DEF ListsShown, Shown, Versioned
  <2>2. \A d \in Call : ccall'[d].op = "list" \/ ccall[d].op = "list" => ccall'[d] = ccall[d] /\ d # c
    <3>1. ccall[c].op # "list" /\ ccall'[c].op # "list"
      BY DEF Wrote, C!Change
    <3> QED BY <3>1 DEF Wrote, Same
  <2>3. C!Loads(u)' = C!Loads(u) /\ \A d \in C!Loads(u) : ccall'[d] = ccall[d]
    BY <2>2 DEF C!Loads
  <2>4. blind'[u] = {} => CopyRight(u)'
    BY <1>1, <1>2, <2>1, <2>3 DEF CopyRight
  <2> QED BY <1>2, <2>1, <2>4 DEF Shown, Settled
<1> QED BY <1>4, <1>5 DEF ListsShown

Record == [op : C!Change \cup {"list", Nobody}, pc : Stage, me : User \cup {Nobody},
           seen : Rowed \cup {Nobody}, tag : Int, copy : C!Status]

\* A step that moves one call.
LEMMA TurnStep ==
  ASSUME ContactTypes, NEW c \in Call, NEW r \in Record, ccall' = [ccall EXCEPT ![c] = r]
  PROVE  ccall' \in Calls /\ Same(c) /\ ccall'[c] = r /\ ccall[c] \in Record
<1>1. ccall \in [Call -> Record]
  BY DEF ContactTypes, Fields, Calls, Record
<1> QED BY <1>1 DEF Calls, Record, Same

LEMMA FreeRecord == C!Free \in Record
BY DEF Record, C!Free, Stage, C!Status

\* A call that ends.
LEMMA HangStep ==
  ASSUME ContactTypes, NEW c \in Call, C!Hang(c)
  PROVE  ccall' \in Calls /\ Same(c) /\ ccall'[c] = C!Free
<1>1. ccall' = [ccall EXCEPT ![c] = C!Free]
  BY DEF C!Hang
<1> QED BY <1>1, FreeRecord, TurnStep

\* The types hold after a step when they hold of the call it moves.
LEMMA TypesKept ==
  ASSUME ContactTypes, NEW c \in Call, Same(c), stamps <= stamps', online \subseteq online', Fields',
         ccall'[c] = C!Free \/ ChangeOK(c)' \/ ListOK(c)'
  PROVE  ContactTypes'
<1>1. stamps \in Int /\ stamps' \in Int
  BY DEF ContactTypes, Fields
<1>2. ASSUME NEW d \in Call, d # c
      PROVE  ccall'[d] = C!Free \/ ChangeOK(d)' \/ ListOK(d)'
  <2>1. ccall[d].op = "list" => ccall[d].me \in online'
    BY Kinds DEF ListOK
  <2> QED BY <1>1, <1>2, <2>1, OthersKept DEF Same
<1> QED BY <1>2 DEF ContactTypes

\* A step of a change that has not written yet and does not write.
Rests(c) ==
  /\ ~(ccall[c].op \in C!Change /\ C!Writing(c))
  /\ ccall[c].op # "list" /\ ccall'[c].op # "list"
  /\ ccall' \in Calls /\ Same(c)
  /\ ccall'[c] = C!Free \/ ChangeOK(c)'
  /\ crow' = crow /\ version' = version /\ stamps' = stamps /\ list' = list /\ cached' = cached
  /\ due' = due /\ online' = online /\ blind' = blind /\ asked' = asked /\ crossed' = crossed
  /\ alone' \in BOOLEAN

LEMMA RestsKeeps ==
  ASSUME ContactTypes, ListsShown, NEW c \in Call, Rests(c)
  PROVE  ContactTypes' /\ ListsShown'
<1>1. ContactTypes'
  <2>1. Fields'
    BY DEF Rests, ContactTypes, Fields
  <2>2. stamps <= stamps' /\ online \subseteq online'
    BY DEF Rests, ContactTypes, Fields
  <2> QED BY <2>1, <2>2, TypesKept DEF Rests
<1>2. ASSUME NEW u \in User
      PROVE  Aside(u)
  <2>1. (Changes => Changes') /\ (Telling(u) => Telling(u)')
    BY SideStep DEF Rests
  <2>2. \A d \in Call : d \in C!Loads(u) \/ d \in C!Loads(u)' => ccall'[d] = ccall[d]
    BY DEF C!Loads, Rests, Same
  <2> QED BY <2>1, <2>2 DEF Aside, Rests
<1> QED BY <1>1, <1>2, AsideKeeps DEF ListsShown

LEMMA AskStep ==
  ASSUME ContactTypes, NEW c \in Call, NEW op \in C!Change, NEW u \in User, C!Ask(c, op, u)
  PROVE  Rests(c) /\ alone' = alone /\ ccall[c].op = Nobody /\ (ccall'[c].op \in C!Change => ccall'[c].pc = "read")
<1> DEFINE r == [C!Free EXCEPT !.op = op, !.pc = "read", !.me = u]
<1>1. ccall' = [ccall EXCEPT ![c] = r] /\ ccall[c].op = Nobody
  BY DEF C!Ask
<1>2. C!Free \in Record /\ C!Free.seen = Nobody
  BY FreeRecord DEF C!Free
<1>3. r \in Record /\ r.op = op /\ r.pc = "read" /\ r.me = u /\ r.seen = Nobody
  BY <1>2 DEF Record, Stage
<1>4. ccall' \in Calls /\ Same(c) /\ ccall'[c] = r
  BY <1>1, <1>3, TurnStep
<1>5. ChangeOK(c)' /\ ccall'[c].op = op /\ ccall'[c].pc = "read"
  BY <1>3, <1>4 DEF ChangeOK
<1>6. op # "list"
  BY DEF C!Change
<1>7. ~(ccall[c].op \in C!Change) /\ ccall[c].op # "list"
  BY <1>1, MCAccountsAssumption
<1> QED BY <1>1, <1>4, <1>5, <1>6, <1>7 DEF Rests, C!Ask, ContactTypes, Fields

\* What the reading statements find.
Finds(c) ==
  LET m == crow[ccall[c].me]  y == crow[C!Peer(ccall[c].me)]  pc == ccall'[c].pc IN
  /\ pc = "agree1" => y \in {"in", "out"} /\ (y = "in" => alone')
  /\ pc = "again1" => y = "removed"
  /\ pc = "first1" => y \in {"none", "rejected"}
  /\ pc = "accept1" => m \in {"in", "out"} /\ (m = "out" => alone')
  /\ pc = "cancel1" => m = "out"

LEMMA ReadStep ==
  ASSUME ContactTypes, NEW c \in Call, C!Read(c)
  PROVE  /\ Rests(c) /\ (alone => alone') /\ ccall[c].pc = "read"
         /\ ccall'[c] # C!Free => /\ ccall'[c].pc \in Ahead /\ ccall'[c].me = ccall[c].me
                                  /\ ccall'[c].seen = crow /\ Finds(c)
<1> DEFINE mine == crow[ccall[c].me]  yours == crow[C!Peer(ccall[c].me)]
           To(pc) == ccall' = [ccall EXCEPT ![c].pc = pc, ![c].seen = crow]
<1>1. /\ ccall[c].op \in C!Change /\ ChangeOK(c) /\ ccall[c].pc = "read" /\ ccall[c].op # "list"
      /\ ~C!Writing(c)
  BY Kinds DEF C!Read, C!Change, C!Writing, C!Second
<1>2. /\ crow' = crow /\ version' = version /\ stamps' = stamps /\ list' = list /\ cached' = cached
      /\ due' = due /\ online' = online /\ blind' = blind /\ asked' = asked /\ crossed' = crossed
  BY DEF C!Read, C!Told
<1>3. /\ alone' \in BOOLEAN /\ (alone => alone')
      /\ ccall[c].op = "accept" /\ mine = "out" => alone'
      /\ ccall[c].op = "request" /\ yours = "in" => alone'
  BY DEF C!Read, C!Me, C!You, ContactTypes, Fields
<1>4. \/ C!Hang(c)
      \/ To("accept1") /\ ccall[c].op = "accept" /\ mine \in {"in", "out"}
      \/ To("cancel1") /\ mine = "out"
      \/ To("agree1") /\ ccall[c].op = "request" /\ yours \in {"in", "out"}
      \/ To("again1") /\ yours = "removed"
      \/ To("first1") /\ yours \in {"none", "rejected"}
  BY DEF C!Read, C!Me, C!You
<1>5. CASE C!Hang(c)
  <2>1. ccall' \in Calls /\ Same(c) /\ ccall'[c] = C!Free /\ C!Free.op = Nobody
    BY <1>5, HangStep, Kinds
  <2>2. ccall'[c].op # "list"
    BY <2>1, MCAccountsAssumption
  <2> QED BY <1>1, <1>2, <1>3, <2>1, <2>2 DEF Rests
<1>6. ASSUME NEW pc \in Ahead, To(pc)
      PROVE  /\ ccall' \in Calls /\ Same(c) /\ ccall'[c].pc = pc /\ ccall'[c].me = ccall[c].me
             /\ ccall'[c].op = ccall[c].op /\ ccall'[c].seen = crow /\ ChangeOK(c)'
  <2> DEFINE r == [ccall[c] EXCEPT !.pc = pc, !.seen = crow]
  <2>1. ccall \in [Call -> Record] /\ crow \in Rowed
    BY DEF ContactTypes, Fields, Calls, Record
  <2>2. r \in Record /\ ccall' = [ccall EXCEPT ![c] = r]
    BY <1>6, <2>1 DEF Record, Stage
  <2>3. ccall' \in Calls /\ Same(c) /\ ccall'[c] = r /\ ccall[c] \in Record
    BY <2>2, TurnStep
  <2>4. /\ ccall'[c].pc = pc /\ ccall'[c].me = ccall[c].me /\ ccall'[c].op = ccall[c].op
        /\ ccall'[c].seen = crow
    BY <2>3 DEF Record
  <2>5. ChangeOK(c)'
    BY <1>1, <2>1, <2>4 DEF ChangeOK, Ahead
  <2> QED BY <2>3, <2>4, <2>5
<1>7. CASE \E pc \in Ahead : To(pc)
  <2>1. PICK pc \in Ahead : To(pc)
    BY <1>7
  <2>2. Rests(c)
    BY <1>1, <1>2, <1>3, <1>6, <2>1 DEF Rests
  <2>3. /\ ccall'[c].pc \in Ahead /\ ccall'[c].me = ccall[c].me /\ ccall'[c].seen = crow
    BY <1>6, <2>1
  <2>4. Finds(c)
    <3>1. ASSUME NEW q \in Ahead, To(q)
          PROVE  ccall'[c].pc = q
      BY <1>6, <3>1
    <3>2. ~C!Hang(c)
      BY <2>1, <2>3, HangStep, Kinds DEF Ahead
    <3> HIDE DEF To
    <3>3. \/ ccall'[c].pc = "accept1" /\ ccall[c].op = "accept" /\ mine \in {"in", "out"}
          \/ ccall'[c].pc = "cancel1" /\ mine = "out"
          \/ ccall'[c].pc = "agree1" /\ ccall[c].op = "request" /\ yours \in {"in", "out"}
          \/ ccall'[c].pc = "again1" /\ yours = "removed"
          \/ ccall'[c].pc = "first1" /\ yours \in {"none", "rejected"}
      BY <1>4, <3>1, <3>2 DEF Ahead
    <3> QED BY <3>3, <1>3 DEF Finds
  <2> QED BY <1>1, <1>3, <2>2, <2>3, <2>4
<1> HIDE DEF To
<1>8. C!Hang(c) \/ \E pc \in Ahead : To(pc)
  BY <1>4 DEF Ahead
<1> QED BY <1>5, <1>7, <1>8

\* The push: its peer loads the list, its own user is told by the answer.
LEMMA PushKeeps ==
  ASSUME ContactTypes, ListsShown, NEW c \in Call, C!Push(c)
  PROVE  ContactTypes' /\ ListsShown'
<1> DEFINE you == C!Peer(ccall[c].me)
           r == [ccall[c] EXCEPT !.pc = "bump"]
<1>1. /\ ccall[c].op \in C!Change /\ ccall[c].pc = "push" /\ ChangeOK(c) /\ ccall[c].op # "list"
  BY Kinds DEF C!Push, C!Change
<1>2. ccall[c].me \in User /\ you \in User /\ \A v \in User : v = ccall[c].me \/ v = you
  BY <1>1, Two DEF ChangeOK
<1>3. /\ crow' = crow /\ version' = version /\ stamps' = stamps /\ list' = list /\ cached' = cached
      /\ online' = online /\ asked' = asked /\ crossed' = crossed /\ alone' = alone
      /\ \/ /\ due' = [due EXCEPT ![you] = IF you \in online THEN @ + 1 ELSE @] /\ blind' = blind
         \/ due' = due /\ blind' = [blind EXCEPT ![you] = @ \union {"PushLost"}]
  BY DEF C!Push, C!You
<1>4. ccall' = [ccall EXCEPT ![c] = r] /\ r \in Record
  <2>1. ccall \in [Call -> Record]
    BY DEF ContactTypes, Fields, Calls, Record
  <2> QED BY <2>1 DEF C!Push, Record, Stage, After
<1>5. ccall' \in Calls /\ Same(c) /\ ccall'[c] = r /\ ccall[c] \in Record
  BY <1>4, TurnStep
<1>6. /\ ccall'[c].pc = "bump" /\ ccall'[c].op = ccall[c].op /\ ccall'[c].me = ccall[c].me
      /\ ccall'[c].seen = ccall[c].seen
  BY <1>5 DEF Record
<1>7. ChangeOK(c)'
  BY <1>1, <1>6 DEF ChangeOK, After
<1>8. ContactTypes'
  <2>1. due \in [User -> Nat] /\ due' \in [User -> Nat] /\ blind' \in [User -> SUBSET Reason]
    BY <1>2, <1>3 DEF ContactTypes, Fields, Reason
  <2>2. Fields'
    BY <1>3, <1>5, <2>1 DEF ContactTypes, Fields
  <2>3. stamps <= stamps' /\ online \subseteq online'
    BY <1>3 DEF ContactTypes, Fields
  <2> QED BY <1>5, <1>7, <2>2, <2>3, TypesKept
<1>9. ASSUME NEW u \in User
      PROVE  Shown(u)'
  <2>0. /\ blind[u] \subseteq blind'[u]
        /\ u = you /\ blind'[u] = {} => due' = [due EXCEPT ![you] = IF you \in online THEN @ + 1 ELSE @]
    BY <1>2, <1>3 DEF ContactTypes, Fields
  <2>1. Versioned(u)' /\ (blind'[u] = {} => CopyRight(u))
    BY <1>3, <2>0 DEF ListsShown, Shown, Versioned
  <2>2. Changes'
    BY <1>1, <1>6 DEF Changes, C!Writing
  <2>3. C!Loads(u)' = C!Loads(u) /\ \A d \in C!Loads(u) : ccall'[d] = ccall[d]
    BY <1>1, <1>5, <1>6 DEF C!Loads, Same
  <2>4. blind'[u] = {} => CopyRight(u)'
    BY <1>3, <2>1, <2>2, <2>3 DEF CopyRight
  <2>5. u \in online' /\ blind'[u] = {} => due'[u] > 0 \/ Telling(u)'
    <3>1. CASE u = you
      BY <1>2, <1>3, <2>0, <3>1 DEF ContactTypes, Fields
    <3>2. CASE u = ccall[c].me
      BY <1>1, <1>6, <3>2 DEF Telling, WillTell
    <3> QED BY <1>2, <3>1, <3>2
  <2> QED BY <2>1, <2>4, <2>5 DEF Shown, Settled
<1> QED BY <1>8, <1>9 DEF ListsShown

\* The end of a change: no copy has the new version, and its user loads the list.
LEMMA BumpKeeps ==
  ASSUME ContactTypes, ListsShown, NEW c \in Call, C!Bump(c)
  PROVE  ContactTypes' /\ ListsShown'
<1> DEFINE me == ccall[c].me  you == C!Peer(ccall[c].me)
           unpushed == IF ccall[c].pc = "quiet" THEN [blind EXCEPT ![you] = @ \union {"NotPushed"}] ELSE blind
<1>1. ccall[c].op \in C!Change /\ ccall[c].pc \in {"bump", "quiet"} /\ ChangeOK(c) /\ ccall[c].op # "list"
  BY Kinds DEF C!Bump, C!Change, ListOK
<1>2. me \in User /\ you \in User /\ \A v \in User : v = me \/ v = you
  BY <1>1, Two DEF ChangeOK
<1>3. /\ crow' = crow /\ version' = [u \in User |-> stamps + 1] /\ stamps' = stamps + 1 /\ list' = list
      /\ cached' = cached /\ online' = online /\ asked' = asked /\ crossed' = crossed /\ alone' = alone
      /\ \/ due' = [due EXCEPT ![me] = IF me \in online THEN @ + 1 ELSE @] /\ blind' = unpushed
         \/ due' = due /\ blind' = [unpushed EXCEPT ![me] = @ \union {"AnswerLost"}]
      /\ C!Hang(c)
  BY DEF C!Bump, C!Me, C!You
<1>4. ccall' \in Calls /\ Same(c) /\ ccall'[c] = C!Free /\ C!Free.op = Nobody
  BY <1>3, HangStep, Kinds
<1>5. ContactTypes'
  <2>1. due' \in [User -> Nat] /\ version' \in [User -> Nat] /\ stamps' \in Nat /\ stamps <= stamps'
    BY <1>2, <1>3 DEF ContactTypes, Fields
  <2>2. blind' \in [User -> SUBSET Reason]
    BY <1>2, <1>3 DEF ContactTypes, Fields, Reason
  <2>3. \A u \in User : cached'[u].tag <= stamps' /\ version'[u] <= stamps'
    BY <1>3 DEF ContactTypes, Fields
  <2>4. Fields'
    BY <1>3, <1>4, <2>1, <2>2, <2>3 DEF ContactTypes, Fields
  <2> QED BY <1>3, <1>4, <2>1, <2>4, TypesKept
<1>6. ASSUME NEW u \in User
      PROVE  Shown(u)'
  <2>1. Versioned(u)'
    BY <1>3 DEF Versioned
  <2>2. SUFFICES ASSUME blind'[u] = {}
                 PROVE  CopyRight(u)' /\ (u \in online' => Settled(u)')
    BY <2>1 DEF Shown
  <2>3. /\ blind[u] = {} /\ (ccall[c].pc = "quiet" => u # you)
        /\ due' = IF u = me THEN [due EXCEPT ![me] = IF me \in online THEN @ + 1 ELSE @] ELSE due'
        /\ \A v \in User : v # me => due'[v] = due[v]
    BY <1>2, <1>3, <2>2 DEF ContactTypes, Fields
  <2>4. CopyRight(u) /\ (u \in online => Settled(u))
    BY <2>3 DEF ListsShown, Shown
  <2>5. C!Loads(u)' = C!Loads(u) /\ \A d \in C!Loads(u) : ccall'[d] = ccall[d]
    BY <1>1, <1>4, MCAccountsAssumption DEF C!Loads, Same
  <2>6. CopyRight(u)'
    <3>1. cached[u].tag < stamps' /\ cached'[u] = cached[u]
      BY <1>3 DEF ContactTypes, Fields
    <3>2. \A d \in C!Loads(u) : ccall[d].tag < stamps'
      BY <1>3, Kinds DEF C!Loads, ListOK, ContactTypes, Fields
    <3>3. cached[u].tag # stamps' /\ \A d \in C!Loads(u) : ccall[d].tag # stamps'
      <4>1. stamps' \in Int /\ cached[u].tag \in Int /\ \A d \in C!Loads(u) : ccall[d].tag \in Int
        BY <1>3, Kinds DEF C!Loads, ListOK, ContactTypes, Fields
      <4> QED BY <3>1, <3>2, <4>1
    <3> QED BY <2>4, <2>5, <3>1, <3>3 DEF CopyRight
  <2>7. ASSUME u \in online'
        PROVE  Settled(u)'
    <3>1. Settled(u) /\ u \in online
      BY <1>3, <2>4, <2>7
    <3>2. CASE u = me
      BY <1>2, <1>3, <2>3, <3>1, <3>2 DEF Settled, ContactTypes, Fields
    <3>3. CASE u # me
      <4>1. ~WillTell(c, u) /\ due'[u] = due[u]
        BY <1>1, <1>2, <2>3, <3>3 DEF WillTell, C!Second, ContactTypes, Fields
      <4>2. ASSUME Telling(u)
            PROVE  Telling(u)'
        <5>1. PICK d \in Call : ccall[d].op \in C!Change /\ WillTell(d, u)
          BY <4>2 DEF Telling
        <5>2. ccall'[d] = ccall[d]
          BY <4>1, <5>1, <1>4 DEF Same
        <5> QED BY <5>1, <5>2 DEF Telling, WillTell
      <4>3. \A d \in C!Loads(u) : Brings(d) => Brings(d)'
        BY <1>3, <2>5 DEF Brings
      <4> QED BY <1>3, <2>5, <3>1, <4>1, <4>2, <4>3 DEF Settled
    <3> QED BY <3>2, <3>3
  <2> QED BY <2>6, <2>7
<1> QED BY <1>5, <1>6 DEF ListsShown

\* A change that breaks off leaves a reason with every list.
LEMMA BreakKeeps ==
  ASSUME ContactTypes, ListsShown, NEW c \in Call, C!Break(c)
  PROVE  ContactTypes' /\ ListsShown'
<1>1. /\ crow' = crow /\ version' = version /\ stamps' = stamps /\ list' = list /\ cached' = cached
      /\ due' = due /\ online' = online /\ asked' = asked /\ crossed' = TRUE /\ alone' = alone
      /\ blind' = [u \in User |-> blind[u] \union {"BrokeOff"}] /\ C!Hang(c)
  BY DEF C!Break
<1>2. ccall' \in Calls /\ Same(c) /\ ccall'[c] = C!Free
  BY <1>1, HangStep
<1>3. ContactTypes'
  <2>1. blind' \in [User -> SUBSET Reason]
    BY <1>1 DEF ContactTypes, Fields, Reason
  <2>2. Fields'
    BY <1>1, <1>2, <2>1 DEF ContactTypes, Fields
  <2>3. stamps <= stamps' /\ online \subseteq online'
    BY <1>1 DEF ContactTypes, Fields
  <2> QED BY <1>2, <2>2, <2>3, TypesKept
<1>4. \A u \in User : blind'[u] # {} /\ (Versioned(u) => Versioned(u)')
  BY <1>1 DEF Versioned
<1> QED BY <1>3, <1>4 DEF ListsShown, Shown

-----------------------------------------------------------------------------
(* Loads and clients *)

\* What is under way but a load is not touched by one.
LEMMA LoadTouchesNoChange ==
  ASSUME NEW c \in Call, Same(c), ccall[c].op \notin C!Change, ccall'[c].op \notin C!Change
  PROVE  Changes' = Changes /\ \A u \in User : Telling(u)' = Telling(u)
<1>1. \A d \in Call : ccall'[d].op \in C!Change \/ ccall[d].op \in C!Change => d # c /\ ccall'[d] = ccall[d]
  BY DEF Same
<1>2. \A d \in Call : /\ ccall'[d].op \in C!Change /\ C!Writing(d)' <=> ccall[d].op \in C!Change /\ C!Writing(d)
                      /\ \A u \in User : ccall'[d].op \in C!Change /\ WillTell(d, u)'
                                         <=> ccall[d].op \in C!Change /\ WillTell(d, u)
  BY <1>1 DEF C!Writing, WillTell
<1> QED BY <1>2 DEF Changes, Telling

\* A load is not about the other user.
LEMMA LoadAside ==
  ASSUME ListsShown, NEW c \in Call, Same(c), ccall[c].op \notin C!Change, ccall'[c].op \notin C!Change,
         NEW u \in User, c \notin C!Loads(u), c \notin C!Loads(u)',
         blind'[u] = blind[u], version'[u] = version[u], stamps' = stamps, cached'[u] = cached[u], crow' = crow,
         online' = online, due'[u] = due[u], list'[u] = list[u]
  PROVE  Shown(u)'
<1>1. Changes' = Changes /\ Telling(u)' = Telling(u)
  BY LoadTouchesNoChange
<1>2. \A d \in Call : d \in C!Loads(u) \/ d \in C!Loads(u)' => ccall'[d] = ccall[d]
  BY DEF Same
<1> QED BY <1>1, <1>2, AsideKeeps DEF Aside, ListsShown

LEMMA LoadKeeps ==
  ASSUME ContactTypes, ListsShown, NEW c \in Call, NEW u \in User, C!Load(c, u)
  PROVE  ContactTypes' /\ ListsShown'
<1> DEFINE r == [C!Free EXCEPT !.op = "list", !.pc = "version", !.me = u, !.tag = cached[u].tag, !.copy = cached[u].row]
<1>1. /\ crow' = crow /\ version' = version /\ stamps' = stamps /\ list' = list /\ cached' = cached
      /\ online' = online /\ asked' = asked /\ crossed' = crossed /\ alone' = alone
      /\ due' = [due EXCEPT ![u] = @ - 1] /\ due[u] > 0 /\ u \in online /\ ccall[c].op = Nobody
      /\ blind' = IF C!Loads(u) # {} THEN [blind EXCEPT ![u] = @ \union {"Overtaken"}] ELSE blind
      /\ ccall' = [ccall EXCEPT ![c] = r]
  BY DEF C!Load
<1>2. C!Free \in Record /\ cached[u].tag \in Int /\ cached[u].row \in C!Status
  BY FreeRecord DEF ContactTypes, Fields
<1>3. /\ r \in Record /\ r.op = "list" /\ r.pc = "version" /\ r.me = u /\ r.tag = cached[u].tag
      /\ r.copy = cached[u].row
  BY <1>2 DEF Record, Stage
<1>4. ccall' \in Calls /\ Same(c) /\ ccall'[c] = r
  BY <1>1, <1>3, TurnStep
<1> HIDE DEF r
<1>5. ListOK(c)'
  BY <1>1, <1>2, <1>3, <1>4 DEF ListOK, ContactTypes, Fields
<1>6. ContactTypes'
  <2>1. due' \in [User -> Nat] /\ blind' \in [User -> SUBSET Reason]
    BY <1>1 DEF ContactTypes, Fields, Reason
  <2>2. Fields'
    BY <1>1, <1>4, <2>1 DEF ContactTypes, Fields
  <2>3. stamps <= stamps' /\ online \subseteq online'
    BY <1>1 DEF ContactTypes, Fields
  <2> QED BY <1>4, <1>5, <2>2, <2>3, TypesKept
<1>7. ccall[c].op \notin C!Change /\ ccall'[c].op \notin C!Change /\ ccall[c].op # "list"
  BY <1>1, <1>3, <1>4, MCAccountsAssumption DEF C!Change
<1>8. ASSUME NEW v \in User, v # u
      PROVE  Shown(v)'
  <2>1. c \notin C!Loads(v) /\ c \notin C!Loads(v)'
    BY <1>3, <1>4, <1>7, <1>8 DEF C!Loads
  <2>2. blind'[v] = blind[v] /\ due'[v] = due[v]
    BY <1>1, <1>8 DEF ContactTypes, Fields
  <2> QED BY <1>1, <1>4, <1>7, <2>1, <2>2, LoadAside
<1>9. Shown(u)'
  <2>1. Versioned(u)'
    BY <1>1 DEF ListsShown, Shown, Versioned, ContactTypes, Fields
  <2>2. SUFFICES ASSUME blind'[u] = {}
                 PROVE  CopyRight(u)' /\ Settled(u)'
    BY <2>1 DEF Shown
  <2>3. blind[u] = {} /\ C!Loads(u) = {}
    BY <1>1, <2>2 DEF ContactTypes, Fields
  <2>4. \A d \in Call : d \in C!Loads(u)' <=> d = c
    BY <1>3, <1>4, <2>3 DEF C!Loads, Same
  <2>5. \A d \in C!Loads(u)' : d = c
    BY <2>4 DEF C!Loads
  <2>6. CopyRight(u) /\ Changes' = Changes
    BY <1>4, <1>7, <2>3, LoadTouchesNoChange DEF ListsShown, Shown
  <2>7. ccall'[c].pc = "version" /\ ccall'[c].tag = cached[u].tag /\ ccall'[c].copy = cached[u].row
    BY <1>3, <1>4
  <2>8. CopyRight(u)'
    BY <1>1, <2>5, <2>6, <2>7 DEF CopyRight
  <2>9. Settled(u)'
    BY <2>4, <2>5, <2>7 DEF Settled, Brings
  <2> QED BY <2>8, <2>9
<1> QED BY <1>6, <1>8, <1>9 DEF ListsShown

\* The step of a load at the server.
LEMMA AnswerKeeps ==
  ASSUME ContactTypes, ListsShown, NEW c \in Call, ccall[c].op = "list", NEW u \in User, u = ccall[c].me, NEW r \in Record,
         ccall' = [ccall EXCEPT ![c] = r], r.op = "list", r.me = u,
         r.pc \in {"rows", "shown"}, r.tag <= stamps,
         crow' = crow, version' = version, stamps' = stamps, list' = list, cached' = cached, due' = due,
         online' = online, asked' = asked, crossed' = crossed, alone' = alone,
         blind' \in [User -> SUBSET Reason],
         \A v \in User : v # u => blind'[v] = blind[v],
         Versioned(u)',
         blind'[u] = {} =>
           /\ blind[u] = {}
           /\ r.pc = "shown" => \/ r.copy = C!View(crow[u])
                                \/ r.tag = stamps /\ ccall[c].tag = stamps /\ ccall[c].pc = "version"
                                   /\ r.copy = ccall[c].copy /\ ~Changes
  PROVE  ContactTypes' /\ ListsShown'
<1>1. ListOK(c) /\ u \in online
  BY Kinds DEF ListOK
<1>2. ccall' \in Calls /\ Same(c) /\ ccall'[c] = r
  BY TurnStep
<1>3. ListOK(c)'
  BY <1>1, <1>2 DEF ListOK, Record
<1>4. ContactTypes'
  <2>1. Fields'
    BY <1>2 DEF ContactTypes, Fields
  <2>2. stamps <= stamps' /\ online \subseteq online'
    BY DEF ContactTypes, Fields
  <2> QED BY <1>2, <1>3, <2>1, <2>2, TypesKept
<1>5. ccall[c].op \notin C!Change /\ ccall'[c].op \notin C!Change
  BY <1>2 DEF C!Change
<1>6. ASSUME NEW v \in User, v # u
      PROVE  Shown(v)'
  <2>1. c \notin C!Loads(v) /\ c \notin C!Loads(v)'
    BY <1>2, <1>6 DEF C!Loads
  <2> QED BY <1>2, <1>5, <1>6, <2>1, LoadAside
<1>7. Shown(u)'
  <2>1. SUFFICES ASSUME blind'[u] = {}
                 PROVE  CopyRight(u)' /\ Settled(u)'
    BY DEF Shown
  <2>2. blind[u] = {} /\ CopyRight(u)
    BY <1>1, <2>1 DEF ListsShown, Shown
  <2>3. c \in C!Loads(u) /\ c \in C!Loads(u)' /\ C!Loads(u)' = C!Loads(u)
    BY <1>2 DEF C!Loads, Same
  <2>4. \A d \in C!Loads(u)' : d = c
    BY <2>2, <2>3 DEF CopyRight
  <2>5. r.pc = "shown" => r.copy = C!View(crow[u])
    <3>1. ASSUME r.tag = stamps, ccall[c].tag = stamps, ccall[c].pc = "version", r.copy = ccall[c].copy, ~Changes
          PROVE  r.copy = C!View(crow[u])
      <4>1. ccall[c].tag = cached[u].tag /\ ccall[c].copy = cached[u].row
        BY <2>2, <2>3, <3>1 DEF CopyRight
      <4> QED BY <2>2, <3>1, <4>1 DEF CopyRight
    <3> QED BY <2>1, <3>1
  <2>6. Changes' = Changes
    BY <1>2, <1>5, LoadTouchesNoChange
  <2>7. CopyRight(u)'
    BY <1>2, <2>2, <2>4, <2>5, <2>6 DEF CopyRight
  <2>8. Settled(u)'
    BY <1>2, <2>3, <2>4, <2>5 DEF Settled, Brings
  <2> QED BY <2>7, <2>8
<1> QED BY <1>4, <1>6, <1>7 DEF ListsShown

LEMMA ListVersionKeeps ==
  ASSUME ContactTypes, ListsShown, NEW c \in Call, C!ListVersion(c)
  PROVE  ContactTypes' /\ ListsShown'
<1>0. ccall[c].op = "list" /\ ccall[c].pc = "version" /\ ListOK(c) /\ ccall[c].me \in User
  BY Kinds DEF C!ListVersion, C!Is, ListOK
<1> PICK u \in User : u = ccall[c].me
  BY <1>0
<1> DEFINE pc == IF ccall[c].tag = version[u] THEN "shown" ELSE "rows"
           r == [ccall[c] EXCEPT !.pc = pc, !.tag = version[u]]
<1>1. ccall[c].op = "list" /\ ccall[c].pc = "version" /\ ListOK(c)
  BY <1>0
<1>2. /\ crow' = crow /\ version' = version /\ stamps' = stamps /\ list' = list /\ cached' = cached /\ due' = due
      /\ online' = online /\ asked' = asked /\ crossed' = crossed /\ alone' = alone
      /\ blind' = IF C!Changing # {} THEN [blind EXCEPT ![u] = @ \union {"BeforeBump"}] ELSE blind
  BY DEF C!ListVersion, C!Me
<1>3. ccall \in [Call -> Record] /\ version[u] \in Nat /\ version[u] <= stamps
  BY <1>1 DEF ContactTypes, Fields, Calls, Record
<1>4. /\ r \in Record /\ ccall' = [ccall EXCEPT ![c] = r]
      /\ r.op = "list" /\ r.me = u /\ r.pc = pc /\ r.tag = version[u] /\ r.copy = ccall[c].copy
  <2>1. pc \in Stage
    BY DEF Stage
  <2>2. ccall' = [ccall EXCEPT ![c].pc = pc, ![c].tag = version[u]]
    BY DEF C!ListVersion, C!Me
  <2> HIDE DEF pc
  <2>3. ccall[c] \in Record /\ version[u] \in Int
    BY <1>3
  <2>4. r \in Record /\ r.op = "list" /\ r.me = u /\ r.pc = pc /\ r.tag = version[u] /\ r.copy = ccall[c].copy
    BY <1>1, <2>1, <2>3 DEF Record
  <2>5. ccall' = [ccall EXCEPT ![c] = r]
    BY <1>3, <2>2 DEF Record
  <2> QED BY <2>4, <2>5
<1> HIDE DEF r
<1>5. /\ blind' \in [User -> SUBSET Reason] /\ \A v \in User : v # u => blind'[v] = blind[v]
      /\ blind[u] \subseteq blind'[u] /\ (blind'[u] = {} => blind[u] = {} /\ C!Changing = {})
  BY <1>1, <1>2 DEF ContactTypes, Fields, Reason
<1>6. Versioned(u) /\ Versioned(u)'
  BY <1>1, <1>2, <1>5 DEF ListsShown, Shown, Versioned
<1>7. ASSUME blind'[u] = {}, r.pc = "shown"
      PROVE  r.tag = stamps /\ ccall[c].tag = stamps /\ ~Changes
  <2>1. version[u] = stamps /\ ~Changes
    BY <1>5, <1>6, <1>7 DEF Versioned, Changes, C!Changing
  <2> QED BY <1>4, <1>7, <2>1
<1>8. r.pc \in {"rows", "shown"} /\ r.tag <= stamps
  BY <1>3, <1>4
<1> HIDE DEF pc
<1> QED BY <1>1, <1>2, <1>4, <1>5, <1>6, <1>7, <1>8, AnswerKeeps

LEMMA ListRowsKeeps ==
  ASSUME ContactTypes, ListsShown, NEW c \in Call, C!ListRows(c)
  PROVE  ContactTypes' /\ ListsShown'
<1>0. ccall[c].op = "list" /\ ccall[c].pc = "rows" /\ ListOK(c) /\ ccall[c].me \in User
  BY Kinds DEF C!ListRows, C!Is, ListOK
<1> PICK u \in User : u = ccall[c].me
  BY <1>0
<1> DEFINE r == [ccall[c] EXCEPT !.pc = "shown", !.copy = C!View(crow[u])]
<1>1. ccall[c].op = "list" /\ ccall[c].pc = "rows" /\ ListOK(c)
  BY <1>0
<1>2. /\ crow' = crow /\ version' = version /\ stamps' = stamps /\ list' = list /\ cached' = cached /\ due' = due
      /\ online' = online /\ asked' = asked /\ crossed' = crossed /\ alone' = alone /\ blind' = blind
  BY DEF C!ListRows
<1>3. ccall \in [Call -> Record] /\ C!View(crow[u]) \in C!Status
  BY <1>1 DEF ContactTypes, Fields, Calls, Record, Rowed, C!View, C!Status
<1>4. /\ r \in Record /\ ccall' = [ccall EXCEPT ![c] = r]
      /\ r.op = "list" /\ r.me = u /\ r.pc = "shown" /\ r.tag = ccall[c].tag /\ r.copy = C!View(crow[u])
  <2>1. "shown" \in Stage
    BY DEF Stage
  <2>2. ccall' = [ccall EXCEPT ![c].pc = "shown", ![c].copy = C!View(crow[u])]
    BY DEF C!ListRows, C!Me
  <2> QED BY <1>1, <1>3, <2>1, <2>2 DEF Record
<1> HIDE DEF r
<1>5. blind' \in [User -> SUBSET Reason] /\ Versioned(u)' /\ r.tag <= stamps
  BY <1>1, <1>2, <1>4 DEF ListsShown, Shown, Versioned, ContactTypes, Fields, ListOK
<1>6. /\ \A v \in User : v # u => blind'[v] = blind[v]
      /\ blind'[u] = {} => /\ blind[u] = {}
                           /\ r.pc = "shown" => \/ r.copy = C!View(crow[u])
                                                \/ r.tag = stamps /\ ccall[c].tag = stamps /\ ccall[c].pc = "version"
                                                   /\ r.copy = ccall[c].copy /\ ~Changes
      /\ r.pc \in {"rows", "shown"}
  <2>1. blind' = blind
    BY <1>2
  <2>2. r.copy = C!View(crow[u]) /\ r.pc = "shown"
    BY <1>4
  <2>3. r.pc \in {"rows", "shown"}
    BY <2>2
  <2> QED BY <2>1, <2>2, <2>3
<1>7. PICK q \in Record : q = r
  BY <1>4
<1> QED BY <1>1, <1>2, <1>4, <1>5, <1>6, <1>7, AnswerKeeps

\* An answer that is shown is what the client shows, and what its browser keeps.
LEMMA ListShownKeeps ==
  ASSUME ContactTypes, ListsShown, NEW c \in Call, C!ListShown(c)
  PROVE  ContactTypes' /\ ListsShown'
<1>1. ccall[c].op = "list" /\ ccall[c].pc = "shown" /\ ListOK(c) /\ ccall[c].me \in User
  BY Kinds DEF C!ListShown, C!Is, ListOK
<1> PICK u \in User, s \in C!Status : u = ccall[c].me /\ s = ccall[c].copy
  BY <1>1 DEF ListOK
<1> DEFINE Clear == s = C!View(crow[u]) /\ C!Changing = {} /\ C!Loads(u) = {c} /\ ccall[c].tag = version[u]
<1>2. /\ crow' = crow /\ version' = version /\ stamps' = stamps /\ due' = due
      /\ online' = online /\ asked' = asked /\ crossed' = crossed /\ alone' = alone
      /\ list' = IF u \in online THEN [list EXCEPT ![u] = s] ELSE list
      /\ cached' = [cached EXCEPT ![u] = [tag |-> ccall[c].tag, row |-> s]]
      /\ blind' = IF Clear THEN [blind EXCEPT ![u] = @ \intersect {"Expired"}] ELSE blind
      /\ C!Hang(c)
  BY DEF C!ListShown, C!Me
<1> HIDE DEF Clear
<1>3. ccall' \in Calls /\ Same(c) /\ ccall'[c] = C!Free /\ C!Free.op = Nobody
  BY <1>2, HangStep, Kinds
<1>4. /\ s \in C!Status /\ ccall[c].tag \in Int /\ ccall[c].tag <= stamps /\ u \in online
  BY <1>1 DEF ListOK
<1>5. /\ list' = [list EXCEPT ![u] = s] /\ list' \in [User -> C!Status] /\ list'[u] = s
      /\ cached' \in [User -> [tag : Int, row : C!Status]]
      /\ cached'[u].tag = ccall[c].tag /\ cached'[u].row = s
      /\ \A v \in User : v # u => list'[v] = list[v] /\ cached'[v] = cached[v] /\ blind'[v] = blind[v]
      /\ blind' \in [User -> SUBSET Reason]
      /\ blind'[u] = IF Clear THEN blind[u] \intersect {"Expired"} ELSE blind[u]
  BY <1>1, <1>2, <1>4 DEF ContactTypes, Fields
<1>6. ContactTypes'
  <2>1. \A v \in User : cached'[v].tag <= stamps' /\ version'[v] <= stamps'
    BY <1>2, <1>4, <1>5 DEF ContactTypes, Fields
  <2>2. Fields'
    BY <1>2, <1>3, <1>5, <2>1 DEF ContactTypes, Fields
  <2>3. stamps <= stamps' /\ online \subseteq online'
    BY <1>2 DEF ContactTypes, Fields
  <2> QED BY <1>3, <2>2, <2>3, TypesKept
<1>7. ccall[c].op \notin C!Change /\ ccall'[c].op \notin C!Change /\ ccall'[c].op # "list"
  BY <1>1, <1>3, MCAccountsAssumption DEF C!Change
<1>8. ASSUME NEW v \in User, v # u
      PROVE  Shown(v)'
  <2>1. c \notin C!Loads(v) /\ c \notin C!Loads(v)'
    BY <1>7, <1>8 DEF C!Loads
  <2> QED BY <1>2, <1>3, <1>5, <1>7, <1>8, <2>1, LoadAside
<1>9. Shown(u)'
  <2>0. Shown(u)
    BY <1>1 DEF ListsShown
  <2>1. Versioned(u)'
    BY <2>0, <1>2, <1>5 DEF Shown, Versioned
  <2>2. SUFFICES ASSUME blind'[u] = {}
                 PROVE  CopyRight(u)' /\ Settled(u)'
    BY <2>1 DEF Shown
  <2>3. Changes' = Changes /\ Telling(u)' = Telling(u)
    BY <1>1, <1>3, <1>7, LoadTouchesNoChange
  <2>4. c \in C!Loads(u)
    BY <1>1 DEF C!Loads
  <2>5. /\ C!Loads(u)' = {}
        /\ ~Changes /\ ccall[c].tag = stamps => s = C!View(crow[u])
        /\ due[u] > 0 \/ Telling(u) \/ s = C!View(crow[u])
    <3>1. CASE Clear
      <4>1. C!Loads(u) = {c} /\ s = C!View(crow[u])
        BY <3>1 DEF Clear
      <4>2. \A d \in Call : ~(ccall'[d].op = "list" /\ ccall'[d].me = u)
        BY <4>1, <1>3, <1>7 DEF C!Loads, Same
      <4> QED BY <4>1, <4>2 DEF C!Loads
    <3>2. CASE ~Clear
      <4>1. CopyRight(u) /\ Settled(u)
        BY <1>4, <1>5, <2>0, <2>2, <3>2 DEF Shown
      <4>2. \A d \in C!Loads(u) : d = c
        BY <2>4, <4>1 DEF CopyRight
      <4>3. \A d \in Call : ~(ccall'[d].op = "list" /\ ccall'[d].me = u)
        BY <4>2, <1>3, <1>7 DEF C!Loads, Same
      <4>4. ~Changes /\ ccall[c].tag = stamps => s = C!View(crow[u])
        BY <1>1, <2>4, <4>1 DEF CopyRight
      <4>5. due[u] > 0 \/ Telling(u) \/ s = C!View(crow[u])
        BY <1>1, <2>4, <4>1 DEF Settled, Brings
      <4> QED BY <4>3, <4>4, <4>5 DEF C!Loads
    <3> QED BY <3>1, <3>2
  <2>6. CopyRight(u)'
    BY <1>2, <1>5, <2>3, <2>5 DEF CopyRight
  <2>7. Settled(u)'
    BY <1>2, <1>5, <2>3, <2>5 DEF Settled
  <2> QED BY <2>6, <2>7
<1> QED BY <1>6, <1>8, <1>9 DEF ListsShown

\* A load that fails leaves a reason with its list.
LEMMA ListFailsKeeps ==
  ASSUME ContactTypes, ListsShown, NEW c \in Call, C!ListFails(c)
  PROVE  ContactTypes' /\ ListsShown'
<1>1. ccall[c].op = "list" /\ ListOK(c) /\ ccall[c].me \in User
  BY Kinds DEF C!ListFails, ListOK
<1> PICK u \in User : u = ccall[c].me
  BY <1>1
<1>2. /\ crow' = crow /\ version' = version /\ stamps' = stamps /\ list' = list /\ cached' = cached
      /\ due' = due /\ online' = online /\ asked' = asked /\ crossed' = crossed /\ alone' = alone
      /\ blind' = [blind EXCEPT ![u] = @ \union {"LoadFailed"}] /\ C!Hang(c)
  BY DEF C!ListFails, C!Me
<1>3. ccall' \in Calls /\ Same(c) /\ ccall'[c] = C!Free /\ C!Free.op = Nobody
  BY <1>2, HangStep, Kinds
<1>4. ContactTypes'
  <2>1. blind' \in [User -> SUBSET Reason]
    BY <1>2 DEF ContactTypes, Fields, Reason
  <2>2. Fields'
    BY <1>2, <1>3, <2>1 DEF ContactTypes, Fields
  <2>3. stamps <= stamps' /\ online \subseteq online'
    BY <1>2 DEF ContactTypes, Fields
  <2> QED BY <1>3, <2>2, <2>3, TypesKept
<1>5. ccall[c].op \notin C!Change /\ ccall'[c].op \notin C!Change /\ ccall'[c].op # "list"
  BY <1>1, <1>3, MCAccountsAssumption DEF C!Change
<1>6. ASSUME NEW v \in User, v # u
      PROVE  Shown(v)'
  <2>1. c \notin C!Loads(v) /\ c \notin C!Loads(v)'
    BY <1>5, <1>6 DEF C!Loads
  <2>2. blind'[v] = blind[v]
    BY <1>2, <1>6 DEF ContactTypes, Fields
  <2> QED BY <1>2, <1>3, <1>5, <2>1, <2>2, LoadAside
<1>7. blind'[u] # {} /\ (Versioned(u) => Versioned(u)')
  BY <1>2 DEF Versioned, ContactTypes, Fields
<1> QED BY <1>4, <1>6, <1>7 DEF ListsShown, Shown

\* A token expires; a client is shown again, closed, or opened.
LEMMA ClientKeeps ==
  ASSUME ContactTypes, ListsShown, NEW u \in User, C!Expire(u) \/ C!Resume(u) \/ C!Close(u) \/ C!Open(u)
  PROVE  ContactTypes' /\ ListsShown'
<1>1. /\ crow' = crow /\ stamps' = stamps /\ ccall' = ccall /\ cached' = cached
      /\ asked' = asked /\ crossed' = crossed /\ alone' = alone
  BY DEF C!Expire, C!Resume, C!Close, C!Open
<1>2. ASSUME Fields', \A c \in Call : ccall[c].op = "list" => ccall[c].me \in online'
      PROVE  ContactTypes'
  <2>1. stamps \in Int /\ stamps' \in Int /\ stamps <= stamps'
    BY <1>1 DEF ContactTypes, Fields
  <2>2. \A c \in Call : ccall'[c] = C!Free \/ ChangeOK(c)' \/ ListOK(c)'
    BY <1>1, <1>2, <2>1, OthersKept
  <2> QED BY <1>2, <2>2 DEF ContactTypes
<1>3. \A c \in Call : ccall[c].op = "list" => ccall[c].me \in online
  BY Kinds DEF ListOK
<1>4. Changes' = Changes /\ \A v \in User : Telling(v)' = Telling(v) /\ C!Loads(v)' = C!Loads(v)
  BY <1>1 DEF Changes, Telling, WillTell, C!Writing, C!Loads
<1>5. ASSUME NEW v \in User, v # u, blind'[v] = blind[v], version'[v] = version[v],
             v \in online' => v \in online, due'[v] = due[v], list'[v] = list[v]
      PROVE  Shown(v)'
  BY <1>1, <1>4, <1>5, AsideKeeps DEF Aside, ListsShown
<1>6. CASE C!Expire(u)
  <2>1. /\ version' = [version EXCEPT ![u] = 0] /\ blind' = [blind EXCEPT ![u] = @ \union {"Expired"}]
        /\ online' = online /\ due' = due /\ list' = list
    BY <1>6 DEF C!Expire
  <2>2. version' \in [User -> Nat] /\ blind' \in [User -> SUBSET Reason]
    BY <2>1 DEF ContactTypes, Fields, Reason
  <2>3. \A v \in User : version'[v] <= stamps' /\ cached'[v].tag <= stamps'
    BY <1>1, <2>1 DEF ContactTypes, Fields
  <2>4. Fields'
    BY <1>1, <2>1, <2>2, <2>3 DEF ContactTypes, Fields
  <2>5. "Expired" \in blind'[u] /\ \A v \in User : v # u => blind'[v] = blind[v] /\ version'[v] = version[v]
    BY <2>1 DEF ContactTypes, Fields
  <2>6. Shown(u)'
    BY <2>5 DEF Shown, Versioned
  <2>7. \A v \in User : v # u => Shown(v)'
    BY <1>5, <2>1, <2>5
  <2> QED BY <1>2, <1>3, <2>1, <2>4, <2>6, <2>7 DEF ListsShown
<1>7. CASE C!Close(u)
  <2>1. /\ version' = version /\ blind' = blind
        /\ online' = online \ {u} /\ due' = [due EXCEPT ![u] = 0] /\ list' = [list EXCEPT ![u] = "none"]
        /\ \A c \in Call : ccall[c].me # u
    BY <1>7 DEF C!Close
  <2>2. due' \in [User -> Nat] /\ list' \in [User -> C!Status] /\ online' \subseteq User
    BY <2>1 DEF ContactTypes, Fields, C!Status
  <2>3. Fields'
    BY <1>1, <2>1, <2>2 DEF ContactTypes, Fields
  <2>4. \A v \in User : v # u => due'[v] = due[v] /\ list'[v] = list[v]
    BY <2>1 DEF ContactTypes, Fields
  <2>5. CopyRight(u) => CopyRight(u)'
    BY <1>1, <1>4 DEF CopyRight
  <2>6. Shown(u)'
    BY <1>1, <2>1, <2>5 DEF ListsShown, Shown, Versioned
  <2>7. \A v \in User : v # u => Shown(v)'
    BY <1>5, <2>1, <2>4
  <2> QED BY <1>2, <1>3, <2>1, <2>3, <2>6, <2>7 DEF ListsShown
<1>8. CASE C!Open(u)
  <2>1. /\ version' = version /\ blind' = blind /\ list' = list
        /\ online' = online \union {u} /\ due' = [due EXCEPT ![u] = 1]
    BY <1>8 DEF C!Open
  <2>2. due' \in [User -> Nat] /\ online' \subseteq User /\ due'[u] > 0
    BY <2>1 DEF ContactTypes, Fields
  <2>3. Fields'
    BY <1>1, <2>1, <2>2 DEF ContactTypes, Fields
  <2>4. \A v \in User : v # u => due'[v] = due[v]
    BY <2>1 DEF ContactTypes, Fields
  <2>5. CopyRight(u) => CopyRight(u)'
    BY <1>1, <1>4 DEF CopyRight
  <2>6. Shown(u)'
    BY <1>1, <2>1, <2>2, <2>5 DEF ListsShown, Shown, Versioned, Settled
  <2>7. \A v \in User : v # u => Shown(v)'
    BY <1>5, <2>1, <2>4
  <2> QED BY <1>2, <1>3, <2>1, <2>3, <2>6, <2>7 DEF ListsShown
<1>9. CASE C!Resume(u)
  <2>1. /\ version' = version /\ blind' = blind /\ list' = list
        /\ online' = online /\ due' = [due EXCEPT ![u] = @ + 1]
    BY <1>9 DEF C!Resume
  <2>2. due' \in [User -> Nat] /\ due'[u] > 0
    BY <2>1 DEF ContactTypes, Fields
  <2>3. Fields'
    BY <1>1, <2>1, <2>2 DEF ContactTypes, Fields
  <2>4. \A v \in User : v # u => due'[v] = due[v]
    BY <2>1 DEF ContactTypes, Fields
  <2>5. CopyRight(u) => CopyRight(u)'
    BY <1>1, <1>4 DEF CopyRight
  <2>6. Shown(u)'
    BY <1>1, <2>1, <2>2, <2>5 DEF ListsShown, Shown, Versioned, Settled
  <2>7. \A v \in User : v # u => Shown(v)'
    BY <1>5, <2>1, <2>4
  <2> QED BY <1>2, <1>3, <2>1, <2>3, <2>6, <2>7 DEF ListsShown
<1> QED BY <1>6, <1>7, <1>8, <1>9

-----------------------------------------------------------------------------
(* The rows *)

LEMMA SawKept ==
  ASSUME NEW d \in Call, ccall'[d] = ccall[d], alone => alone', SawRight(d)
  PROVE  SawRight(d)'
BY DEF SawRight

LEMMA MendsKept ==
  ASSUME NEW d \in Call, ccall'[d] = ccall[d], alone => alone', asked \subseteq asked', Mends(d)
  PROVE  Mends(d)'
BY DEF Mends

\* A step that changes no row and is not of a call between its statements.
LEMMA RestMends ==
  ASSUME RowsMend, NEW c \in Call, Same(c), crow' = crow, asked' = asked, crossed' = crossed, alone => alone',
         ccall[c].pc \notin C!Second, ccall'[c].op \in C!Change => SawRight(c)'
  PROVE  RowsMend'
<1>1. SUFFICES ASSUME ~crossed
               PROVE  /\ \A d \in Call : ccall'[d].op \in C!Change => SawRight(d)'
                      /\ Agree(crow)' \/ \E d \in Call : Mends(d)'
  BY DEF RowsMend
<1>2. \A d \in Call : ccall'[d].op \in C!Change => SawRight(d)'
  BY <1>1, SawKept DEF RowsMend, Same
<1>3. CASE Agree(crow)
  BY <1>2, <1>3 DEF Agree
<1>4. CASE \E d \in Call : Mends(d)
  <2>1. PICK d \in Call : Mends(d)
    BY <1>4
  <2>2. ccall'[d] = ccall[d]
    BY <2>1 DEF Mends, Same
  <2> QED BY <1>2, <2>1, <2>2, MendsKept
<1> QED BY <1>1, <1>3, <1>4 DEF RowsMend

\* A statement that changes a row.
LEMMA WriteMends ==
  ASSUME RowsMend, NEW c \in Call, Wrote(c),
         ~crossed' => /\ SawRight(c)'
                      /\ \/ Mends(c)'
                         \/ asked \subseteq asked' /\ (Agree(crow) \/ Mends(c) => Agree(crow)' \/ Mends(c)')
  PROVE  RowsMend'
<1>1. SUFFICES ASSUME ~crossed'
               PROVE  /\ \A d \in Call : ccall'[d].op \in C!Change => SawRight(d)'
                      /\ Agree(crow)' \/ \E d \in Call : Mends(d)'
  BY DEF RowsMend
<1>2. ~crossed /\ Same(c) /\ alone' = alone
  BY <1>1 DEF Wrote, C!Excused, C!Others
<1>3. \A d \in Call : ccall'[d].op \in C!Change => SawRight(d)'
  BY <1>1, <1>2, SawKept DEF RowsMend, Same
<1>4. SUFFICES ASSUME ~Mends(c)', asked \subseteq asked', Agree(crow) \/ Mends(c) => Agree(crow)'
               PROVE  Agree(crow)' \/ \E d \in Call : Mends(d)'
  BY <1>1, <1>3
<1>5. CASE \E d \in Call \ {c} : Mends(d)
  <2>1. PICK d \in Call \ {c} : Mends(d)
    BY <1>5
  <2> QED BY <1>2, <1>4, <2>1, MendsKept DEF Same
<1>6. CASE ~\E d \in Call \ {c} : Mends(d)
  BY <1>2, <1>4, <1>6 DEF RowsMend
<1> QED BY <1>5, <1>6

\* Unless another change crossed it, a statement meets the rows its request has seen.
LEMMA Uncrossed ==
  ASSUME ContactTypes, RowsMend, NEW c \in Call, Wrote(c), ~crossed'
  PROVE  /\ SawRight(c) /\ alone' = alone /\ asked \subseteq User
         /\ ccall[c].pc # "read" => ccall[c].seen = crow
         /\ \A u \in User : crow[u] \in C!Status
         /\ ccall'[c].me = ccall[c].me /\ ccall'[c].seen = crow'
<1>1. ~crossed /\ ChangeOK(c) /\ alone' = alone /\ asked \subseteq User
  BY Kinds DEF Wrote, C!Excused, C!Others, ContactTypes, Fields
<1>2. ccall[c].pc # "read" => ccall[c].seen # Nobody
  BY <1>1, MCAccountsAssumption DEF ChangeOK, Rowed
<1> QED BY <1>1, <1>2 DEF Wrote, C!Excused, RowsMend, ContactTypes, Fields, Rowed

\* What a statement leaves in the rows.
Leaves(c, u, s, pc) ==
  /\ crow'[u] = s /\ \A v \in User : v # u => crow'[v] = crow[v]
  /\ ccall'[c].pc = pc

LEMMA PutLeaves ==
  ASSUME ContactTypes, NEW c \in Call, NEW u \in User, NEW s \in C!Status, NEW pc \in Stage
  PROVE  /\ C!Put(c, u, s, pc) => Leaves(c, u, s, pc)
         /\ C!Update(c, u, s, pc) => Leaves(c, u, IF crow[u] = "none" THEN "none" ELSE s, pc)
<1>1. ASSUME NEW t \in C!Status, C!Put(c, u, t, pc)
      PROVE  Leaves(c, u, t, pc)
  BY <1>1, PutStep DEF Leaves, ContactTypes, Fields, Rowed
<1> QED BY <1>1 DEF C!Update, C!Status

LEMMA RequestMends ==
  ASSUME ContactTypes, RowsMend, NEW c \in Call, C!RequestWrites(c)
  PROVE  RowsMend'
<1>1. Wrote(c) /\ ChangeOK(c)
  BY WriteSteps, Kinds DEF Wrote
<1>2. SUFFICES ASSUME ~crossed'
               PROVE  /\ SawRight(c)' /\ asked \subseteq asked'
                      /\ Agree(crow) \/ Mends(c) => Agree(crow)' \/ Mends(c)'
  BY <1>1, WriteMends
<1> PICK me \in User, you \in User : me = ccall[c].me /\ you = C!Peer(me)
  BY <1>1, Two DEF ChangeOK
<1>3. me # you /\ C!Peer(you) = me /\ \A v \in User : v = me \/ v = you
  BY Two
<1>4. /\ SawRight(c) /\ alone' = alone /\ asked \subseteq User
      /\ ccall[c].pc # "read" => ccall[c].seen = crow
      /\ crow[me] \in C!Status /\ crow[you] \in C!Status
      /\ ccall'[c].me = me /\ ccall'[c].seen = crow'
  BY <1>1, <1>2, Uncrossed
<1>5. asked' = asked \union {me} /\ C!Me(c) = me /\ C!You(c) = you
  BY DEF C!RequestWrites, C!Me, C!You
<1>6. {"accepted", "in", "out"} \subseteq C!Status /\ {"agree2", "again2", "first2", "quiet", "push"} \subseteq Stage
  BY DEF C!Status, Stage, C!Second, After
<1>7. CASE ccall[c].pc = "agree1"
  <2>1. Leaves(c, you, IF crow[you] = "none" THEN "none" ELSE "accepted", "agree2")
    BY <1>5, <1>6, <1>7, PutLeaves DEF C!RequestWrites
  <2>2. crow[you] \in {"in", "out"} /\ (crow[you] = "in" => alone) /\ crow'[you] = "accepted"
    BY <1>4, <1>7, <2>1 DEF SawRight, Leaves
  <2>3. SawRight(c)' /\ ~Mends(c)
    BY <1>4, <1>7, <2>1, <2>2 DEF SawRight, Leaves, Mends, C!Second
  <2>4. ASSUME Agree(crow)
        PROVE  Mends(c)'
    <3>1. you \in asked \/ alone
      BY <2>2, <2>4 DEF Agree
    <3> QED BY <1>4, <1>5, <2>1, <3>1 DEF Mends, Leaves, C!Second
  <2> QED BY <1>5, <2>3, <2>4
<1>8. CASE ccall[c].pc = "agree2"
  <2>1. Leaves(c, me, "accepted", "quiet")
    BY <1>5, <1>6, <1>8, PutLeaves DEF C!RequestWrites
  <2>2. crow'[you] = "accepted" /\ crow'[me] = "accepted" /\ crow[you] = "accepted"
    BY <1>3, <1>4, <1>8, <2>1 DEF SawRight, Leaves
  <2>3. SawRight(c)'
    BY <2>1 DEF SawRight, Leaves
  <2>4. ASSUME Agree(crow) \/ Mends(c)
        PROVE  you \in asked \/ alone
    BY <1>8, <2>2, <2>4 DEF Agree, Mends
  <2>5. ASSUME you \in asked \/ alone
        PROVE  Agree(crow)'
    <3>1. asked' = User \/ alone'
      BY <1>3, <1>4, <1>5, <2>5
    <3> QED BY <1>3, <2>2, <3>1 DEF Agree
  <2> QED BY <1>5, <2>3, <2>4, <2>5
<1>9. CASE ccall[c].pc = "again1"
  <2>1. Leaves(c, you, IF crow[you] = "none" THEN "none" ELSE "in", "again2")
    BY <1>5, <1>6, <1>9, PutLeaves DEF C!RequestWrites
  <2>2. crow'[you] = "in"
    BY <1>4, <1>9, <2>1 DEF SawRight, Leaves
  <2> QED BY <1>4, <1>5, <2>1, <2>2 DEF SawRight, Leaves, Mends, C!Second
<1>10. CASE ccall[c].pc = "again2"
  <2>1. Leaves(c, me, IF crow[me] = "none" THEN "none" ELSE "out", "quiet")
    BY <1>5, <1>6, <1>10, PutLeaves DEF C!RequestWrites
  <2>2. crow'[you] = "in" /\ crow'[me] \in {"none", "out"}
    BY <1>3, <1>4, <1>10, <2>1 DEF SawRight, Leaves
  <2>3. Agree(crow)'
    BY <1>3, <1>5, <2>2 DEF Agree
  <2> QED BY <1>5, <2>1, <2>3 DEF SawRight, Leaves
<1>11. CASE ccall[c].pc = "first1"
  <2>1. Leaves(c, you, "in", "first2")
    BY <1>5, <1>6, <1>11, PutLeaves DEF C!RequestWrites
  <2>2. crow'[you] = "in" /\ crow'[me] = crow[me] /\ crow[you] \in {"none", "rejected"}
    BY <1>3, <1>4, <1>11, <2>1 DEF SawRight, Leaves
  <2>3. SawRight(c)' /\ ~Mends(c)
    BY <1>4, <1>11, <2>1, <2>2 DEF SawRight, Leaves, Mends, C!Second
  <2>4. ASSUME Agree(crow)
        PROVE  Mends(c)'
    <3>1. crow[me] # "accepted" /\ (crow[me] = "in" => you \in asked)
      BY <2>2, <2>4 DEF Agree
    <3> QED BY <1>4, <1>5, <2>1, <2>2, <3>1 DEF Mends, Leaves, C!Second
  <2> QED BY <1>5, <2>3, <2>4
<1>12. CASE ccall[c].pc = "first2"
  <2>0. (IF crow[me] \in {"none", "rejected"} THEN "out" ELSE crow[me]) \in C!Status
    BY <1>4 DEF C!Status
  <2>1. Leaves(c, me, IF crow[me] \in {"none", "rejected"} THEN "out" ELSE crow[me], "push")
    BY <1>5, <1>6, <1>12, <2>0, PutLeaves DEF C!RequestWrites
  <2>2. /\ crow[you] = "in" /\ crow'[you] = "in"
        /\ crow'[me] = IF crow[me] \in {"none", "rejected"} THEN "out" ELSE crow[me]
    BY <1>3, <1>4, <1>12, <2>1 DEF SawRight, Leaves
  <2>3. SawRight(c)'
    BY <2>1 DEF SawRight, Leaves
  <2>4. ASSUME Agree(crow) \/ Mends(c)
        PROVE  crow[me] # "accepted" /\ (crow[me] = "in" => you \in asked)
    BY <1>4, <1>12, <2>2, <2>4 DEF Agree, Mends
  <2>5. ASSUME crow[me] # "accepted" /\ (crow[me] = "in" => you \in asked)
        PROVE  Agree(crow)'
    BY <1>3, <1>5, <2>2, <2>5 DEF Agree
  <2> QED BY <1>5, <2>3, <2>4, <2>5
<1> QED BY <1>7, <1>8, <1>9, <1>10, <1>11, <1>12 DEF C!RequestWrites

LEMMA AcceptMends ==
  ASSUME ContactTypes, RowsMend, NEW c \in Call, C!Accept(c)
  PROVE  RowsMend'
<1>1. Wrote(c) /\ ChangeOK(c)
  BY WriteSteps, Kinds DEF Wrote
<1>2. SUFFICES ASSUME ~crossed'
               PROVE  /\ SawRight(c)' /\ asked \subseteq asked'
                      /\ Agree(crow) \/ Mends(c) => Agree(crow)' \/ Mends(c)'
  BY <1>1, WriteMends
<1> PICK me \in User, you \in User : me = ccall[c].me /\ you = C!Peer(me)
  BY <1>1, Two DEF ChangeOK
<1>3. me # you /\ C!Peer(you) = me /\ \A v \in User : v = me \/ v = you
  BY Two
<1>4. /\ SawRight(c) /\ alone' = alone /\ asked \subseteq User
      /\ ccall[c].pc # "read" => ccall[c].seen = crow
      /\ crow[me] \in C!Status /\ crow[you] \in C!Status
      /\ ccall'[c].me = me /\ ccall'[c].seen = crow'
  BY <1>1, <1>2, Uncrossed
<1>5. asked' = asked \union {me} /\ C!Me(c) = me /\ C!You(c) = you
  BY DEF C!Accept, C!Me, C!You
<1>6. "accepted" \in C!Status /\ {"accept2", "push"} \subseteq Stage
  BY DEF C!Status, Stage, C!Second, After
<1>7. CASE ccall[c].pc = "accept1"
  <2>1. Leaves(c, me, IF crow[me] = "none" THEN "none" ELSE "accepted", "accept2")
    BY <1>5, <1>6, <1>7, PutLeaves DEF C!Accept
  <2>2. crow[me] \in {"in", "out"} /\ (crow[me] = "out" => alone) /\ crow'[me] = "accepted"
    BY <1>4, <1>7, <2>1 DEF SawRight, Leaves
  <2>3. SawRight(c)' /\ ~Mends(c)
    BY <1>4, <1>7, <2>1, <2>2 DEF SawRight, Leaves, Mends, C!Second
  <2>4. ASSUME Agree(crow)
        PROVE  Mends(c)'
    <3>1. you \in asked \/ alone
      BY <2>2, <2>4 DEF Agree
    <3> QED BY <1>4, <1>5, <2>1, <3>1 DEF Mends, Leaves, C!Second
  <2> QED BY <1>5, <2>3, <2>4
<1>8. CASE ccall[c].pc = "accept2"
  <2>1. Leaves(c, you, "accepted", "push")
    BY <1>5, <1>6, <1>8, PutLeaves DEF C!Accept
  <2>2. crow'[you] = "accepted" /\ crow'[me] = "accepted" /\ crow[me] = "accepted"
    BY <1>3, <1>4, <1>8, <2>1 DEF SawRight, Leaves
  <2>3. SawRight(c)'
    BY <2>1 DEF SawRight, Leaves
  <2>4. ASSUME Agree(crow) \/ Mends(c)
        PROVE  asked = User \/ you \in asked \/ alone
    BY <1>8, <2>2, <2>4 DEF Agree, Mends
  <2>5. ASSUME asked = User \/ you \in asked \/ alone
        PROVE  Agree(crow)'
    <3>1. asked' = User \/ alone'
      BY <1>3, <1>4, <1>5, <2>5
    <3> QED BY <1>3, <2>2, <3>1 DEF Agree
  <2> QED BY <1>5, <2>3, <2>4, <2>5
<1> QED BY <1>7, <1>8 DEF C!Accept

\* Breaks take back what was agreed, and make the rows agree again.
LEMMA BreaksMend ==
  ASSUME ContactTypes, RowsMend, NEW c \in Call,
         C!Cancel(c) \/ C!Remove(c) \/ (C!Reject(c) /\ ~C!Hang(c))
  PROVE  RowsMend'
<1>1. Wrote(c) /\ ChangeOK(c)
  BY WriteSteps, Kinds DEF Wrote
<1>2. SUFFICES ASSUME ~crossed'
               PROVE  /\ SawRight(c)'
                      /\ Mends(c)' \/ (asked \subseteq asked' /\ Agree(crow)')
  BY <1>1, WriteMends
<1> PICK me \in User, you \in User : me = ccall[c].me /\ you = C!Peer(me)
  BY <1>1, Two DEF ChangeOK
<1>3. me # you /\ C!Peer(you) = me /\ \A v \in User : v = me \/ v = you
  BY Two
<1>4. /\ SawRight(c) /\ alone' = alone /\ asked \subseteq User
      /\ ccall[c].pc # "read" => ccall[c].seen = crow
      /\ crow[me] \in C!Status /\ crow[you] \in C!Status
      /\ ccall'[c].me = me /\ ccall'[c].seen = crow'
  BY <1>1, <1>2, Uncrossed
<1>5. C!Me(c) = me /\ C!You(c) = you
  BY DEF C!Me, C!You
<1>6. /\ {"none", "removed", "rejected"} \subseteq C!Status
      /\ {"cancel2", "remove2", "reject2", "push"} \subseteq Stage
  BY DEF C!Status, Stage, C!Second, After
\* The first statement.
<1>7. ASSUME NEW s \in {"none", "removed"}, NEW pc \in {"cancel2", "remove2", "reject2"},
             Leaves(c, me, s, pc), pc = "remove2" \/ s = "none"
      PROVE  SawRight(c)' /\ Mends(c)'
  BY <1>4, <1>7 DEF SawRight, Mends, Leaves, C!Second
\* The second one.
<1>8. ASSUME NEW m \in {"none", "removed"}, NEW y \in {"none", "removed", "rejected"}, crow[me] = m,
             Leaves(c, you, y, "push"), asked' = asked
      PROVE  SawRight(c)' /\ asked \subseteq asked' /\ Agree(crow)'
  <2>1. crow'[me] = m /\ crow'[you] = y
    BY <1>3, <1>8 DEF Leaves
  <2>2. Agree(crow)'
    BY <1>3, <2>1 DEF Agree
  <2> QED BY <1>8, <2>2 DEF SawRight, Leaves
<1>9. CASE C!Cancel(c)
  <2>1. CASE ccall[c].pc = "cancel1"
    <3>1. Leaves(c, me, "none", "cancel2")
      BY <1>5, <1>6, <1>9, <2>1, PutLeaves DEF C!Cancel
    <3> QED BY <1>7, <3>1
  <2>2. CASE ccall[c].pc = "cancel2"
    <3>1. Leaves(c, you, "none", "push") /\ asked' = asked
      BY <1>5, <1>6, <1>9, <2>2, PutLeaves DEF C!Cancel
    <3>2. crow[me] = "none"
      BY <1>4, <2>2 DEF SawRight
    <3> QED BY <1>8, <3>1, <3>2
  <2> QED BY <1>9, <2>1, <2>2 DEF C!Cancel
<1>10. CASE C!Remove(c)
  <2>1. CASE ccall[c].pc = "read"
    <3>1. Leaves(c, me, IF crow[me] = "none" THEN "none" ELSE "removed", "remove2")
      BY <1>5, <1>6, <1>10, <2>1, PutLeaves DEF C!Remove
    <3> QED BY <1>7, <3>1
  <2>2. CASE ccall[c].pc = "remove2"
    <3>1. Leaves(c, you, IF crow[you] = "none" THEN "none" ELSE "removed", "push") /\ asked' = asked
      BY <1>5, <1>6, <1>10, <2>2, PutLeaves DEF C!Remove
    <3>2. crow[me] \in {"none", "removed"}
      BY <1>4, <2>2 DEF SawRight
    <3> QED BY <1>8, <3>1, <3>2
  <2> QED BY <1>10, <2>1, <2>2 DEF C!Remove
<1>11. CASE C!Reject(c) /\ ~C!Hang(c)
  <2>1. CASE ccall[c].pc = "read"
    <3>1. Leaves(c, me, "none", "reject2")
      BY <1>5, <1>6, <1>11, <2>1, PutLeaves DEF C!Reject
    <3> QED BY <1>7, <3>1
  <2>2. CASE ccall[c].pc = "reject2"
    <3>1. Leaves(c, you, IF crow[you] = "none" THEN "none" ELSE "rejected", "push") /\ asked' = asked
      BY <1>5, <1>6, <1>11, <2>2, PutLeaves DEF C!Reject
    <3>2. crow[me] = "none"
      BY <1>4, <2>2 DEF SawRight
    <3> QED BY <1>8, <3>1, <3>2
  <2> QED BY <1>11, <2>1, <2>2 DEF C!Reject
<1> QED BY <1>9, <1>10, <1>11

-----------------------------------------------------------------------------
(* The invariant *)

LEMMA ContactsStart == C!CInit => ContactsInv
<1> SUFFICES ASSUME C!CInit
             PROVE  ContactsInv
  OBVIOUS
<1>1. PICK s \in {"none", "accepted"} : /\ crow = [u \in User |-> s] /\ list = crow
                                        /\ asked = IF s = "none" THEN {} ELSE User
  BY DEF C!CInit
<1>2. /\ version = [u \in User |-> 0] /\ stamps = 0 /\ ccall = [c \in Call |-> C!Free]
      /\ cached = [u \in User |-> C!NoCopy] /\ due = [u \in User |-> 0] /\ online = User
      /\ crossed = FALSE /\ alone = FALSE /\ blind = [u \in User |-> {}]
  BY DEF C!CInit
<1>3. C!NoCopy \in [tag : Int, row : C!Status] /\ C!NoCopy.tag = -1
  BY DEF C!NoCopy, C!Status
<1>4. \A c \in Call : ccall[c] = C!Free /\ ccall[c].op = Nobody /\ Nobody \notin C!Change /\ Nobody # "list"
  BY <1>2, MCAccountsAssumption DEF C!Free
<1>5. ContactTypes
  <2>1. ccall \in Calls
    BY <1>2, FreeRecord DEF Calls, Record
  <2>2. crow \in Rowed /\ list \in [User -> C!Status] /\ asked \subseteq User
    BY <1>1 DEF Rowed, C!Status
  <2>3. cached \in [User -> [tag : Int, row : C!Status]] /\ \A u \in User : cached[u].tag <= stamps /\ version[u] <= stamps
    <3>1. \A u \in User : cached[u] = C!NoCopy /\ version[u] = 0
      BY <1>2
    <3> QED BY <1>2, <1>3, <3>1
  <2>4. /\ version \in [User -> Nat] /\ stamps \in Nat /\ due \in [User -> Nat] /\ online \subseteq User
        /\ crossed \in BOOLEAN /\ alone \in BOOLEAN /\ blind \in [User -> SUBSET Reason]
    BY <1>2
  <2>5. Fields
    BY <2>1, <2>2, <2>3, <2>4 DEF Fields
  <2> QED BY <1>4, <2>5 DEF ContactTypes
<1>6. RowsMend
  <2>1. Agree(crow)
    BY <1>1, Two DEF Agree
  <2> QED BY <1>4, <2>1 DEF RowsMend
<1>7. ASSUME NEW u \in User
      PROVE  Shown(u)
  <2>1. C!Loads(u) = {}
    BY <1>4 DEF C!Loads
  <2>2. cached[u].tag # stamps
    BY <1>2, <1>3
  <2>3. list[u] = C!View(crow[u])
    BY <1>1 DEF C!View
  <2> QED BY <1>2, <2>1, <2>2, <2>3 DEF Shown, Versioned, CopyRight, Settled
<1> QED BY <1>5, <1>6, <1>7 DEF ContactsInv, ListsShown

LEMMA ContactsNext ==
  ASSUME ContactsInv, C!CNext
  PROVE  ContactsInv'
<1>0. ContactTypes /\ RowsMend /\ ListsShown
  BY DEF ContactsInv
<1>1. ASSUME NEW c \in Call, C!RequestWrites(c) \/ C!Accept(c) \/ C!Cancel(c) \/ C!Remove(c)
                             \/ (C!Reject(c) /\ ~C!Hang(c))
      PROVE  ContactsInv'
  <2>1. ContactTypes' /\ ListsShown'
    BY <1>0, <1>1, WriteSteps, WroteKeeps
  <2>2. RowsMend'
    BY <1>0, <1>1, RequestMends, AcceptMends, BreaksMend
  <2> QED BY <2>1, <2>2 DEF ContactsInv
<1>2. ASSUME NEW c \in Call, Rests(c), alone => alone', ccall[c].pc \notin C!Second,
             ccall'[c].op \in C!Change => SawRight(c)'
      PROVE  ContactsInv'
  <2>1. RowsMend'
    BY <1>0, <1>2, RestMends DEF Rests
  <2> QED BY <1>0, <1>2, <2>1, RestsKeeps DEF ContactsInv
<1>3. ASSUME NEW c \in Call, NEW op \in C!Change, NEW u \in User, C!Ask(c, op, u)
      PROVE  ContactsInv'
  <2>1. Rests(c) /\ alone' = alone /\ ccall[c].op = Nobody /\ (ccall'[c].op \in C!Change => ccall'[c].pc = "read")
    BY <1>0, <1>3, AskStep
  <2>2. ccall[c].pc \notin C!Second
    BY <1>0, <2>1, Kinds DEF C!Second
  <2> QED BY <1>2, <2>1, <2>2 DEF SawRight
<1>4. ASSUME NEW c \in Call, C!Read(c)
      PROVE  ContactsInv'
  <2>1. /\ Rests(c) /\ (alone => alone') /\ ccall[c].pc = "read"
        /\ ccall'[c] # C!Free => /\ ccall'[c].pc \in Ahead /\ ccall'[c].me = ccall[c].me
                                 /\ ccall'[c].seen = crow /\ Finds(c)
    BY <1>0, <1>4, ReadStep
  <2>2. ccall'[c].op \in C!Change => ccall'[c] # C!Free
    BY MCAccountsAssumption DEF C!Free
  <2>3. ccall'[c].op \in C!Change => SawRight(c)'
    BY <2>1, <2>2 DEF SawRight, Finds, Ahead
  <2>4. ccall[c].pc \notin C!Second
    BY <2>1 DEF C!Second
  <2> QED BY <1>2, <2>1, <2>3, <2>4
<1>5. ASSUME NEW c \in Call, C!Reject(c), C!Hang(c)
      PROVE  ContactsInv'
  <2>1. ccall' \in Calls /\ Same(c) /\ ccall'[c] = C!Free /\ C!Free.op = Nobody /\ C!Free.pc = "free"
    BY <1>0, <1>5, HangStep, Kinds
  <2>2. ccall[c].op \in C!Change /\ ChangeOK(c) /\ ccall[c].op # "list" /\ ccall[c].me \in User
    BY <1>0, <1>5, Kinds DEF C!Reject, C!Change, ChangeOK
  <2>3. C!Me(c) \in User /\ C!You(c) \in User
    BY <2>2, Two DEF C!Me, C!You
  <2>4. {"none", "rejected"} \subseteq C!Status /\ {"reject2", "push"} \subseteq Stage
    BY DEF C!Status, Stage, C!Second, After
  <2>5. ~C!Put(c, C!Me(c), "none", "reject2") /\ ~C!Update(c, C!You(c), "rejected", "push")
    BY <1>0, <2>1, <2>3, <2>4, PutLeaves DEF Leaves
  <2>6. crow' = crow /\ crossed' = crossed /\ asked' = asked /\ C!Others /\ ccall[c].pc = "read"
    BY <1>5, <2>5 DEF C!Reject
  <2>7. Rests(c)
    BY <1>0, <2>1, <2>2, <2>6, MCAccountsAssumption
    DEF Rests, C!Others, C!Told, C!Writing, C!Second, ContactTypes, Fields
  <2> QED BY <1>2, <2>1, <2>6, <2>7, MCAccountsAssumption DEF C!Others, C!Second
<1>6. ASSUME NEW c \in Call, C!Push(c) \/ C!Bump(c) \/ C!Break(c)
      PROVE  ContactsInv'
  <2>1. ContactTypes' /\ ListsShown'
    BY <1>0, <1>6, PushKeeps, BumpKeeps, BreakKeeps
  <2>2. CASE C!Break(c)
    BY <2>1, <2>2 DEF C!Break, RowsMend, ContactsInv
  <2>3. CASE C!Push(c)
    <3>1. Same(c) /\ ccall'[c].pc = "bump"
      BY <1>0, <2>3 DEF C!Push, Same, ContactTypes, Fields, Calls
    <3>2. SawRight(c)' /\ ccall[c].pc \notin C!Second
      BY <2>3, <3>1 DEF SawRight, C!Push, C!Second
    <3>3. crow' = crow /\ asked' = asked /\ crossed' = crossed /\ (alone => alone')
      BY <2>3 DEF C!Push
    <3>4. RowsMend'
      BY <1>0, <3>1, <3>2, <3>3, RestMends
    <3> QED BY <2>1, <3>4 DEF ContactsInv
  <2>4. CASE C!Bump(c)
    <3>1. Same(c) /\ ccall'[c].op \notin C!Change
      BY <1>0, <2>4, HangStep, Kinds, MCAccountsAssumption DEF C!Bump
    <3>2. crow' = crow /\ asked' = asked /\ crossed' = crossed /\ (alone => alone') /\ ccall[c].pc \notin C!Second
      BY <2>4 DEF C!Bump, C!Second
    <3>3. RowsMend'
      BY <1>0, <3>1, <3>2, RestMends
    <3> QED BY <2>1, <3>3 DEF ContactsInv
  <2> QED BY <1>6, <2>2, <2>3, <2>4
<1>7. ASSUME NEW c \in Call, NEW u \in User, C!Load(c, u)
      PROVE  ContactsInv'
  <2>1. ContactTypes' /\ ListsShown'
    BY <1>0, <1>7, LoadKeeps
  <2>2. Same(c) /\ ccall'[c].op \notin C!Change /\ ccall[c].pc \notin C!Second
    <3>1. ccall[c].op = Nobody
      BY <1>7 DEF C!Load
    <3>2. ccall[c].pc = "free"
      BY <1>0, <3>1, Kinds
    <3>3. ccall'[c].op = "list" /\ Same(c)
      BY <1>0, <1>7 DEF C!Load, C!Free, Same, ContactTypes, Fields, Calls
    <3> QED BY <3>2, <3>3 DEF C!Second, C!Change
  <2>3. crow' = crow /\ asked' = asked /\ crossed' = crossed /\ (alone => alone')
    BY <1>7 DEF C!Load
  <2>4. RowsMend'
    BY <1>0, <2>2, <2>3, RestMends
  <2> QED BY <2>1, <2>4 DEF ContactsInv
<1>8. ASSUME NEW c \in Call, C!ListVersion(c) \/ C!ListRows(c) \/ C!ListShown(c) \/ C!ListFails(c)
      PROVE  ContactsInv'
  <2>1. ContactTypes' /\ ListsShown'
    BY <1>0, <1>8, ListVersionKeeps, ListRowsKeeps, ListShownKeeps, ListFailsKeeps
  <2>2. crow' = crow /\ asked' = asked /\ crossed' = crossed /\ (alone => alone') /\ ccall[c].pc \notin C!Second
    <3>1. ccall[c].op = "list" => ccall[c].pc \notin C!Second
      BY <1>0, Kinds DEF ListOK, C!Second
    <3> QED BY <1>8, <3>1 DEF C!ListVersion, C!ListRows, C!ListShown, C!ListFails, C!Is, C!Second
  <2>3. Same(c) /\ ccall'[c].op \notin C!Change
    <3>1. ccall[c].op = "list" /\ ccall \in [Call -> Record]
      BY <1>0, <1>8 DEF C!ListVersion, C!ListRows, C!ListShown, C!ListFails, C!Is, ContactTypes, Fields, Calls, Record
    <3>2. CASE C!ListVersion(c)
      BY <3>1, <3>2 DEF C!ListVersion, Same, Record, C!Change
    <3>3. CASE C!ListRows(c)
      BY <3>1, <3>3 DEF C!ListRows, Same, Record, C!Change
    <3>4. CASE C!ListShown(c) \/ C!ListFails(c)
      BY <1>0, <3>4, HangStep, Kinds, MCAccountsAssumption DEF C!ListShown, C!ListFails
    <3> QED BY <1>8, <3>2, <3>3, <3>4
  <2>4. RowsMend'
    BY <1>0, <2>2, <2>3, RestMends
  <2> QED BY <2>1, <2>4 DEF ContactsInv
<1>9. ASSUME NEW u \in User, C!Expire(u) \/ C!Resume(u) \/ C!Close(u) \/ C!Open(u)
      PROVE  ContactsInv'
  <2>1. ContactTypes' /\ ListsShown'
    BY <1>0, <1>9, ClientKeeps
  <2>2. crow' = crow /\ asked' = asked /\ crossed' = crossed /\ alone' = alone /\ ccall' = ccall
    BY <1>9 DEF C!Expire, C!Resume, C!Close, C!Open
  <2>3. RowsMend'
    BY <1>0, <2>2 DEF RowsMend, SawRight, Agree, Mends
  <2> QED BY <2>1, <2>3 DEF ContactsInv
<1> QED BY <1>1, <1>3, <1>4, <1>5, <1>6, <1>7, <1>8, <1>9 DEF C!CNext

LEMMA ContactsInvImplies == ContactsInv => C!ContactsAgree /\ C!InboxHasACause
<1> SUFFICES ASSUME ContactsInv, C!Quiet
             PROVE  C!ContactsAgree /\ C!InboxHasACause
  BY DEF C!ContactsAgree, C!InboxHasACause
<1>1. \A c \in Call : ccall[c].op = Nobody /\ ccall[c].pc = "free" /\ Nobody \notin C!Change /\ Nobody # "list"
  BY Kinds, MCAccountsAssumption DEF C!Quiet, ContactsInv
<1>2. C!ContactsAgree
  <2>1. \A c \in Call : ~Mends(c)
    BY <1>1 DEF Mends, C!Second
  <2>2. ~crossed => Agree(crow)
    BY <2>1 DEF ContactsInv, RowsMend
  <2> QED BY <2>2 DEF C!ContactsAgree, Agree
<1>3. ASSUME NEW u \in online, due[u] = 0, blind[u] = {}
      PROVE  list[u] = C!View(crow[u])
  <2>1. Settled(u)
    BY <1>3 DEF ContactsInv, ListsShown, Shown, ContactTypes, Fields
  <2>2. ~Telling(u) /\ C!Loads(u) = {}
    BY <1>1 DEF Telling, C!Loads
  <2> QED BY <1>3, <2>1, <2>2 DEF Settled
<1> QED BY <1>2, <1>3 DEF C!InboxHasACause

\* Two users are contacts of each other or of neither, and only after both asked
\* or agreed, unless two changes crossed, one broke off, or a user agreed to the
\* own request; and a running client comes to show what the server has, unless a
\* reason says why: not told, a push, an answer or a load lost, read too early, or
\* a change broke off (contactRoutes.js, inbox.svelte.js, auth.js).
THEOREM ContactsInOrderHolds == MCSpec => []ContactsInOrder
<1> DEFINE Inv == part = "contacts" => ContactsInv
           Step == AccountsStep \/ ContactsStep \/ AutoDeleteStep \/ DevicesStep \/ NoticesStep
<1>1. MCInit => Inv
  <2>1. MCInit /\ part = "contacts" => C!CInit
    BY DEF MCInit
  <2> QED BY <2>1, ContactsStart
<1>2. Inv /\ [Step]_<<part, accounts, contacts, autoDelete, devices, notices>> => Inv'
  <2> SUFFICES ASSUME Inv, [Step]_<<part, accounts, contacts, autoDelete, devices, notices>>, part' = "contacts"
               PROVE  ContactsInv'
    OBVIOUS
  <2>1. part' = part /\ ContactsInv
    BY DEF AccountsStep, ContactsStep, AutoDeleteStep, DevicesStep, NoticesStep
  <2>2. CASE ContactsStep
    BY <2>1, <2>2, ContactsNext DEF ContactsStep
  <2>3. CASE UNCHANGED contacts
    <3>1. /\ crow' = crow /\ version' = version /\ stamps' = stamps /\ ccall' = ccall /\ list' = list
          /\ cached' = cached /\ due' = due /\ online' = online /\ asked' = asked /\ crossed' = crossed
          /\ alone' = alone /\ blind' = blind
      BY <2>3 DEF contacts
    <3>2. ContactTypes'
      BY <2>1, <3>1 DEF ContactsInv, ContactTypes, Fields, ChangeOK, ListOK
    <3>3. RowsMend'
      BY <2>1, <3>1 DEF ContactsInv, RowsMend, SawRight, Agree, Mends
    <3>4. ListsShown'
      <4>1. \A u \in User : Aside(u)
        BY <3>1 DEF Aside, Changes, Telling, WillTell, C!Writing
      <4> QED BY <2>1, <4>1, AsideKeeps DEF ContactsInv, ListsShown
    <3> QED BY <3>2, <3>3, <3>4 DEF ContactsInv
  <2> QED BY <2>1, <2>2, <2>3 DEF AccountsStep, ContactsStep, AutoDeleteStep, DevicesStep, NoticesStep
<1>3. Inv => ContactsInOrder
  BY ContactsInvImplies DEF ContactsInOrder
<1> QED BY <1>1, <1>2, <1>3, PTL DEF MCSpec, MCNext

-----------------------------------------------------------------------------
(***************************************************************************)
(* AutoDelete: AutoDeleteInOrder, for any number of requests, pushes and   *)
(* sweeps.                                                                 *)
(*                                                                         *)
(* A request that will write has read the row as it is, one that will tell *)
(* announces it, and so does a load that will be shown (CallsRight,        *)
(* CopyComes). The second of two requests that overlap can break this only *)
(* while the first has yet to tell, which then finds the second under way  *)
(* and gives every copy its reason.                                        *)
(***************************************************************************)
Ops == {"propose", "accept", "decline", "set"}
Settings == [status : {"off", "pending", "active"}, days : Nat, orig : Nat, by : Side \cup {Nobody}]
Views == [status : {"unread", "off", "pending", "active"}, days : Nat, by : Side \cup {Nobody}]
Gone(r) == r.status = "off" => r = A!NoRow

Gaps == {"Overlap", "NotTold", "Loading", "BrokeOff"}
Chats ==
  /\ kind \in {"dm", "group"} /\ arow \in Settings /\ Gone(arow)
  /\ screen \in [Side -> Views] /\ pushes \in [Side -> Seq(Views)]
  /\ loading \in [Side -> Views \cup {A!NoLoad}]
  /\ acall \in [Side -> [op : Ops \cup {Nobody}, pc : {"free", "read", "write", "tell", "answer"},
                         days : Nat, seen : Settings]]
  /\ age \in Int /\ age >= -1 /\ file \in BOOLEAN /\ stirred \in BOOLEAN
  /\ sweep \in [pc : {"idle", "files", "rows", "capFiles", "capRows"}, days : Nat]
  /\ consent \in [Side -> SUBSET Nat]
  /\ awhy \subseteq {"ScreenBehind", "ProposedTwice", "Overlap"}
  /\ behind \in [Side -> SUBSET Gaps]

AskedOK(u) ==
  LET q == acall[u] IN
  /\ q.op = Nobody <=> q.pc = "free"
  /\ q.op # Nobody => (q.op = "set" <=> kind = "group")
  /\ Gone(q.seen)
  /\ q.op = "accept" /\ q.pc # "read" => q.seen.status = "pending"
ChatTypes == Chats /\ (kind = "group" => arow.status # "pending") /\ \A u \in Side : AskedOK(u)

\* The setting, and the one a decline brings back, were agreed to.
Meant(u) ==
  LET q == acall[u] IN
  q.pc = "write" =>
    /\ q.op \in {"accept", "decline"} => q.seen.status = "pending" /\ q.seen.days = q.days
    /\ q.op = "propose" => q.seen.status # "pending"
Agreed ==
  awhy = {} =>
    /\ \A u \in Side : Meant(u)
    /\ arow.status # "pending" => \A u \in Side : arow.days \in consent[u]
    /\ arow.status = "pending" => \A u \in Side : arow.orig \in consent[u]

\* A request that will write has read the row as it is, and one that will tell
\* announces it, unless the other one tells as well.
CallsRight ==
  \A u \in Side :
    acall[A!Other(u)].pc # "tell" =>
      /\ acall[u].pc = "write" => acall[u].seen = arow
      /\ acall[u].pc = "tell" => A!Announced(u) = A!View(arow)

\* What u shows once the pushes on their way have come.
Coming(u) == IF pushes[u] = <<>> THEN screen[u] ELSE pushes[u][Len(pushes[u])]
CopyComes(u) ==
  LET v == A!Other(u) IN
  /\ \/ Coming(u).status = "unread" \/ Coming(u) = A!View(arow)
     \/ acall[u].pc \in {"tell", "answer"} \/ acall[v].pc = "tell"
  /\ acall[u].pc = "answer" => A!Announced(u) = A!View(arow) \/ acall[v].pc = "tell"
  /\ loading[u] # A!NoLoad => loading[u] = A!View(arow)
CopiesRight == \A u \in Side : behind[u] = {} => CallsRight /\ CopyComes(u)

\* The sweep, as long as the setting stays what it read.
SweepRight ==
  ~stirred =>
    /\ sweep.pc = "rows" => (file <=> age >= 0 /\ ~A!TooOld)
    /\ sweep.pc = "capRows" => (file <=> age >= 0 /\ ~A!Capped)
    /\ sweep.pc \notin {"rows", "capRows"} => A!Together

AutoDeleteInv == ChatTypes /\ Agreed /\ CopiesRight /\ SweepRight

-----------------------------------------------------------------------------
(* AutoDelete: the operators *)

\* The two sides of a conversation.
LEMMA TwoSides ==
  ASSUME NEW u \in Side
  PROVE  /\ A!Other(u) \in Side /\ A!Other(u) # u /\ A!Other(A!Other(u)) = u
         /\ \A v \in Side : v = u \/ v = A!Other(u)
<1>1. PICK a \in Side, b \in Side : a # b /\ Side = {a, b}
  BY AutoDeleteAssumption
<1>2. \A w \in Side : \E v \in Side : v # w
  BY <1>1
<1>3. \A w \in Side : A!Other(w) \in Side /\ A!Other(w) # w
  BY <1>2 DEF A!Other
<1> QED BY <1>1, <1>3

\* Requests and what they announce.
LEMMA Announcing ==
  ASSUME ChatTypes, NEW u \in Side
  PROVE  /\ acall[u].op = Nobody <=> acall[u].pc = "free"
         /\ acall[u].op # Nobody => acall[u].op \in Ops
         /\ acall[u].days \in Nat /\ acall[u].seen \in Settings
         /\ acall[u].op # Nobody => A!Announced(u) \in Views
<1>1. /\ acall[u].op = Nobody <=> acall[u].pc = "free"
      /\ acall[u].op \in Ops \cup {Nobody} /\ acall[u].days \in Nat /\ acall[u].seen \in Settings
  BY DEF ChatTypes, Chats, AskedOK
<1>2. ASSUME acall[u].op \in Ops
      PROVE  A!Announced(u) \in Views
  BY <1>1, <1>2 DEF A!Announced, Ops, Views, Settings
<1> QED BY <1>1, <1>2

LEMMA AnnouncedSame ==
  ASSUME NEW u \in Side, acall'[u].op = acall[u].op, acall'[u].days = acall[u].days, acall'[u].seen = acall[u].seen
  PROVE  A!Announced(u)' = A!Announced(u)
  BY DEF A!Announced

LEMMA ViewTyped ==
  ASSUME ChatTypes
  PROVE  A!View(arow) \in Views
  BY DEF ChatTypes, Chats, A!View, Settings, Views

\* What a request writes.
LEMMA WrittenTyped ==
  ASSUME ChatTypes, NEW u \in Side, acall[u].pc = "write"
  PROVE  A!Written(u) \in Settings /\ Gone(A!Written(u)) /\ (kind = "group" => A!Written(u).status # "pending")
<1>1. /\ arow \in Settings /\ Gone(arow) /\ (kind = "group" => arow.status # "pending")
      /\ acall[u].days \in Nat /\ acall[u].seen \in Settings /\ acall[u].op \in Ops
      /\ (acall[u].op = "set" <=> kind = "group")
  BY Announcing DEF ChatTypes, Chats, AskedOK
<1>2. A!NoRow \in Settings /\ Gone(A!NoRow) /\ A!NoRow.status # "pending"
  BY DEF A!NoRow, Settings, Gone
<1>3. CASE acall[u].op = "propose"
  BY <1>1, <1>3 DEF A!Written, A!Original, Settings, Gone
<1>4. CASE acall[u].op = "accept"
  BY <1>1, <1>2, <1>4 DEF A!Written, A!Existing, Settings, Gone
<1>5. CASE acall[u].op = "decline"
  BY <1>1, <1>2, <1>5 DEF A!Written, A!Existing, Settings, Gone
<1>6. CASE acall[u].op = "set"
  BY <1>1, <1>2, <1>6 DEF A!Written, Settings, Gone
<1> QED BY <1>1, <1>3, <1>4, <1>5, <1>6 DEF Ops

\* A request that read the row as it is announces what it writes.
LEMMA WrittenShown ==
  ASSUME ChatTypes, NEW u \in Side, acall[u].pc = "write", acall[u].seen = arow
  PROVE  A!View(A!Written(u)) = A!Announced(u)
<1>1. /\ arow \in Settings /\ Gone(arow) /\ acall[u].days \in Nat /\ acall[u].op \in Ops
      /\ acall[u].op = "accept" => arow.status = "pending"
  BY Announcing DEF ChatTypes, Chats, AskedOK
<1>2. A!NoRow.status = "off" /\ A!NoRow.days = 0 /\ A!NoRow.orig = 0
  BY DEF A!NoRow
<1>3. CASE acall[u].op = "propose"
  BY <1>1, <1>3 DEF A!Written, A!Announced, A!View
<1>4. CASE acall[u].op = "accept"
  BY <1>1, <1>2, <1>4 DEF A!Written, A!Announced, A!View, A!Existing, Settings
<1>5. CASE acall[u].op = "decline"
  BY <1>1, <1>2, <1>5 DEF A!Written, A!Announced, A!View, A!Existing, Settings, Gone
<1>6. CASE acall[u].op = "set"
  BY <1>1, <1>2, <1>6 DEF A!Written, A!Announced, A!View
<1> QED BY <1>1, <1>3, <1>4, <1>5, <1>6 DEF Ops

-----------------------------------------------------------------------------
(* AutoDelete: what a step does to the requests *)

RequestRecord == [op : Ops \cup {Nobody}, pc : {"free", "read", "write", "tell", "answer"}, days : Nat, seen : Settings]

\* A step that is about the request of u.
Moved(u) == acall' = [acall EXCEPT ![u] = acall'[u]]

LEMMA FreeTyped == A!Free \in RequestRecord /\ A!Free.op = Nobody /\ A!Free.pc = "free" /\ Gone(A!Free.seen)
  BY DEF A!Free, A!NoRow, RequestRecord, Settings, Gone, Ops

LEMMA AskMoves ==
  ASSUME ChatTypes, NEW u \in Side, NEW op \in Ops, NEW d \in {0} \cup Days, A!Ask(u, op, d)
  PROVE  /\ acall[u].pc = "free" /\ Moved(u) /\ acall'[u] \in RequestRecord
         /\ acall'[u].op = op /\ acall'[u].pc = "read" /\ Gone(acall'[u].seen)
         /\ op = "set" <=> kind = "group"
<1>1. acall[u].op = Nobody /\ acall' = [acall EXCEPT ![u] = [A!Free EXCEPT !.op = op, !.pc = "read", !.days = d]]
  BY DEF A!Ask
<1>2. acall[u].pc = "free"
  BY <1>1, Announcing
<1>3. d \in Nat
  BY AutoDeleteAssumption
<1>4. acall'[u] = [A!Free EXCEPT !.op = op, !.pc = "read", !.days = d]
  BY <1>1 DEF ChatTypes, Chats
<1>5. op = "set" <=> kind = "group"
  BY DEF A!Ask, Ops, ChatTypes, Chats
<1>6. acall'[u] \in RequestRecord /\ acall'[u].op = op /\ acall'[u].pc = "read" /\ Gone(acall'[u].seen)
  BY <1>3, <1>4, FreeTyped DEF RequestRecord, A!Free
<1> QED BY <1>1, <1>2, <1>4, <1>5, <1>6 DEF Moved

\* What the other side's request and the history of u are after a step about u.
LEMMA MovedTypes ==
  ASSUME ChatTypes, NEW u \in Side, Moved(u), acall'[u] \in RequestRecord
  PROVE  /\ acall' \in [Side -> RequestRecord]
         /\ \A v \in Side : v # u => acall'[v] = acall[v]
         /\ kind' = kind /\ AskedOK(u)' => \A v \in Side : AskedOK(v)'
<1>1. acall \in [Side -> RequestRecord]
  BY DEF ChatTypes, Chats, RequestRecord
<1>2. acall' \in [Side -> RequestRecord] /\ \A v \in Side : v # u => acall'[v] = acall[v]
  BY <1>1 DEF Moved
<1>3. \A v \in Side : v # u /\ kind' = kind => AskedOK(v)'
  BY <1>2 DEF AskedOK, ChatTypes
<1> QED BY <1>2, <1>3

LEMMA HangMoves ==
  ASSUME ChatTypes, NEW u \in Side, A!Hang(u)
  PROVE  Moved(u) /\ acall'[u] = A!Free
  BY DEF A!Hang, Moved, ChatTypes, Chats

\* A read ends the request or takes the row.
LEMMA ReadMoves ==
  ASSUME ChatTypes, NEW u \in Side, A!Read(u)
  PROVE  /\ Moved(u) /\ acall[u].pc = "read"
         /\ \/ acall'[u] = A!Free
            \/ /\ acall'[u].pc = "write" /\ acall'[u].seen = arow /\ acall'[u] \in RequestRecord
               /\ acall'[u].op = acall[u].op /\ acall'[u].days = acall[u].days
               /\ acall[u].op = "accept" => arow.status = "pending"
<1>1. CASE A!Hang(u)
  BY <1>1, HangMoves DEF A!Read
<1>2. CASE ~A!Hang(u)
  <2>1. /\ acall[u].pc = "read" /\ (acall[u].op = "accept" => arow.status = "pending")
        /\ acall' = [acall EXCEPT ![u].pc = "write", ![u].seen = arow]
    BY <1>2 DEF A!Read
  <2>2. acall[u] \in RequestRecord /\ arow \in Settings
    BY DEF ChatTypes, Chats, RequestRecord
  <2>3. acall' = [acall EXCEPT ![u] = [acall[u] EXCEPT !.pc = "write", !.seen = arow]]
    BY <2>1 DEF ChatTypes, Chats
  <2>4. acall'[u] = [acall[u] EXCEPT !.pc = "write", !.seen = arow]
    BY <2>3 DEF ChatTypes, Chats
  <2>5. /\ acall'[u] \in RequestRecord /\ acall'[u].pc = "write" /\ acall'[u].seen = arow
        /\ acall'[u].op = acall[u].op /\ acall'[u].days = acall[u].days
    BY <2>2, <2>4 DEF RequestRecord
  <2> QED BY <2>1, <2>3, <2>4, <2>5 DEF Moved
<1> QED BY <1>1, <1>2

\* A step that only moves the request to its next stage.
LEMMA StageMoves ==
  ASSUME ChatTypes, NEW u \in Side, NEW pc \in {"tell", "answer"}, acall' = [acall EXCEPT ![u].pc = pc]
  PROVE  /\ Moved(u) /\ acall'[u] \in RequestRecord /\ acall'[u].pc = pc
         /\ acall'[u].op = acall[u].op /\ acall'[u].days = acall[u].days /\ acall'[u].seen = acall[u].seen
         /\ A!Announced(u)' = A!Announced(u)
<1>1. acall[u] \in RequestRecord /\ acall'[u] = [acall[u] EXCEPT !.pc = pc] /\ Moved(u)
  BY DEF ChatTypes, Chats, RequestRecord, Moved
<1>2. /\ acall'[u] \in RequestRecord /\ acall'[u].pc = pc
      /\ acall'[u].op = acall[u].op /\ acall'[u].days = acall[u].days /\ acall'[u].seen = acall[u].seen
  BY <1>1 DEF RequestRecord
<1> QED BY <1>1, <1>2, AnnouncedSame

-----------------------------------------------------------------------------
(* AutoDelete: what the steps keep *)

\* The stages of a request that count for the copies.
LEMMA EnterCopies ==
  ASSUME ChatTypes, CopiesRight, NEW u \in Side, Moved(u), acall[u].pc \in {"free", "read", "write"},
         acall'[u].pc \in {"free", "read"} \/ (acall'[u].pc = "write" /\ acall'[u].seen = arow),
         arow' = arow, screen' = screen, pushes' = pushes, behind' = behind, loading' = loading
  PROVE  CopiesRight'
<1>0. \A v \in Side : v # u => acall'[v] = acall[v]
  BY DEF Moved, ChatTypes, Chats
<1> SUFFICES ASSUME NEW v \in Side, behind[v] = {}
             PROVE  CallsRight' /\ CopyComes(v)'
  BY DEF CopiesRight
<1>2. CallsRight /\ CopyComes(v)
  BY DEF CopiesRight
<1>3. CallsRight'
  <2>1. \A w \in Side : w # u => A!Announced(w)' = A!Announced(w)
    BY <1>0, AnnouncedSame
  <2>2. A!View(arow)' = A!View(arow)
    BY DEF A!View
  <2>3. ASSUME NEW w \in Side, acall'[A!Other(w)].pc # "tell"
        PROVE  /\ acall'[w].pc = "write" => acall'[w].seen = arow'
               /\ acall'[w].pc = "tell" => A!Announced(w)' = A!View(arow)'
    <3>1. A!Other(w) \in Side /\ (acall[A!Other(w)].pc = "tell" => A!Other(w) # u)
      BY TwoSides
    <3>2. acall[A!Other(w)].pc # "tell"
      BY <1>0, <2>3, <3>1
    <3> QED BY <1>0, <1>2, <2>1, <2>2, <3>2 DEF CallsRight
  <2> QED BY <2>3 DEF CallsRight
<1>4. CopyComes(v)'
  <2>1. Coming(v)' = Coming(v) /\ A!View(arow)' = A!View(arow)
    BY DEF Coming, A!View
  <2>2. A!Other(v) \in Side /\ A!Other(v)' = A!Other(v)
    BY TwoSides
  <2>3. v # u => A!Announced(v)' = A!Announced(v)
    BY <1>0, AnnouncedSame
  <2>4. /\ acall'[v].pc = "answer" => acall[v].pc = "answer" /\ v # u
        /\ acall[v].pc \in {"tell", "answer"} => acall'[v].pc = acall[v].pc
        /\ acall[A!Other(v)].pc = "tell" => acall'[A!Other(v)].pc = "tell"
    BY <1>0, <2>2
  <2> QED BY <1>2, <2>1, <2>2, <2>3, <2>4 DEF CopyComes
<1> QED BY <1>3, <1>4

LEMMA WriteCopies ==
  ASSUME ChatTypes, CopiesRight, NEW u \in Side, A!WriteRow(u)
  PROVE  CopiesRight'
<1>0. /\ acall[u].pc = "write" /\ Moved(u) /\ acall'[u].pc = "tell" /\ A!Announced(u)' = A!Announced(u)
      /\ arow' = A!Written(u) /\ screen' = screen /\ pushes' = pushes /\ loading' = loading
      /\ \A v \in Side : v # u => acall'[v] = acall[v]
  BY StageMoves DEF A!WriteRow, A!Write, Moved, ChatTypes, Chats
<1> SUFFICES ASSUME NEW v \in Side, behind'[v] = {}
             PROVE  CallsRight' /\ CopyComes(v)'
  BY DEF CopiesRight
<1>1. behind[v] = {} /\ loading[v] = A!NoLoad
  BY DEF A!WriteRow
<1>2. CallsRight /\ CopyComes(v)
  BY <1>1 DEF CopiesRight
<1>3. A!Other(u) \in Side /\ A!Other(u) # u /\ A!Other(A!Other(u)) = u /\ \A x \in Side : x = u \/ x = A!Other(u)
  BY TwoSides
<1>4. acall[A!Other(u)].pc # "tell" => A!View(arow)' = A!Announced(u)
  BY <1>0, <1>2, WrittenShown DEF CallsRight
<1>5. CallsRight'
  <2> SUFFICES ASSUME NEW w \in Side, acall'[A!Other(w)].pc # "tell"
               PROVE  /\ acall'[w].pc = "write" => acall'[w].seen = arow'
                      /\ acall'[w].pc = "tell" => A!Announced(w)' = A!View(arow)'
    BY DEF CallsRight
  <2>1. w = u
    BY <1>0, <1>3
  <2>2. acall[A!Other(u)].pc # "tell"
    BY <1>0, <1>3, <2>1
  <2> QED BY <1>0, <1>4, <2>1, <2>2
<1>6. CopyComes(v)'
  <2>1. v = u \/ A!Other(v) = u
    BY <1>3
  <2>2. acall'[v].pc = "answer" => v # u
    BY <1>0
  <2> QED BY <1>0, <1>1, <2>1, <2>2 DEF CopyComes
<1> QED BY <1>5, <1>6

LEMMA TellCopies ==
  ASSUME ChatTypes, CopiesRight, NEW u \in Side, A!TellPeer(u)
  PROVE  CopiesRight'
<1> DEFINE v == A!Other(u)
<1>0. v \in Side /\ v # u /\ A!Other(v) = u /\ \A x \in Side : x = u \/ x = v
  BY TwoSides
<1>1. /\ acall[u].pc = "tell" /\ acall'[u].pc = "answer" /\ A!Announced(u)' = A!Announced(u)
      /\ acall'[v] = acall[v] /\ arow' = arow /\ screen' = screen /\ loading' = loading
  BY <1>0, StageMoves DEF A!TellPeer, Moved, ChatTypes, Chats
<1>2. CASE acall[v].op # Nobody
  <2>1. \A x \in Side : behind'[x] # {}
    BY <1>2 DEF A!TellPeer, A!Tell
  <2> QED BY <2>1 DEF CopiesRight
<1>3. CASE acall[v].op = Nobody
  <2>1. acall[v].pc = "free" /\ behind' = behind
    <3>1. behind' = [x \in Side |-> behind[x]]
      BY <1>3 DEF A!TellPeer, A!Tell
    <3> QED BY <1>0, <1>3, <3>1, Announcing DEF ChatTypes, Chats
  <2> SUFFICES ASSUME NEW x \in Side, behind[x] = {}
               PROVE  CallsRight' /\ CopyComes(x)'
    BY <2>1 DEF CopiesRight
  <2>3. CallsRight /\ CopyComes(x)
    BY DEF CopiesRight
  <2>4. A!Announced(u)' = A!View(arow) /\ A!View(arow)' = A!View(arow)
    BY <1>0, <1>1, <2>1, <2>3 DEF CallsRight, A!View
  <2>5. CallsRight'
    BY <1>0, <1>1, <2>1 DEF CallsRight
  <2>6. CASE x = u
    BY <1>1, <2>3, <2>4, <2>5, <2>6 DEF CopyComes, A!Announced
  <2>7. CASE x = v
    <3>1. v \in IF kind = "group" THEN Side ELSE {A!Other(u)}
      BY <1>0
    <3>2. pushes'[v] = Append(pushes[v], A!Announced(u))
      BY <1>0, <3>1 DEF A!TellPeer, A!Tell
    <3>3. pushes[v] \in Seq(Views) /\ A!Announced(u) \in Views
      BY <1>0, <1>1, Announcing DEF ChatTypes, Chats
    <3>4. pushes'[v] # <<>> /\ pushes'[v][Len(pushes'[v])] = A!Announced(u)
      BY <3>2, <3>3
    <3>5. Coming(v)' = A!Announced(u)
      BY <3>4 DEF Coming
    <3>6. acall'[v].pc # "answer"
      BY <1>1, <2>1
    <3>7. A!Announced(u) = A!View(arow)
      BY <1>1, <2>4
    <3> QED BY <1>0, <1>1, <2>3, <2>4, <2>5, <2>7, <3>5, <3>6, <3>7 DEF CopyComes, Coming
  <2> QED BY <1>0, <2>5, <2>6, <2>7
<1> QED BY <1>2, <1>3

LEMMA AnswerCopies ==
  ASSUME ChatTypes, CopiesRight, NEW u \in Side, A!Answer(u)
  PROVE  CopiesRight'
<1> DEFINE v == A!Other(u)
<1>0. v \in Side /\ v # u /\ A!Other(v) = u /\ \A x \in Side : x = u \/ x = v
  BY TwoSides
<1>1. /\ acall[u].pc = "answer" /\ acall'[u].pc = "free"
      /\ acall'[v] = acall[v] /\ arow' = arow /\ pushes' = pushes /\ loading' = loading
  BY <1>0, HangMoves, FreeTyped DEF A!Answer, Moved, ChatTypes, Chats
<1>2. screen'[u] = A!Announced(u) /\ screen'[v] = screen[v]
  BY <1>0 DEF A!Answer, A!Shows, ChatTypes, Chats
<1>4. /\ behind'[v] = behind[v]
      /\ behind'[u] = {} => behind[u] = {} /\ pushes[u] = <<>>
  BY <1>0 DEF A!Answer, ChatTypes, Chats
<1> SUFFICES ASSUME NEW x \in Side, behind'[x] = {}
             PROVE  CallsRight' /\ CopyComes(x)'
  BY DEF CopiesRight
<1>5. CallsRight /\ CopyComes(x)
  BY <1>0, <1>4 DEF CopiesRight
<1>6. A!Announced(v)' = A!Announced(v) /\ A!View(arow)' = A!View(arow)
  BY <1>0, <1>1, AnnouncedSame DEF A!View
<1>7. CallsRight'
  BY <1>0, <1>1, <1>5, <1>6 DEF CallsRight
<1>8. CASE x = u
  <2>1. pushes[u] = <<>> /\ Coming(u)' = A!Announced(u)
    BY <1>1, <1>2, <1>4, <1>8 DEF Coming
  <2>2. A!Announced(u) = A!View(arow) \/ acall[v].pc = "tell"
    BY <1>1, <1>5, <1>8 DEF CopyComes
  <2> QED BY <1>1, <1>5, <1>6, <1>7, <1>8, <2>1, <2>2 DEF CopyComes, Coming
<1>9. CASE x = v
  <2>1. Coming(v)' = Coming(v)
    BY <1>1, <1>2 DEF Coming
  <2> QED BY <1>0, <1>1, <1>5, <1>6, <1>7, <1>9, <2>1 DEF CopyComes, Coming, A!Announced
<1> QED BY <1>0, <1>7, <1>8, <1>9

\* A request that breaks off after its write leaves a reason.
LEMMA BreakCopies ==
  ASSUME ChatTypes, CopiesRight, NEW u \in Side, A!Break(u)
  PROVE  CopiesRight'
<1> DEFINE v == A!Other(u)
<1>0. v \in Side /\ v # u /\ A!Other(v) = u /\ \A x \in Side : x = u \/ x = v
  BY TwoSides
<1>1. /\ Moved(u) /\ acall'[u] = A!Free /\ acall'[u].pc = "free" /\ acall'[v] = acall[v]
      /\ arow' = arow /\ screen' = screen /\ pushes' = pushes /\ loading' = loading
  BY <1>0, HangMoves, FreeTyped DEF A!Break, Moved, ChatTypes, Chats
<1>2. CASE acall[u].pc \in {"read", "write"}
  <2>1. behind' = behind
    BY <1>2 DEF A!Break
  <2> QED BY <1>1, <1>2, <2>1, EnterCopies
<1>3. CASE acall[u].pc = "tell"
  <2>1. \A x \in Side : behind'[x] # {}
    BY <1>3 DEF A!Break
  <2> QED BY <2>1 DEF CopiesRight
<1>4. CASE acall[u].pc = "answer"
  <2>1. behind'[u] # {} /\ behind'[v] = behind[v]
    BY <1>0, <1>4 DEF A!Break, ChatTypes, Chats
  <2> SUFFICES ASSUME behind[v] = {}
               PROVE  CallsRight' /\ CopyComes(v)'
    BY <1>0, <2>1 DEF CopiesRight
  <2>2. CallsRight /\ CopyComes(v)
    BY <1>0 DEF CopiesRight
  <2>3. A!Announced(v)' = A!Announced(v) /\ A!View(arow)' = A!View(arow) /\ Coming(v)' = Coming(v)
    BY <1>0, <1>1, AnnouncedSame DEF A!View, Coming
  <2>4. CallsRight'
    BY <1>0, <1>1, <1>4, <2>2, <2>3 DEF CallsRight
  <2> QED BY <1>0, <1>1, <1>4, <2>2, <2>3, <2>4 DEF CopyComes
<1> QED BY <1>2, <1>3, <1>4 DEF A!Break, ChatTypes, Chats

\* A step that shows the client of u something, or tells it nothing.
ShownTo(u) ==
  /\ arow' = arow /\ acall' = acall
  /\ \A v \in Side : v # u => /\ screen'[v] = screen[v] /\ pushes'[v] = pushes[v] /\ behind'[v] = behind[v]
                              /\ loading'[v] = loading[v]

LEMMA ShownCopies ==
  ASSUME ChatTypes, CopiesRight, NEW u \in Side, ShownTo(u),
         behind'[u] = {} => /\ \/ (behind[u] = {} /\ Coming(u)' = Coming(u))
                               \/ ((A!Quiet \/ behind[u] = {}) /\ Coming(u)' = A!View(arow))
                            /\ \/ loading'[u] = A!NoLoad \/ loading'[u] = A!View(arow)
                               \/ (behind[u] = {} /\ loading'[u] = loading[u])
  PROVE  CopiesRight'
<1> SUFFICES ASSUME NEW x \in Side, behind'[x] = {}
             PROVE  CallsRight' /\ CopyComes(x)'
  BY DEF CopiesRight, ShownTo
<1>1. \A v \in Side : A!Announced(v)' = A!Announced(v)
  BY AnnouncedSame DEF ShownTo
<1>2. A!View(arow)' = A!View(arow) /\ acall' = acall /\ arow' = arow
  BY DEF A!View, ShownTo
<1>3. CallsRight => CallsRight'
  BY <1>1, <1>2 DEF CallsRight
<1>6. x # u => behind[x] = {} /\ Coming(x)' = Coming(x) /\ loading'[x] = loading[x]
  BY DEF ShownTo, Coming
<1>4. CASE behind[x] = {}
  <2>1. CallsRight /\ CopyComes(x)
    BY <1>4 DEF CopiesRight
  <2>2. Coming(x)' = Coming(x) \/ Coming(x)' = A!View(arow)
    BY <1>6
  <2>3. loading'[x] # A!NoLoad => loading'[x] = A!View(arow)
    BY <1>6, <2>1 DEF CopyComes
  <2> QED BY <1>1, <1>2, <1>3, <2>1, <2>2, <2>3 DEF CopyComes
<1>5. CASE x = u /\ A!Quiet /\ Coming(x)' = A!View(arow) /\ behind[x] # {}
  <2>1. \A v \in Side : acall[v].pc = "free"
    BY <1>5, Announcing DEF A!Quiet
  <2>2. CallsRight
    BY <2>1 DEF CallsRight
  <2> QED BY <1>2, <1>3, <1>5, <2>1, <2>2 DEF CopyComes
<1> QED BY <1>4, <1>5, <1>6

LEMMA LastOfTail ==
  ASSUME NEW S, NEW s \in Seq(S), s # <<>>
  PROVE  /\ Len(s) = 1 => Tail(s) = <<>> /\ Head(s) = s[Len(s)]
         /\ Len(s) # 1 => Tail(s) # <<>> /\ Tail(s)[Len(Tail(s))] = s[Len(s)]
<1>1. Len(s) \in Nat /\ Len(s) > 0
  OBVIOUS
<1>2. Tail(s) \in Seq(S) /\ Len(Tail(s)) = Len(s) - 1
  BY <1>1
<1>3. ASSUME Len(s) # 1
      PROVE  Tail(s) # <<>> /\ Tail(s)[Len(Tail(s))] = s[Len(s)]
  <2>1. Len(s) - 1 \in 1..Len(Tail(s)) /\ Tail(s)[Len(s) - 1] = s[Len(s) - 1 + 1]
    BY <1>1, <1>2, <1>3
  <2>2. Len(s) - 1 + 1 = Len(s)
    BY <1>1
  <2>3. Tail(s)[Len(Tail(s))] = s[Len(s)]
    BY <1>2, <2>1, <2>2
  <2>4. Len(<<>>) = 0 /\ Len(Tail(s)) # 0
    BY <1>1, <1>2, <1>3
  <2> QED BY <2>3, <2>4
<1>4. ASSUME Len(s) = 1
      PROVE  Tail(s) = <<>>
  <2>1. Len(Tail(s)) = 0
    BY <1>2, <1>4
  <2> QED BY <1>2, <2>1, EmptySeq
<1>5. Len(s) = 1 => Head(s) = s[Len(s)]
  OBVIOUS
<1> QED BY <1>3, <1>4, <1>5

LoadStep(u) == A!LoadRead(u) \/ A!LoadShown(u) \/ A!LoadFails(u)

LEMMA ReceiveCopies ==
  ASSUME ChatTypes, CopiesRight, NEW u \in Side, A!Receive(u) \/ A!Lose(u) \/ LoadStep(u)
  PROVE  CopiesRight'
<1>1. ShownTo(u)
  BY DEF A!Receive, A!Lose, LoadStep, A!LoadRead, A!LoadShown, A!LoadFails, A!Shows, A!Quiet, ShownTo, ChatTypes, Chats
<1>2. CASE A!Receive(u)
  <2>1. /\ pushes[u] \in Seq(Views) /\ pushes[u] # <<>> /\ behind' = behind /\ loading' = loading
        /\ pushes'[u] = Tail(pushes[u]) /\ screen'[u] = Head(pushes[u])
    BY <1>2 DEF A!Receive, A!Shows, ChatTypes, Chats
  <2>2. CASE Len(pushes[u]) = 1
    <3>1. pushes'[u] = <<>> /\ screen'[u] = pushes[u][Len(pushes[u])]
      BY <2>1, <2>2, LastOfTail
    <3> QED BY <1>1, <2>1, <3>1, ShownCopies DEF Coming
  <2>3. CASE Len(pushes[u]) # 1
    <3>1. pushes'[u] # <<>> /\ pushes'[u][Len(pushes'[u])] = pushes[u][Len(pushes[u])]
      BY <2>1, <2>3, LastOfTail
    <3> QED BY <1>1, <2>1, <3>1, ShownCopies DEF Coming
  <2> QED BY <2>2, <2>3
<1>3. CASE A!Lose(u)
  <2>1. behind'[u] # {}
    BY <1>3 DEF A!Lose, ChatTypes, Chats
  <2> QED BY <1>1, <2>1, ShownCopies
<1>4. CASE A!LoadRead(u)
  <2>1. behind' = behind /\ Coming(u)' = Coming(u) /\ loading'[u] = A!View(arow)
    BY <1>4 DEF A!LoadRead, Coming, ChatTypes, Chats
  <2> QED BY <1>1, <2>1, ShownCopies
<1>5. CASE A!LoadShown(u)
  <2>1. /\ loading[u] # A!NoLoad /\ loading'[u] = A!NoLoad
        /\ screen'[u] = loading[u] /\ pushes' = pushes
    BY <1>5 DEF A!LoadShown, A!Shows, ChatTypes, Chats
  <2>2. behind'[u] = {} => behind[u] = {} \/ (A!Quiet /\ loading[u] = A!View(arow))
    BY <1>5 DEF A!LoadShown
  <2>3. behind[u] = {} => loading[u] = A!View(arow)
    BY <2>1 DEF CopiesRight, CopyComes
  <2>4. loading[u] = A!View(arow) => Coming(u)' = Coming(u) \/ Coming(u)' = A!View(arow)
    BY <2>1 DEF Coming
  <2>5. A!Quiet /\ loading[u] = A!View(arow) => Coming(u)' = A!View(arow)
    BY <2>1 DEF Coming, A!Quiet
  <2> QED BY <1>1, <2>1, <2>2, <2>3, <2>4, <2>5, ShownCopies
<1>6. CASE A!LoadFails(u)
  <2>1. behind' = behind /\ Coming(u)' = Coming(u) /\ loading'[u] = A!NoLoad
    BY <1>6 DEF A!LoadFails, Coming, ChatTypes, Chats
  <2> QED BY <1>1, <2>1, ShownCopies
<1> QED BY <1>2, <1>3, <1>4, <1>5, <1>6 DEF LoadStep

LEMMA CopiesAlone ==
  ASSUME CopiesRight, UNCHANGED <<arow, screen, loading, acall, pushes, behind>>
  PROVE  CopiesRight'
<1> SUFFICES ASSUME NEW u \in Side, behind[u] = {}
             PROVE  CallsRight' /\ CopyComes(u)'
  BY DEF CopiesRight
<1>1. CallsRight /\ CopyComes(u)
  BY DEF CopiesRight
<1>2. /\ A!View(arow)' = A!View(arow) /\ Coming(u)' = Coming(u)
      /\ \A v \in Side : A!Announced(v)' = A!Announced(v)
  BY AnnouncedSame DEF A!View, Coming
<1>3. CallsRight'
  BY <1>1, <1>2 DEF CallsRight
<1>4. CopyComes(u)'
  BY <1>1, <1>2 DEF CopyComes
<1> QED BY <1>3, <1>4

\* Each request means what it read, whoever else moves.
LEMMA MovedMeant ==
  ASSUME ChatTypes, Agreed, NEW u \in Side, Moved(u), arow' = arow, consent' = consent, awhy \subseteq awhy',
         awhy' = {} => Meant(u)'
  PROVE  Agreed'
<1> SUFFICES ASSUME awhy' = {}
             PROVE  Agreed'
  BY DEF Agreed
<1>1. awhy = {}
  OBVIOUS
<1>2. \A v \in Side : v # u => acall'[v] = acall[v]
  BY DEF Moved, ChatTypes, Chats
<1>3. \A v \in Side : v # u => Meant(v)'
  BY <1>1, <1>2 DEF Agreed, Meant
<1> QED BY <1>1, <1>3 DEF Agreed

LEMMA WriteAgreed ==
  ASSUME ChatTypes, Agreed, NEW u \in Side, A!WriteRow(u)
  PROVE  Agreed'
<1> SUFFICES ASSUME awhy' = {}
             PROVE  Agreed'
  BY DEF Agreed
<1>0. /\ acall[u].pc = "write" /\ arow' = A!Written(u) /\ acall' = [acall EXCEPT ![u].pc = "tell"]
      /\ awhy = {} /\ (kind = "dm" => acall[u].seen = arow)
  BY DEF A!WriteRow, A!Write
<1>1. /\ Meant(u) /\ (arow.status # "pending" => \A v \in Side : arow.days \in consent[v])
      /\ (arow.status = "pending" => \A v \in Side : arow.orig \in consent[v])
      /\ arow \in Settings /\ Gone(arow) /\ (acall[u].op = "set" <=> kind = "group")
      /\ acall[u].op \in Ops /\ acall[u].days \in Nat /\ acall[u].seen \in Settings /\ kind \in {"dm", "group"}
  BY <1>0, Announcing DEF Agreed, ChatTypes, Chats, AskedOK
<1>2. \A v \in Side : Meant(v)'
  <2>1. acall'[u].pc = "tell" /\ \A v \in Side : v # u => acall'[v] = acall[v]
    BY <1>0 DEF ChatTypes, Chats
  <2>2. \A v \in Side : v # u => Meant(v)'
    BY <1>0, <2>1 DEF Agreed, Meant
  <2>3. Meant(u)'
    BY <2>1 DEF Meant
  <2> QED BY <2>2, <2>3
<1>3. A!NoRow = [status |-> "off", days |-> 0, orig |-> 0, by |-> Nobody]
  BY DEF A!NoRow
<1> DEFINE Right == /\ arow'.status # "pending" => \A v \in Side : arow'.days \in consent'[v]
                    /\ arow'.status = "pending" => \A v \in Side : arow'.orig \in consent'[v]
<1>4. CASE acall[u].op = "propose"
  <2>1. acall[u].seen = arow /\ arow.status # "pending"
    BY <1>0, <1>1, <1>4 DEF Meant
  <2>2. arow' = [status |-> "pending", days |-> acall[u].days, orig |-> A!Original(arow), by |-> u]
    BY <1>0, <1>4, <2>1 DEF A!Written
  <2>3. \A v \in Side : consent[v] \subseteq consent'[v]
    BY <1>4 DEF A!WriteRow, ChatTypes, Chats
  <2>4. \A v \in Side : A!Original(arow) \in consent[v]
    <3>1. CASE arow.status = "active"
      BY <1>1, <2>1, <3>1 DEF A!Original
    <3>2. CASE arow.status = "off"
      BY <1>1, <1>3, <2>1, <3>2 DEF A!Original, Gone
    <3> QED BY <1>1, <2>1, <3>1, <3>2 DEF Settings
  <2>5. Right
    BY <2>2, <2>3, <2>4
  <2> QED BY <1>2, <2>5 DEF Agreed
<1>5. CASE acall[u].op = "accept"
  <2>1. acall[u].seen = arow /\ arow.status = "pending" /\ arow.days = acall[u].days
    BY <1>0, <1>1, <1>5 DEF Meant
  <2>2. consent' = [v \in Side |-> {IF v = u THEN acall[u].days ELSE arow.days}]
    BY <1>5 DEF A!WriteRow
  <2>3. arow'.status # "pending" /\ arow'.days = arow.days
    BY <1>0, <1>1, <1>3, <1>5, <2>1 DEF A!Written, A!Existing, Settings
  <2>4. Right
    BY <2>1, <2>2, <2>3
  <2> QED BY <1>2, <2>4 DEF Agreed
<1>6. CASE acall[u].op = "decline"
  <2>1. acall[u].seen = arow /\ arow.status = "pending" /\ consent' = consent
    BY <1>0, <1>1, <1>6 DEF Meant, A!WriteRow
  <2>2. arow'.status # "pending" /\ arow'.days = arow.orig
    BY <1>0, <1>1, <1>3, <1>6, <2>1 DEF A!Written, A!Existing, Settings
  <2>3. Right
    BY <1>1, <2>1, <2>2
  <2> QED BY <1>2, <2>3 DEF Agreed
<1>7. CASE acall[u].op = "set"
  <2>1. consent' = [v \in Side |-> {acall[u].days}]
    BY <1>7 DEF A!WriteRow
  <2>2. arow'.status # "pending" /\ arow'.days = acall[u].days
    BY <1>0, <1>3, <1>7 DEF A!Written
  <2>3. Right
    BY <2>1, <2>2
  <2> QED BY <1>2, <2>3 DEF Agreed
<1> QED BY <1>1, <1>4, <1>5, <1>6, <1>7 DEF Ops

LEMMA ReadAgreed ==
  ASSUME ChatTypes, Agreed, NEW u \in Side, A!Read(u)
  PROVE  Agreed'
<1>1. Moved(u) /\ arow' = arow /\ consent' = consent /\ awhy \subseteq awhy'
  BY ReadMoves DEF A!Read
<1>2. ASSUME awhy' = {}
      PROVE  Meant(u)'
  <2>1. /\ acall[u].op \in {"accept", "decline"} => arow.status = "pending" /\ arow.days = acall[u].days
        /\ acall[u].op = "propose" => arow.status # "pending"
    BY <1>2 DEF A!Read
  <2>2. CASE acall'[u] = A!Free
    BY <2>2, FreeTyped DEF Meant
  <2>3. CASE acall'[u] # A!Free
    BY <2>1, <2>3, ReadMoves DEF Meant
  <2> QED BY <2>2, <2>3
<1> QED BY <1>1, <1>2, MovedMeant

\* A sweep that the setting does not change under deletes the file and then its message.
LEMMA SweepKeeps ==
  ASSUME ChatTypes, SweepRight, A!Sweep
  PROVE  SweepRight'
<1>0. age \in Int /\ age >= -1 /\ file \in BOOLEAN /\ stirred \in BOOLEAN /\ sweep.days \in Nat /\ arow' = arow
  BY DEF ChatTypes, Chats, A!Sweep
<1> USE <1>0
<1>1. CASE A!SweepSettings
  <2>1. /\ sweep.pc = "idle" /\ sweep'.pc \in {"files", "capFiles"} /\ age' = age /\ file' = file
        /\ ~stirred' => ~stirred \/ A!Together
    BY <1>1 DEF A!SweepSettings
  <2>2. ~stirred' => A!Together'
    BY <2>1 DEF SweepRight, A!Together
  <2> QED BY <2>1, <2>2 DEF SweepRight
<1>2. CASE A!SweepFiles("files", A!TooOld, "rows")
  <2>0. SUFFICES ASSUME ~stirred' PROVE SweepRight'
    BY DEF SweepRight
  <2>1. /\ sweep.pc = "files" /\ file' = (file /\ ~A!TooOld) /\ sweep' = [sweep EXCEPT !.pc = "rows"]
        /\ age' = age /\ stirred' = stirred
    BY <1>2, <2>0 DEF A!SweepFiles, A!SweepTo, A!Miss
  <2>2. sweep'.pc = "rows" /\ sweep'.days = sweep.days
    BY <2>1 DEF ChatTypes, Chats
  <2>3. A!TooOld' <=> A!TooOld
    BY <2>1, <2>2 DEF A!TooOld
  <2> QED BY <2>1, <2>2, <2>3 DEF SweepRight, A!Together
<1>3. CASE A!SweepRows("rows", A!TooOld, "capFiles")
  <2>0. SUFFICES ASSUME ~stirred' PROVE SweepRight'
    BY DEF SweepRight
  <2>1. /\ sweep.pc = "rows" /\ file' = file /\ sweep' = [sweep EXCEPT !.pc = "capFiles"]
        /\ age' = (IF A!TooOld THEN -1 ELSE age) /\ stirred' = stirred
    BY <1>3, <2>0 DEF A!SweepRows, A!SweepTo, A!Miss
  <2>2. sweep'.pc = "capFiles"
    BY <2>1 DEF ChatTypes, Chats
  <2> QED BY <2>1, <2>2 DEF SweepRight, A!Together
<1>4. CASE A!SweepFiles("capFiles", A!Capped, "capRows")
  <2>0. SUFFICES ASSUME ~stirred' PROVE SweepRight'
    BY DEF SweepRight
  <2>1. /\ sweep.pc = "capFiles" /\ file' = (file /\ ~A!Capped) /\ sweep' = [sweep EXCEPT !.pc = "capRows"]
        /\ age' = age /\ stirred' = stirred
    BY <1>4, <2>0 DEF A!SweepFiles, A!SweepTo, A!Miss
  <2>2. sweep'.pc = "capRows"
    BY <2>1 DEF ChatTypes, Chats
  <2>3. A!Capped' <=> A!Capped
    BY <2>1 DEF A!Capped
  <2> QED BY <2>1, <2>2, <2>3 DEF SweepRight, A!Together
<1>5. CASE A!SweepRows("capRows", A!Capped, "idle")
  <2>0. SUFFICES ASSUME ~stirred' PROVE SweepRight'
    BY DEF SweepRight
  <2>1. /\ sweep.pc = "capRows" /\ file' = file /\ sweep' = [sweep EXCEPT !.pc = "idle"]
        /\ age' = (IF A!Capped THEN -1 ELSE age) /\ stirred' = stirred
    BY <1>5, <2>0 DEF A!SweepRows, A!SweepTo, A!Miss
  <2>2. sweep'.pc = "idle"
    BY <2>1 DEF ChatTypes, Chats
  <2> QED BY <2>1, <2>2 DEF SweepRight, A!Together
<1> QED BY <1>1, <1>2, <1>3, <1>4, <1>5 DEF A!Sweep

\* The types.
LEMMA AutoDeleteTypesKept ==
  ASSUME ChatTypes, A!ANext
  PROVE  ChatTypes'
<1>0. Chats /\ kind' = kind /\ \A v \in Side : AskedOK(v)
  <2>1. ASSUME NEW u \in Side
        PROVE  /\ \A d, op : A!Ask(u, op, d) => kind' = kind
               /\ A!Read(u) \/ A!WriteRow(u) \/ A!TellPeer(u) \/ A!Answer(u) \/ A!Break(u) => kind' = kind
               /\ A!Receive(u) \/ A!Lose(u) \/ LoadStep(u) => kind' = kind
    <3>1. \A d, op : A!Ask(u, op, d) => kind' = kind
      BY DEF A!Ask
    <3>2. A!Read(u) => kind' = kind
      BY DEF A!Read, A!Elsewhere
    <3>3. A!WriteRow(u) => kind' = kind
      BY DEF A!WriteRow, A!Elsewhere
    <3>4. A!TellPeer(u) \/ A!Answer(u) \/ A!Break(u) => kind' = kind
      BY DEF A!TellPeer, A!Answer, A!Break, A!Elsewhere
    <3>5. A!Receive(u) \/ A!Lose(u) \/ LoadStep(u) => kind' = kind
      BY DEF A!Receive, A!Lose, LoadStep, A!LoadRead, A!LoadShown, A!LoadFails, A!Elsewhere
    <3> QED BY <3>1, <3>2, <3>3, <3>4, <3>5
  <2>2. A!Day \/ A!Sweep => kind' = kind
    BY DEF A!Day, A!Sweep
  <2>3. kind' = kind
    BY <2>1, <2>2 DEF A!ANext, LoadStep
  <2> QED BY <2>3 DEF ChatTypes
<1> DEFINE Rest == UNCHANGED <<age, file, sweep, stirred>>
<1>1. ASSUME NEW u \in Side, NEW op \in Ops, NEW d \in {0} \cup Days, A!Ask(u, op, d)
      PROVE  ChatTypes'
  <2>1. AskedOK(u)'
    BY <1>0, <1>1, AskMoves, AutoDeleteAssumption DEF AskedOK, Ops
  <2>2. acall' \in [Side -> RequestRecord] /\ \A v \in Side : AskedOK(v)'
    BY <1>0, <1>1, <2>1, AskMoves, MovedTypes
  <2> QED BY <1>0, <1>1, <2>2 DEF A!Ask, ChatTypes, Chats, RequestRecord
<1>2. ASSUME NEW u \in Side, A!Read(u)
      PROVE  ChatTypes'
  <2>1. AskedOK(u)' /\ acall'[u] \in RequestRecord
    <3>1. CASE acall'[u] = A!Free
      BY <1>0, <3>1, FreeTyped, AutoDeleteAssumption DEF AskedOK, A!Free, Gone
    <3>2. CASE acall'[u] # A!Free
      <4>1. Gone(arow) /\ acall[u].op # Nobody /\ (acall[u].op = "set" <=> kind = "group")
        BY <1>0, <1>2, ReadMoves DEF Chats, AskedOK
      <4> QED BY <1>0, <1>2, <3>2, <4>1, ReadMoves DEF AskedOK
    <3> QED BY <3>1, <3>2
  <2>2. acall' \in [Side -> RequestRecord] /\ \A v \in Side : AskedOK(v)'
    BY <1>0, <1>2, <2>1, ReadMoves, MovedTypes
  <2>3. awhy' \subseteq {"ScreenBehind", "ProposedTwice", "Overlap"}
    BY <1>0, <1>2 DEF A!Read, Chats
  <2> QED BY <1>0, <1>2, <2>2, <2>3 DEF A!Read, A!Elsewhere, ChatTypes, Chats, RequestRecord
<1>3. ASSUME NEW u \in Side, NEW pc \in {"tell", "answer"}, acall' = [acall EXCEPT ![u].pc = pc], acall[u].pc # "free",
             acall[u].pc # "read"
      PROVE  acall' \in [Side -> RequestRecord] /\ \A v \in Side : AskedOK(v)'
  <2>1. AskedOK(u)'
    BY <1>0, <1>3, StageMoves DEF AskedOK
  <2> QED BY <1>0, <1>3, <2>1, StageMoves, MovedTypes
<1>4. ASSUME NEW u \in Side, A!WriteRow(u)
      PROVE  ChatTypes'
  <2>1. acall' \in [Side -> RequestRecord] /\ \A v \in Side : AskedOK(v)'
    BY <1>3, <1>4 DEF A!WriteRow
  <2>2. arow' \in Settings /\ Gone(arow)' /\ (kind = "group" => arow'.status # "pending")
    <3>1. arow' = A!Written(u)
      BY <1>4 DEF A!WriteRow, A!Write
    <3> QED BY <1>4, <3>1, WrittenTyped DEF A!WriteRow, Gone
  <2>3. consent' \in [Side -> SUBSET Nat]
    <3>1. /\ acall[u].op \in Ops /\ acall[u].days \in Nat /\ arow.days \in Nat /\ consent \in [Side -> SUBSET Nat]
      BY <1>0, <1>4, Announcing DEF A!WriteRow, Chats, Settings
    <3>2. CASE acall[u].op = "propose"
      BY <1>4, <3>1, <3>2 DEF A!WriteRow
    <3>3. CASE acall[u].op = "accept"
      BY <1>4, <3>1, <3>3 DEF A!WriteRow
    <3>4. CASE acall[u].op = "decline"
      BY <1>4, <3>1, <3>4 DEF A!WriteRow
    <3>5. CASE acall[u].op = "set"
      BY <1>4, <3>1, <3>5 DEF A!WriteRow
    <3> QED BY <3>1, <3>2, <3>3, <3>4, <3>5 DEF Ops
  <2>4. /\ awhy' \subseteq {"ScreenBehind", "ProposedTwice", "Overlap"} /\ stirred' \in BOOLEAN
        /\ UNCHANGED <<kind, screen, loading, pushes, age, file, sweep>>
        /\ behind' \in [Side -> SUBSET Gaps]
    BY <1>0, <1>4 DEF A!WriteRow, A!Write, A!Elsewhere, Chats, Gaps
  <2> QED BY <1>0, <2>1, <2>2, <2>3, <2>4 DEF ChatTypes, Chats, RequestRecord
<1>5. ASSUME NEW u \in Side, A!TellPeer(u)
      PROVE  ChatTypes'
  <2>1. acall' \in [Side -> RequestRecord] /\ \A v \in Side : AskedOK(v)'
    BY <1>3, <1>5 DEF A!TellPeer
  <2>2. A!Announced(u) \in Views /\ pushes \in [Side -> Seq(Views)]
    BY <1>0, <1>5, Announcing DEF A!TellPeer, Chats
  <2>3. pushes' \in [Side -> Seq(Views)]
    <3> DEFINE to == IF kind = "group" THEN Side ELSE {A!Other(u)}
    <3>1. pushes' = [v \in Side |-> IF v \in to THEN Append(pushes[v], A!Announced(u)) ELSE pushes[v]]
      BY <1>5 DEF A!TellPeer, A!Tell
    <3> QED BY <2>2, <3>1
  <2>4. behind' \in [Side -> SUBSET Gaps]
    BY <1>0, <1>5 DEF A!TellPeer, A!Tell, Chats, Gaps
  <2>5. UNCHANGED <<kind, arow, screen, loading, consent, awhy, stirred, age, file, sweep>>
    BY <1>5 DEF A!TellPeer, A!Elsewhere
  <2> QED BY <1>0, <2>1, <2>3, <2>4, <2>5 DEF ChatTypes, Chats, RequestRecord, Gone
<1>6. ASSUME NEW u \in Side, A!Answer(u)
      PROVE  ChatTypes'
  <2>1. AskedOK(u)'
    BY <1>0, <1>6, HangMoves, AutoDeleteAssumption DEF A!Answer, AskedOK, A!Free, Gone
  <2>2. acall' \in [Side -> RequestRecord] /\ \A v \in Side : AskedOK(v)'
    BY <1>0, <1>6, <2>1, HangMoves, FreeTyped, MovedTypes DEF A!Answer
  <2>3. A!Announced(u) \in Views
    BY <1>6, Announcing DEF A!Answer
  <2>4. screen' \in [Side -> Views] /\ behind' \in [Side -> SUBSET Gaps]
    BY <1>0, <1>6, <2>3 DEF A!Answer, A!Shows, Chats, Gaps
  <2>5. UNCHANGED <<kind, arow, loading, pushes, consent, awhy, stirred, age, file, sweep>>
    BY <1>6 DEF A!Answer, A!Elsewhere
  <2> QED BY <1>0, <2>2, <2>4, <2>5 DEF ChatTypes, Chats, RequestRecord, Gone
<1>9. ASSUME NEW u \in Side, A!Break(u)
      PROVE  ChatTypes'
  <2>1. AskedOK(u)'
    BY <1>0, <1>9, HangMoves, AutoDeleteAssumption DEF A!Break, AskedOK, A!Free, Gone
  <2>2. acall' \in [Side -> RequestRecord] /\ \A v \in Side : AskedOK(v)'
    BY <1>0, <1>9, <2>1, HangMoves, FreeTyped, MovedTypes DEF A!Break
  <2>3. behind' \in [Side -> SUBSET Gaps]
    BY <1>0, <1>9 DEF A!Break, Chats, Gaps
  <2>4. UNCHANGED <<kind, arow, screen, loading, pushes, consent, awhy, stirred, age, file, sweep>>
    BY <1>9 DEF A!Break
  <2> QED BY <1>0, <2>2, <2>3, <2>4 DEF ChatTypes, Chats, RequestRecord, Gone
<1>7. ASSUME NEW u \in Side, LoadStep(u) \/ A!Receive(u) \/ A!Lose(u)
      PROVE  ChatTypes'
  <2>1. screen' \in [Side -> Views]
    <3>1. CASE LoadStep(u)
      <4>1. loading[u] # A!NoLoad => loading[u] \in Views
        BY <1>0 DEF Chats
      <4> QED BY <1>0, <3>1, <4>1 DEF LoadStep, A!LoadRead, A!LoadShown, A!LoadFails, A!Shows, Chats
    <3>2. CASE A!Receive(u)
      <4>1. pushes[u] \in Seq(Views) /\ pushes[u] # <<>>
        BY <1>0, <3>2 DEF A!Receive, Chats
      <4>2. Head(pushes[u]) \in Views
        BY <4>1
      <4> QED BY <1>0, <3>2, <4>2 DEF A!Receive, A!Shows, Chats
    <3>3. CASE A!Lose(u)
      BY <1>0, <3>3 DEF A!Lose, Chats
    <3> QED BY <1>7, <3>1, <3>2, <3>3
  <2>2. pushes' \in [Side -> Seq(Views)]
    <3>1. pushes' = pushes \/ (pushes[u] # <<>> /\ pushes' = [pushes EXCEPT ![u] = Tail(pushes[u])])
      BY <1>7 DEF LoadStep, A!LoadRead, A!LoadShown, A!LoadFails, A!Receive, A!Lose
    <3>2. pushes \in [Side -> Seq(Views)]
      BY <1>0 DEF Chats
    <3>3. pushes[u] # <<>> => Tail(pushes[u]) \in Seq(Views)
      BY <3>2
    <3> QED BY <3>1, <3>2, <3>3
  <2>3. behind' \in [Side -> SUBSET Gaps]
    <3>1. A!Receive(u) \/ A!LoadRead(u) \/ A!LoadFails(u) => behind' = behind
      BY DEF A!Receive, A!LoadRead, A!LoadFails
    <3>2. A!Lose(u) => behind' \in [Side -> SUBSET Gaps]
      BY <1>0 DEF A!Lose, Chats, Gaps
    <3>3. A!LoadShown(u) => behind' = behind \/ behind' = [behind EXCEPT ![u] = {}]
      BY DEF A!LoadShown
    <3>4. behind \in [Side -> SUBSET Gaps]
      BY <1>0 DEF Chats
    <3> QED BY <1>7, <3>1, <3>2, <3>3, <3>4 DEF LoadStep
  <2>4. UNCHANGED <<kind, arow, acall, consent, awhy, stirred, age, file, sweep>>
    BY <1>7 DEF LoadStep, A!LoadRead, A!LoadShown, A!LoadFails, A!Receive, A!Lose, A!Elsewhere
  <2>5. loading' \in [Side -> Views \cup {A!NoLoad}]
    BY <1>0, <1>7, ViewTyped DEF LoadStep, A!LoadRead, A!LoadShown, A!LoadFails, A!Receive, A!Lose, Chats
  <2> QED BY <1>0, <2>1, <2>2, <2>3, <2>4, <2>5 DEF ChatTypes, Chats, AskedOK, Gone
<1>8. ASSUME A!Day \/ A!Sweep
      PROVE  ChatTypes'
  <2>1. UNCHANGED <<kind, arow, screen, loading, acall, pushes, consent, awhy, behind>>
    BY <1>8 DEF A!Day, A!Sweep
  <2>2. /\ age' \in Int /\ age' >= -1 /\ file' \in BOOLEAN /\ stirred' \in BOOLEAN
        /\ sweep' \in [pc : {"idle", "files", "rows", "capFiles", "capRows"}, days : Nat]
    <3>0. /\ age \in Int /\ age >= -1 /\ file \in BOOLEAN /\ stirred \in BOOLEAN /\ arow.days \in Nat
          /\ sweep \in [pc : {"idle", "files", "rows", "capFiles", "capRows"}, days : Nat]
      BY <1>0 DEF Chats, Settings
    <3>1. CASE A!Day
      BY <3>0, <3>1 DEF A!Day
    <3>2. CASE A!SweepSettings
      BY <3>0, <3>2 DEF A!SweepSettings
    <3>3. ASSUME NEW pc, NEW chosen \in BOOLEAN, NEW next \in {"rows", "capFiles", "capRows", "idle"},
                 A!SweepFiles(pc, chosen, next) \/ A!SweepRows(pc, chosen, next)
          PROVE  /\ age' \in Int /\ age' >= -1 /\ file' \in BOOLEAN /\ stirred' \in BOOLEAN
                 /\ sweep' \in [pc : {"idle", "files", "rows", "capFiles", "capRows"}, days : Nat]
      <4>1. CASE A!SweepFiles(pc, chosen, next)
        BY <3>0, <4>1 DEF A!SweepFiles, A!SweepTo, A!Miss
      <4>2. CASE A!SweepRows(pc, chosen, next)
        <5>1. age' = -1 \/ age' = age
          BY <4>2 DEF A!SweepRows, A!Miss
        <5>2. age' \in Int /\ age' >= -1
          BY <3>0, <5>1
        <5> QED BY <3>0, <4>2, <5>2 DEF A!SweepRows, A!SweepTo, A!Miss
      <4> QED BY <3>3, <4>1, <4>2
    <3>4. A!TooOld \in BOOLEAN /\ A!Capped \in BOOLEAN
      BY DEF A!TooOld, A!Capped
    <3> QED BY <1>8, <3>1, <3>2, <3>3, <3>4 DEF A!Sweep
  <2> QED BY <1>0, <2>1, <2>2 DEF ChatTypes, Chats, AskedOK, Gone
<1> QED BY <1>1, <1>2, <1>4, <1>5, <1>6, <1>7, <1>8, <1>9 DEF A!ANext, Ops, LoadStep

LEMMA AutoDeleteStart ==
  ASSUME A!AInit
  PROVE  AutoDeleteInv
<1>0. PICK from \in {0, 1}, k \in {"dm", "group"} :
        /\ aleft.from = from /\ kind = k
        /\ consent = [u \in Side |-> {from}]
        /\ \E u \in Side : arow = IF from = 0 THEN A!NoRow
                                  ELSE [status |-> "active", days |-> from, orig |-> 0, by |-> u]
  BY DEF A!AInit, AutoDeleteLimits, L
<1>1. /\ screen = [u \in Side |-> A!Unread] /\ acall = [u \in Side |-> A!Free] /\ pushes = [u \in Side |-> <<>>]
      /\ age = 0 /\ file = TRUE /\ sweep = A!Idle /\ awhy = {} /\ behind = [u \in Side |-> {}] /\ stirred = FALSE
      /\ loading = [u \in Side |-> A!NoLoad]
  BY DEF A!AInit
<1>2. arow \in Settings /\ Gone(arow) /\ arow.status # "pending" /\ arow.days = from
  BY <1>0 DEF A!NoRow, Settings, Gone
<1>3. ChatTypes
  <2>1. A!Unread \in Views /\ <<>> \in Seq(Views)
    BY DEF A!Unread, Views
  <2>2. \A u \in Side : AskedOK(u)
    BY <1>1, FreeTyped, AutoDeleteAssumption DEF AskedOK
  <2>3. acall \in [Side -> RequestRecord]
    BY <1>1, FreeTyped
  <2>4. consent \in [Side -> SUBSET Nat]
    BY <1>0
  <2>5. screen \in [Side -> Views] /\ pushes \in [Side -> Seq(Views)]
        /\ loading \in [Side -> Views \cup {A!NoLoad}]
    BY <1>1, <2>1
  <2>6. file \in BOOLEAN /\ stirred \in BOOLEAN /\ kind \in {"dm", "group"}
    BY <1>0, <1>1
  <2>7. age \in Int /\ age >= -1
    BY <1>1
  <2>8. sweep \in [pc : {"idle", "files", "rows", "capFiles", "capRows"}, days : Nat]
    BY <1>1 DEF A!Idle
  <2>9. awhy \subseteq {"ScreenBehind", "ProposedTwice", "Overlap"} /\ behind \in [Side -> SUBSET Gaps]
    BY <1>1
  <2> QED BY <1>2, <2>2, <2>3, <2>4, <2>5, <2>6, <2>7, <2>8, <2>9 DEF ChatTypes, Chats, RequestRecord
<1>4. Agreed
  BY <1>0, <1>1, <1>2, FreeTyped DEF Agreed, Meant
<1>5. CopiesRight
  <2>1. \A u \in Side : acall[u].pc = "free" /\ Coming(u).status = "unread" /\ loading[u] = A!NoLoad
    BY <1>1, FreeTyped DEF Coming, A!Unread
  <2> QED BY <2>1, TwoSides DEF CopiesRight, CallsRight, CopyComes
<1>6. SweepRight
  BY <1>1 DEF SweepRight, A!Idle, A!Together
<1> QED BY <1>3, <1>4, <1>5, <1>6 DEF AutoDeleteInv

LEMMA AutoDeleteNext ==
  ASSUME AutoDeleteInv, A!ANext
  PROVE  AutoDeleteInv'
<1>0. ChatTypes /\ Agreed /\ CopiesRight /\ SweepRight /\ ChatTypes'
  BY AutoDeleteTypesKept DEF AutoDeleteInv
<1>1. ASSUME UNCHANGED <<arow, age, file, sweep, stirred>>
      PROVE  SweepRight'
  BY <1>0, <1>1 DEF SweepRight, A!TooOld, A!Capped, A!Together
<1>2. ASSUME NEW u \in Side, NEW op \in Ops, NEW d \in {0} \cup Days, A!Ask(u, op, d)
      PROVE  AutoDeleteInv'
  <2>1. /\ UNCHANGED <<arow, screen, loading, pushes, age, file, sweep, consent, awhy, behind, stirred>>
    BY <1>2 DEF A!Ask
  <2>2. Meant(u)'
    BY <1>0, <1>2, AskMoves DEF Meant
  <2>3. Agreed' /\ CopiesRight'
    BY <1>0, <1>2, <2>1, <2>2, AskMoves, MovedMeant, EnterCopies
  <2> QED BY <1>0, <1>1, <2>1, <2>3 DEF AutoDeleteInv
<1>3. ASSUME NEW u \in Side, A!Read(u)
      PROVE  AutoDeleteInv'
  <2>1. UNCHANGED <<arow, screen, loading, pushes, age, file, sweep, behind, stirred>>
    BY <1>3 DEF A!Read, A!Elsewhere
  <2>2. CopiesRight'
    BY <1>0, <1>3, <2>1, ReadMoves, FreeTyped, EnterCopies
  <2> QED BY <1>0, <1>1, <1>3, <2>1, <2>2, ReadAgreed DEF AutoDeleteInv
<1>4. ASSUME NEW u \in Side, A!WriteRow(u)
      PROVE  AutoDeleteInv'
  <2>1. /\ UNCHANGED <<age, file, sweep>> /\ stirred' = (stirred \/ (sweep.pc # "idle" /\ arow' # arow))
    BY <1>4 DEF A!WriteRow, A!Write, A!Elsewhere
  <2>2. SweepRight'
    <3>1. CASE arow' = arow
      BY <1>0, <1>1, <2>1, <3>1 DEF ChatTypes, Chats, SweepRight, A!TooOld, A!Capped, A!Together
    <3>2. CASE arow' # arow /\ sweep.pc = "idle"
      BY <1>0, <2>1, <3>2 DEF SweepRight, A!Together
    <3>3. CASE stirred'
      BY <3>3 DEF SweepRight
    <3> QED BY <2>1, <3>1, <3>2, <3>3
  <2> QED BY <1>0, <1>4, <2>2, WriteAgreed, WriteCopies DEF AutoDeleteInv
<1>5. ASSUME NEW u \in Side, A!TellPeer(u) \/ A!Answer(u) \/ A!Break(u)
      PROVE  AutoDeleteInv'
  <2>1. UNCHANGED <<arow, age, file, sweep, consent, awhy, stirred>>
    BY <1>5 DEF A!TellPeer, A!Answer, A!Break, A!Elsewhere
  <2>2. Moved(u) /\ Meant(u)'
    <3>1. CASE A!TellPeer(u)
      BY <1>0, <3>1, StageMoves DEF A!TellPeer, Meant
    <3>2. CASE A!Answer(u)
      BY <1>0, <3>2, HangMoves, FreeTyped DEF A!Answer, Meant
    <3>3. CASE A!Break(u)
      BY <1>0, <3>3, HangMoves, FreeTyped DEF A!Break, Meant
    <3> QED BY <1>5, <3>1, <3>2, <3>3
  <2>3. Agreed'
    BY <1>0, <2>1, <2>2, MovedMeant
  <2> QED BY <1>0, <1>1, <1>5, <2>1, <2>3, TellCopies, AnswerCopies, BreakCopies DEF AutoDeleteInv
<1>6. ASSUME UNCHANGED <<arow, acall, consent, awhy>>
      PROVE  Agreed'
  BY <1>0, <1>6 DEF Agreed, Meant
<1>7. ASSUME NEW u \in Side, A!Receive(u) \/ A!Lose(u) \/ LoadStep(u)
      PROVE  AutoDeleteInv'
  <2>1. UNCHANGED <<arow, acall, consent, awhy, age, file, sweep, stirred>>
    BY <1>7 DEF A!Receive, A!Lose, LoadStep, A!LoadRead, A!LoadShown, A!LoadFails, A!Elsewhere
  <2> QED BY <1>0, <1>1, <1>6, <1>7, <2>1, ReceiveCopies DEF AutoDeleteInv
<1>8. ASSUME A!Day \/ A!Sweep
      PROVE  AutoDeleteInv'
  <2>1. UNCHANGED <<arow, screen, loading, acall, pushes, consent, awhy, behind>>
    BY <1>8 DEF A!Day, A!Sweep
  <2>2. CopiesRight'
    BY <1>0, <2>1, CopiesAlone
  <2>3. SweepRight'
    <3>1. CASE A!Day
      BY <1>0, <3>1 DEF ChatTypes, Chats, A!Day, SweepRight, A!Together
    <3> QED BY <1>0, <1>8, <3>1, SweepKeeps
  <2> QED BY <1>0, <1>6, <2>1, <2>2, <2>3 DEF AutoDeleteInv
<1> QED BY <1>2, <1>3, <1>4, <1>5, <1>7, <1>8 DEF A!ANext, Ops, LoadStep

LEMMA AutoDeleteImplies == AutoDeleteInv => A!SettingShownAsAgreed /\ A!FilesFollowMessages
<1> SUFFICES ASSUME AutoDeleteInv
             PROVE  A!SettingShownAsAgreed /\ A!FilesFollowMessages
  OBVIOUS
<1>1. A!SettingWasAgreed
  BY DEF AutoDeleteInv, Agreed, A!SettingWasAgreed
<1>2. A!CopyHasACause
  <2> SUFFICES ASSUME A!Quiet, NEW u \in Side, screen[u].status # "unread", behind[u] = {}
               PROVE  screen[u] = A!View(arow)
    BY DEF A!CopyHasACause
  <2>1. \A v \in Side : acall[v].pc = "free"
    BY Announcing DEF A!Quiet, AutoDeleteInv
  <2>2. CopyComes(u)
    BY <2>1 DEF AutoDeleteInv, CopiesRight
  <2>3. Coming(u) = screen[u]
    BY DEF A!Quiet, Coming
  <2> QED BY <2>1, <2>2, <2>3, TwoSides DEF CopyComes
<1>3. A!FilesFollowMessages
  BY DEF AutoDeleteInv, SweepRight, A!FilesFollowMessages
<1> QED BY <1>1, <1>2, <1>3 DEF A!SettingShownAsAgreed

\* The days in force were agreed to by both sides, every copy comes to show them,
\* and the sweep deletes a message together with its file, unless requests or
\* pushes crossed, or the setting changed under the sweep (autoDeleteRoutes.js,
\* autoDelete.svelte.js, cron.js).
THEOREM AutoDeleteInOrderHolds == MCSpec => []AutoDeleteInOrder
<1> DEFINE Inv == part = "autoDelete" => AutoDeleteInv
           Step == AccountsStep \/ ContactsStep \/ AutoDeleteStep \/ DevicesStep \/ NoticesStep
<1>1. MCInit => Inv
  <2>1. MCInit /\ part = "autoDelete" => A!AInit
    BY DEF MCInit
  <2> QED BY <2>1, AutoDeleteStart
<1>2. Inv /\ [Step]_<<part, accounts, contacts, autoDelete, devices, notices>> => Inv'
  <2> SUFFICES ASSUME Inv, [Step]_<<part, accounts, contacts, autoDelete, devices, notices>>, part' = "autoDelete"
               PROVE  AutoDeleteInv'
    OBVIOUS
  <2>1. part' = part /\ AutoDeleteInv
    BY DEF AccountsStep, ContactsStep, AutoDeleteStep, DevicesStep, NoticesStep
  <2>2. CASE AutoDeleteStep
    BY <2>1, <2>2, AutoDeleteNext DEF AutoDeleteStep
  <2>3. CASE UNCHANGED autoDelete
    <3>1. UNCHANGED <<kind, arow, screen, loading, acall, pushes, age, file, sweep, consent, awhy, behind, stirred>>
      BY <2>3 DEF autoDelete
    <3>2. ChatTypes'
      BY <2>1, <3>1 DEF AutoDeleteInv, ChatTypes, Chats, AskedOK, Gone
    <3>3. Agreed'
      BY <2>1, <3>1 DEF AutoDeleteInv, Agreed, Meant
    <3>4. CopiesRight'
      BY <2>1, <3>1, CopiesAlone DEF AutoDeleteInv
    <3>5. SweepRight'
      BY <2>1, <3>1 DEF AutoDeleteInv, SweepRight, A!TooOld, A!Capped, A!Together
    <3> QED BY <3>2, <3>3, <3>4, <3>5 DEF AutoDeleteInv
  <2> QED BY <2>1, <2>2, <2>3 DEF AccountsStep, ContactsStep, AutoDeleteStep, DevicesStep, NoticesStep
<1>3. Inv => AutoDeleteInOrder
  BY AutoDeleteImplies DEF AutoDeleteInOrder
<1> QED BY <1>1, <1>2, <1>3, PTL DEF MCSpec, MCNext
-----------------------------------------------------------------------------
(***************************************************************************)
(* Accounts: the filter of the index. The recursion has a solution for     *)
(* every length, and what it keeps up to i are the others of the first i:  *)
(* the least length or index without that would have a predecessor.        *)
(***************************************************************************)
LEMMA LeastNatural ==
  ASSUME NEW S \in SUBSET Nat, S # {}
  PROVE  \E x \in S : \A y \in S : x <= y
<1>1. PICK x \in S : \A y \in S : ~(<<y, x>> \in OpToRel(<, Nat))
  BY NatLessThanWellFounded, WFMin
<1>2. \A y \in S : ~(y < x)
  BY <1>1 DEF OpToRel
<1>3. \A y \in S : y \in Nat /\ x \in Nat
  OBVIOUS
<1> QED BY <1>2, <1>3

Filters(g, s, t, n) ==
  g = [i \in 0..n |-> IF i = 0 THEN <<>> ELSE IF s[i] = t THEN g[i - 1] ELSE Append(g[i - 1], s[i])]

LEMMA FilterExists ==
  ASSUME NEW s, NEW t, NEW n \in Nat
  PROVE  \E g : Filters(g, s, t, n)
<1> DEFINE Step(g, i) == IF i = 0 THEN <<>> ELSE IF s[i] = t THEN g[i - 1] ELSE Append(g[i - 1], s[i])
           Solves(g, m) == g = [i \in 0..m |-> Step(g, i)]
           Bad == {m \in Nat : ~\E g : Filters(g, s, t, m)}
<1>1. SUFFICES ASSUME Bad # {} PROVE FALSE
  OBVIOUS
<1>2. Bad \in SUBSET Nat
  OBVIOUS
<1>3. PICK m \in Bad : \A k \in Bad : m <= k
  <2> HIDE DEF Bad
  <2> QED BY <1>1, <1>2, LeastNatural
<1>4. m \in Nat /\ \A k \in Nat : k < m => \E g : Filters(g, s, t, k)
  BY <1>3
<1>5. \A g : ~Filters(g, s, t, m)
  BY <1>3
<1>6. \A g, k : Solves(g, k) <=> Filters(g, s, t, k)
  BY DEF Filters
<1> HIDE DEF Bad
<1>7. CASE m = 0
  <2> DEFINE g == [i \in 0..0 |-> <<>>]
  <2>1. Solves(g, 0)
    <3>1. \A i \in 0..0 : Step(g, i) = <<>>
      OBVIOUS
    <3> QED BY <3>1
  <2> QED BY <1>7, <1>5, <1>6, <2>1
<1>8. CASE m # 0
  <2>1. m - 1 \in Nat /\ m - 1 < m
    BY <1>8, <1>4
  <2>2. PICK g : Solves(g, m - 1)
    <3> HIDE DEF Solves
    <3> QED BY <1>4, <1>6, <2>1
  <2> DEFINE h == [i \in 0..m |-> IF i = m THEN Step(g, m) ELSE g[i]]
  <2>3. \A i \in 0..(m - 1) : h[i] = g[i]
    BY <1>4, <2>1
  <2>4. \A i \in 0..m : i # 0 => i - 1 \in 0..(m - 1)
    BY <1>4, <2>1
  <2>5. \A i \in 0..m : Step(h, i) = Step(g, i)
    BY <2>3, <2>4
  <2>6. \A i \in 0..(m - 1) : g[i] = Step(g, i)
    <3> HIDE DEF Step
    <3> QED BY <2>2
  <2>7. \A i \in 0..m : h[i] = Step(h, i)
    <3> HIDE DEF Step
    <3>1. ASSUME NEW i \in 0..m
          PROVE  h[i] = Step(h, i)
      <4>1. CASE i = m
        BY <2>5, <4>1
      <4>2. CASE i # m
        <5>1. i \in 0..(m - 1)
          BY <1>4, <2>1, <4>2
        <5> QED BY <2>3, <2>5, <2>6, <5>1
      <4> QED BY <4>1, <4>2
    <3> QED BY <3>1
  <2>8. Solves(h, m)
    <3> HIDE DEF Step
    <3> QED BY <2>7
  <2> QED
    <3> HIDE DEF Solves, h
    <3> QED BY <1>5, <1>6, <2>8
<1> QED BY <1>7, <1>8

LEMMA WithoutKeeps ==
  ASSUME NEW T, NEW s \in Seq(T), NEW t
  PROVE  /\ Without(s, t) \in Seq(T) /\ Len(Without(s, t)) <= Len(s)
         /\ SetOf(s) \ {t} \subseteq SetOf(Without(s, t)) /\ SetOf(Without(s, t)) \subseteq SetOf(s)
<1> DEFINE f == CHOOSE g : Filters(g, s, t, Len(s))
<1>1. Len(s) \in Nat /\ DOMAIN s = 1..Len(s) /\ \A i \in 1..Len(s) : s[i] \in T
  OBVIOUS
<1>2. Without(s, t) = f[Len(s)]
  BY DEF Without, Filters
<1>3. Filters(f, s, t, Len(s))
  <2>1. \E g : Filters(g, s, t, Len(s))
    BY <1>1, FilterExists
  <2> QED BY <2>1
<1> HIDE DEF f
<1>4. \A i \in 0..Len(s) : f[i] = IF i = 0 THEN <<>> ELSE IF s[i] = t THEN f[i - 1] ELSE Append(f[i - 1], s[i])
  BY <1>3 DEF Filters
<1> DEFINE Keeps(i) == /\ f[i] \in Seq(T) /\ Len(f[i]) <= i
                       /\ \A k \in 1..i : s[k] # t => \E j \in 1..Len(f[i]) : f[i][j] = s[k]
                       /\ \A j \in 1..Len(f[i]) : \E k \in 1..i : s[k] = f[i][j]
           Bad == {i \in 0..Len(s) : ~Keeps(i)}
<1>5. Keeps(0)
  <2>1. f[0] = <<>>
    BY <1>1, <1>4
  <2>2. <<>> \in Seq(T) /\ Len(<<>>) = 0
    OBVIOUS
  <2> QED BY <2>1, <2>2
<1>6. ASSUME NEW i \in 1..Len(s), Keeps(i - 1)
      PROVE  Keeps(i)
  <2>1. i \in 0..Len(s) /\ i # 0 /\ i - 1 \in Nat /\ s[i] \in T
    BY <1>1
  <2>2. CASE s[i] = t
    <3>1. f[i] = f[i - 1]
      BY <1>4, <2>1, <2>2
    <3> QED BY <1>6, <2>1, <2>2, <3>1
  <2>3. CASE s[i] # t
    <3> DEFINE u == f[i - 1]
    <3>1. f[i] = Append(u, s[i])
      BY <1>4, <2>1, <2>3
    <3>2. u \in Seq(T) /\ Len(u) <= i - 1
      BY <1>6
    <3> HIDE DEF u
    <3>3. /\ f[i] \in Seq(T) /\ Len(f[i]) = Len(u) + 1 /\ f[i][Len(u) + 1] = s[i]
          /\ \A j \in 1..Len(u) : f[i][j] = u[j]
      BY <2>1, <3>1, <3>2, AppendProperties
    <3>4. Len(u) \in Nat
      BY <3>2
    <3>5. ASSUME NEW k \in 1..i, s[k] # t
          PROVE  \E j \in 1..Len(f[i]) : f[i][j] = s[k]
      <4>1. CASE k = i
        BY <3>3, <3>4, <4>1
      <4>2. CASE k # i
        <5>1. k \in 1..(i - 1)
          BY <2>1, <4>2
        <5>2. PICK j \in 1..Len(u) : u[j] = s[k]
          BY <1>6, <3>5, <5>1 DEF u
        <5> QED BY <3>3, <3>4, <5>2
      <4> QED BY <4>1, <4>2
    <3>6. ASSUME NEW j \in 1..Len(f[i])
          PROVE  \E k \in 1..i : s[k] = f[i][j]
      <4>1. CASE j = Len(u) + 1
        BY <2>1, <3>3, <4>1
      <4>2. CASE j # Len(u) + 1
        <5>1. j \in 1..Len(u) /\ f[i][j] = u[j]
          BY <3>3, <3>4, <4>2
        <5>2. PICK k \in 1..(i - 1) : s[k] = u[j]
          BY <1>6, <5>1 DEF u
        <5> QED BY <2>1, <5>1, <5>2
      <4> QED BY <4>1, <4>2
    <3>7. Len(f[i]) <= i
      BY <2>1, <3>2, <3>3, <3>4
    <3> QED BY <3>3, <3>5, <3>6, <3>7
  <2> QED BY <2>2, <2>3
<1>7. Bad = {}
  <2> HIDE DEF Keeps
  <2> SUFFICES ASSUME Bad # {} PROVE FALSE
    OBVIOUS
  <2>1. Bad \in SUBSET Nat
    BY <1>1
  <2>2. PICK i \in Bad : \A k \in Bad : i <= k
    <3> HIDE DEF Bad
    <3> QED BY <2>1, LeastNatural
  <2>3. i \in 1..Len(s) /\ i - 1 \in 0..Len(s)
    BY <1>1, <1>5, <2>2
  <2>4. i - 1 \notin Bad
    BY <2>2, <2>3
  <2> QED BY <1>6, <2>2, <2>3, <2>4
<1>8. Keeps(Len(s))
  <2> HIDE DEF Keeps
  <2> QED BY <1>1, <1>7
<1>9. DOMAIN f[Len(s)] = 1..Len(f[Len(s)])
  BY <1>8
<1>10. /\ Without(s, t) \in Seq(T) /\ Len(Without(s, t)) <= Len(s)
       /\ DOMAIN Without(s, t) = 1..Len(f[Len(s)])
  BY <1>2, <1>8, <1>9
<1>11. ASSUME NEW x \in SetOf(s) \ {t} PROVE x \in SetOf(Without(s, t))
  <2>1. PICK k \in 1..Len(s) : s[k] = x /\ x # t
    BY <1>1, <1>11 DEF SetOf
  <2>2. PICK j \in 1..Len(f[Len(s)]) : f[Len(s)][j] = s[k]
    BY <1>8, <2>1
  <2> QED BY <1>2, <1>10, <2>1, <2>2 DEF SetOf
<1>12. ASSUME NEW x \in SetOf(Without(s, t)) PROVE x \in SetOf(s)
  <2>1. PICK j \in 1..Len(f[Len(s)]) : f[Len(s)][j] = x
    BY <1>2, <1>10, <1>12 DEF SetOf
  <2>2. PICK k \in 1..Len(s) : s[k] = f[Len(s)][j]
    BY <1>8, <2>1
  <2> QED BY <1>1, <2>1, <2>2 DEF SetOf
<1> QED BY <1>10, <1>11, <1>12
-----------------------------------------------------------------------------
(***************************************************************************)
(* Accounts: EndedHasACause, for any number of requests and of sessions.   *)
(*                                                                         *)
(* Unexcused(t) says that t is alive and nothing excuses it. No step makes *)
(* a session unexcused that a client has (NoneRevived); so it is enough    *)
(* that a request that answers has ended its sessions before: a logout its *)
(* own, a revocation those it found in the index, where every unexcused    *)
(* session is (AllListed).                                                 *)
(***************************************************************************)
SessionRecord == [till : Int, exp : Int, last : Int]
Cause == {"IndexExpired", "Refreshed", "Overwrote", "OpenedLate", "IndexOverlap", "FellOut", "RevokeFailed"}
Copies == BOOLEAN \cup {None} \cup SessionRecord \cup (SUBSET Passkey) \cup Seq(Session)
Pc == {"idle", "challenge", "start", "find", "auth", "go", "refresh", "write", "put", "take", "spend", "read",
       "found", "open", "signed", "match", "spent", "used", "list", "enter", "leave", "revoke", "kill",
       "reindex", "token", "passkeys", "entries", "lock", "rows"}
RequestRow == [op : Op \cup {"none"}, pc : Pc, who : Person, tok : Session \cup {None},
               key : Passkey \cup {None}, add : BOOLEAN, copy : Copies, since : SUBSET Session]

\* A copy of the index.
IndexCopy(s) == s \in Seq(Session) /\ Len(s) <= MaxIndex /\ SetOf(s) \subseteq handed

AccountsTypes ==
  /\ now \in Nat
  /\ session \in [Session -> SessionRecord \cup {None}]
  /\ index # None => index \in [tokens : Seq(Session), till : Int]
  /\ IndexCopy(Listed)
  /\ handed \subseteq Session /\ ended \subseteq handed
  /\ why \in [Session \cup Passkey -> SUBSET Cause]
  /\ creds = None \/ creds \subseteq Passkey
  /\ regCha # None => regCha.add \in Copies
  /\ req \in [Request -> RequestRow]

\* The operations at a stage, and what a request carries there.
OpAt(pc) ==
  IF pc \in {"start", "put", "take", "spend", "read", "found"} THEN {"register"}
  ELSE IF pc \in {"challenge", "signed", "match", "spent", "used"} THEN {"login"}
  ELSE IF pc = "open" THEN {"login", "register"}
  ELSE IF pc \in {"find", "leave"} THEN {"logout"}
  ELSE IF pc = "write" THEN {"remove", "rename", "register"}
  ELSE IF pc \in {"list", "enter"} THEN {"login", "register", "logout"}
  ELSE IF pc = "idle" THEN {"none"}
  ELSE Op
ReadOK(r) ==
  LET q == req[r] IN
  /\ q.op \in OpAt(q.pc) /\ q.since \subseteq handed
  /\ q.op \notin {"none", "login", "register"} => q.tok \in handed
  /\ q.pc \notin {"list", "enter"} => q.tok \in handed \cup {None}
  /\ q.pc \in {"list", "enter"} => q.tok \in Session
  /\ q.pc = "refresh" => q.copy \in SessionRecord /\ q.tok \in handed
  /\ q.pc \in {"enter", "kill", "reindex"} => IndexCopy(q.copy)
  /\ q.pc \in {"spent", "used", "write"} => q.copy \subseteq Passkey
  /\ q.op \in {"remove", "rename", "register", "login"} => q.key \in Passkey

Unexcused(t) == Live(t) /\ why[t] = {}

\* Those a request has ended, and will answer to have ended.
Over(r) ==
  LET q == req[r] IN
  IF q.pc \in {"list", "enter"} /\ q.op = "logout" THEN {q.tok}
  ELSE IF q.pc = "reindex" THEN (q.since \cup SetOf(q.copy)) \ Except(r)
  ELSE IF q.pc \in {"token", "passkeys", "entries", "lock", "rows"} THEN Answered(r)
  ELSE {}

AllListed == \A t \in handed : Unexcused(t) => t \in ListedSet
Killing == \A r \in Request : At(r, "kill") => \A t \in req[r].since : Unexcused(t) => t \in SetOf(req[r].copy)
AllOver == \A r \in Request : \A t \in Over(r) : ~Unexcused(t)
NoneEnded == \A t \in ended : ~Unexcused(t)

AccountsInv ==
  /\ AccountsTypes /\ \A r \in Request : ReadOK(r)
  /\ AllListed /\ Killing /\ AllOver /\ NoneEnded

-----------------------------------------------------------------------------
(* Accounts: the operators *)

LEMMA Excusing ==
  ASSUME AccountsTypes, NEW X, NEW c \in Cause
  PROVE  /\ Excuse(X, c) \in [Session \cup Passkey -> SUBSET Cause]
         /\ \A x \in Session \cup Passkey : /\ why[x] \subseteq Excuse(X, c)[x]
                                            /\ x \in X => Excuse(X, c)[x] # {}
  BY DEF AccountsTypes, Excuse

\* A step that is about request r.
About(r) == req' = [req EXCEPT ![r] = req'[r]]

LEMMA AboutKeeps ==
  ASSUME AccountsTypes, NEW r \in Request, About(r), req'[r] \in RequestRow
  PROVE  req' \in [Request -> RequestRow] /\ \A q \in Request : q # r => req'[q] = req[q]
  BY DEF AccountsTypes, About

LEMMA GoMoves ==
  ASSUME AccountsTypes, NEW r \in Request, NEW pc \in Pc, Go(r, pc)
  PROVE  /\ About(r) /\ req'[r] \in RequestRow
         /\ req'[r].op = req[r].op /\ req'[r].pc = pc /\ req'[r].tok = req[r].tok /\ req'[r].key = req[r].key
         /\ req'[r].copy = req[r].copy /\ req'[r].since = req[r].since /\ req'[r].who = req[r].who
<1>1. req[r] \in RequestRow /\ req'[r] = [req[r] EXCEPT !.pc = pc] /\ About(r)
  BY DEF AccountsTypes, Go, About
<1> QED BY <1>1 DEF RequestRow

LEMMA GoWithMoves ==
  ASSUME AccountsTypes, NEW r \in Request, NEW pc \in Pc, NEW read \in Copies, GoWith(r, pc, read)
  PROVE  /\ About(r) /\ req'[r] \in RequestRow
         /\ req'[r].op = req[r].op /\ req'[r].pc = pc /\ req'[r].tok = req[r].tok /\ req'[r].key = req[r].key
         /\ req'[r].copy = read /\ req'[r].since = req[r].since /\ req'[r].who = req[r].who
<1>1. req[r] \in RequestRow
  BY DEF AccountsTypes
<1>2. req' = [req EXCEPT ![r] = [req[r] EXCEPT !.pc = pc, !.copy = read]]
  BY DEF GoWith, AccountsTypes
<1>3. req'[r] = [req[r] EXCEPT !.pc = pc, !.copy = read] /\ About(r)
  BY <1>2 DEF AccountsTypes, About
<1> QED BY <1>1, <1>3 DEF RequestRow

LEMMA IdleRow == Idle \in RequestRow /\ Idle.op = "none" /\ Idle.pc = "idle" /\ Idle.tok = None /\ Idle.since = {}
  BY AccountsAssumption DEF Idle, RequestRow, Copies, Pc, Op

LEMMA EndMoves ==
  ASSUME AccountsTypes, NEW r \in Request, End(r)
  PROVE  /\ About(r) /\ req'[r] \in RequestRow /\ req'[r] = Idle
  BY IdleRow DEF AccountsTypes, End, About

\* A request that is over, or goes to a stage at which it carries nothing new.
LEMMA IdleReads ==
  ASSUME NEW r \in Request, req'[r] = Idle
  PROVE  ReadOK(r)' /\ Over(r)' = {} /\ req'[r].pc # "kill"
  BY IdleRow DEF ReadOK, OpAt, Over

Plain == {"start", "find", "auth", "go", "put", "take", "spend", "read", "found", "open", "challenge", "signed",
          "match", "leave", "revoke", "token", "passkeys", "entries", "lock", "rows"}

LEMMA PlainReads ==
  ASSUME NEW r \in Request, ReadOK(r), handed' = handed, req[r].pc \notin {"list", "enter"},
         req'[r].pc \in Plain, req'[r].op \in OpAt(req'[r].pc),
         req'[r].op = req[r].op, req'[r].tok = req[r].tok, req'[r].since = req[r].since, req'[r].key = req[r].key
  PROVE  ReadOK(r)'
  BY DEF ReadOK, Plain

-----------------------------------------------------------------------------
(* Accounts: what a step keeps *)

LEMMA StepKeeps ==
  ASSUME AccountsInv, NEW r \in Request, About(r), req'[r] \in RequestRow, AccountsTypes', ReadOK(r)',
         handed \subseteq handed', \A t \in handed : Unexcused(t)' => Unexcused(t),
         AllListed', \A t \in Over(r)' : ~Unexcused(t)', \A t \in ended' : t \in ended \/ ~Unexcused(t)',
         req'[r].pc = "kill" => \A t \in req'[r].since : Unexcused(t)' => t \in SetOf(req'[r].copy)
  PROVE  AccountsInv'
<1>1. \A q \in Request : q # r => req'[q] = req[q]
  BY AboutKeeps DEF AccountsInv
<1>2. ASSUME NEW q \in Request, q # r
      PROVE  ReadOK(q)' /\ Over(q)' = Over(q) /\ Over(q) \subseteq handed
  <2>1. req'[q] = req[q] /\ ReadOK(q)
    BY <1>1, <1>2 DEF AccountsInv
  <2>2. \A s : IndexCopy(s) => IndexCopy(s)'
    BY DEF IndexCopy, SetOf
  <2>3. ReadOK(q)'
    BY <2>1, <2>2 DEF ReadOK
  <2>4. Over(q)' = Over(q)
    BY <2>1 DEF Over, Answered, Except, SetOf
  <2>5. Over(q) \subseteq handed
    BY <2>1 DEF Over, Answered, ReadOK, IndexCopy
  <2> QED BY <2>3, <2>4, <2>5
<1>3. \A q \in Request : ReadOK(q)'
  BY <1>2
<1>4. AllOver'
  <2> SUFFICES ASSUME NEW q \in Request, NEW t \in Over(q)'
               PROVE  ~Unexcused(t)'
    BY DEF AllOver
  <2>1. CASE q # r
    BY <1>2, <2>1 DEF AccountsInv, AllOver
  <2>2. CASE q = r
    <3>1. Over(q)' = Over(r)'
      BY <2>2 DEF Over, Answered, Except, SetOf
    <3> QED BY <3>1
  <2> QED BY <2>1, <2>2
<1>5. Killing'
  <2> SUFFICES ASSUME NEW q \in Request, req'[q].pc = "kill", NEW t \in req'[q].since, Unexcused(t)'
               PROVE  t \in SetOf(req'[q].copy)
    BY DEF Killing, At, SetOf
  <2>1. CASE q = r
    BY <2>1
  <2>2. CASE q # r
    <3>1. req'[q] = req[q] /\ ReadOK(q)
      BY <1>1, <2>2 DEF AccountsInv
    <3>2. Unexcused(t)
      BY <3>1 DEF ReadOK
    <3> QED BY <3>1, <3>2 DEF AccountsInv, Killing, At
  <2> QED BY <2>1, <2>2
<1>6. NoneEnded'
  BY DEF NoneEnded, AccountsInv, AccountsTypes
<1> QED BY <1>3, <1>4, <1>5, <1>6 DEF AccountsInv

\* What makes nobody unexcused.
Grows == why' \in [Session \cup Passkey -> SUBSET Cause] /\ \A x \in Session \cup Passkey : why[x] \subseteq why'[x]

LEMMA Still ==
  ASSUME AccountsTypes, Grows, session' = session, now' = now
  PROVE  \A t \in Session : Unexcused(t)' => Unexcused(t)
  BY DEF Grows, Unexcused, Live

LEMMA StillKeeps ==
  ASSUME AccountsInv, NEW r \in Request, About(r), req'[r] \in RequestRow, Grows,
         UNCHANGED <<now, session, index, handed, ended>>,
         creds' = None \/ creds' \subseteq Passkey, regCha' # None => regCha'.add \in Copies,
         ReadOK(r)', Over(r)' \subseteq Over(r), req'[r].pc # "kill"
  PROVE  AccountsInv'
<1>1. \A t \in Session : Unexcused(t)' => Unexcused(t)
  BY Still DEF AccountsInv
<1>2. Listed' = Listed
  BY DEF Listed
<1>3. AccountsTypes'
  BY <1>2, AboutKeeps DEF AccountsInv, AccountsTypes, IndexCopy, SetOf, Grows
<1>4. AllListed'
  <2>1. ListedSet' = ListedSet
    BY <1>2 DEF ListedSet
  <2> QED BY <1>1, <2>1 DEF AllListed, AccountsInv, AccountsTypes
<1>5. \A t \in Over(r)' : ~Unexcused(t)'
  <2>1. Over(r) \subseteq Session
    BY DEF Over, Answered, ReadOK, IndexCopy, AccountsInv, AccountsTypes
  <2> QED BY <1>1, <2>1 DEF AccountsInv, AllOver
<1> QED BY <1>1, <1>3, <1>4, <1>5, StepKeeps DEF AccountsInv, AccountsTypes

-----------------------------------------------------------------------------
(* Accounts: the steps that leave sessions and index alone *)

SessionsRest == UNCHANGED <<now, session, index, handed, ended>>
StoresTyped == (creds = None \/ creds \subseteq Passkey) /\ (regCha # None => regCha.add \in Copies)

LEMMA EndKeeps ==
  ASSUME AccountsInv, NEW r \in Request, End(r), Grows, SessionsRest, StoresTyped'
  PROVE  AccountsInv'
<1>1. AccountsTypes
  BY DEF AccountsInv
<1>2. About(r) /\ req'[r] \in RequestRow /\ req'[r] = Idle
  BY <1>1, EndMoves
<1> QED BY <1>2, IdleReads, StillKeeps DEF SessionsRest, StoresTyped

WithKeys == {"write", "spent", "used"}
Late == {"token", "passkeys", "entries", "lock", "rows"}

LEMMA MoveKeeps ==
  ASSUME AccountsInv, NEW r \in Request, Grows, SessionsRest, StoresTyped', About(r), req'[r] \in RequestRow,
         req'[r].op = req[r].op, req'[r].tok = req[r].tok, req'[r].since = req[r].since, req'[r].key = req[r].key,
         req[r].pc \notin {"list", "enter"},
         req'[r].op \in OpAt(req'[r].pc), req'[r].pc \in Late => req[r].pc \in Late,
         req'[r].pc \in Plain \/ (req'[r].pc \in WithKeys /\ req'[r].copy \subseteq Passkey)
  PROVE  AccountsInv'
<1>1. ReadOK(r) /\ handed' = handed
  BY DEF AccountsInv, SessionsRest
<1>2. ReadOK(r)'
  <2>1. CASE req'[r].pc \in Plain
    BY <1>1, <2>1, PlainReads
  <2>2. CASE req'[r].pc \in WithKeys /\ req'[r].copy \subseteq Passkey
    BY <1>1, <2>2 DEF ReadOK, WithKeys
  <2> QED BY <2>1, <2>2
<1>3. req'[r].pc # "kill"
  BY DEF Plain, WithKeys
<1>4. Over(r)' \subseteq Over(r)
  <2>1. CASE req'[r].pc \in Late
    BY <2>1 DEF Over, Late, Answered, Except
  <2>2. CASE req'[r].pc \notin Late
    BY <2>2 DEF Over, Late, Plain, WithKeys
  <2> QED BY <2>1, <2>2
<1> QED BY <1>2, <1>3, <1>4, StillKeeps DEF SessionsRest, StoresTyped

LEMMA SameGrows ==
  ASSUME AccountsTypes, why' = why
  PROVE  Grows
  BY DEF AccountsTypes, Grows

LEMMA SameTyped ==
  ASSUME AccountsTypes, creds' = creds, regCha' = regCha
  PROVE  StoresTyped'
  BY DEF AccountsTypes, StoresTyped

LEMMA ExcusedGrows ==
  ASSUME AccountsTypes, NEW X, NEW c \in Cause, why' = Excuse(X, c)
  PROVE  Grows /\ \A x \in Session \cup Passkey : x \in X => why'[x] # {}
  BY Excusing DEF Grows

LEMMA WriteGrows ==
  ASSUME AccountsTypes, NEW copy, NEW new, WriteCreds(copy, new)
  PROVE  Grows /\ creds' = new
  BY ExcusedGrows DEF WriteCreds, Cause

\* What a stage says of its operation.
LEMMA StageOp ==
  ASSUME AccountsInv, NEW r \in Request
  PROVE  req[r].op \in OpAt(req[r].pc) /\ req[r] \in RequestRow
  BY DEF AccountsInv, ReadOK, AccountsTypes

LEMMA ReadsKeep ==
  ASSUME AccountsInv, NEW r \in Request,
         \/ ReadForRemove(r) \/ ReadForRename(r) \/ ReadForAdd(r) \/ RegisterStart(r) \/ RegisterRoom(r)
         \/ RegisterTake(r) \/ LoginTake(r) \/ Logout(r) \/ DeleteCheck(r)
  PROVE  AccountsInv'
<1>1. AccountsTypes /\ UNCHANGED <<why, creds, regCha>> /\ SessionsRest
  BY DEF ReadForRemove, ReadForRename, ReadForAdd, RegisterStart, RegisterRoom, RegisterTake, LoginTake, Logout,
         DeleteCheck, stores, ghosts, SessionsRest, AccountsInv
<1>2. Grows /\ StoresTyped'
  BY <1>1, SameGrows, SameTyped
<1>3. CASE End(r)
  BY <1>1, <1>2, <1>3, EndKeeps
<1>4. ASSUME NEW pc \in Plain \ Late, Go(r, pc), req[r].op \in OpAt(pc), req[r].pc \notin {"list", "enter"}
      PROVE  AccountsInv'
  <2>1. pc \in Pc
    BY DEF Plain, Pc
  <2> QED BY <1>1, <1>2, <1>4, <2>1, GoMoves, MoveKeeps
<1>5. ASSUME NEW pc \in (Plain \ Late) \cup {"write"}, NEW read \in Copies, GoWith(r, pc, read),
             req[r].op \in OpAt(pc), req[r].pc \notin {"list", "enter"}, pc = "write" => read \subseteq Passkey
      PROVE  AccountsInv'
  <2>1. pc \in Pc
    BY DEF Plain, Pc
  <2>2. About(r) /\ req'[r] \in RequestRow /\ req'[r].op = req[r].op /\ req'[r].pc = pc /\ req'[r].tok = req[r].tok
        /\ req'[r].key = req[r].key /\ req'[r].copy = read /\ req'[r].since = req[r].since
    BY <1>1, <1>5, <2>1, GoWithMoves
  <2>3. CASE pc \in WithKeys
    BY <1>1, <1>2, <1>5, <2>2, <2>3, MoveKeeps DEF Late, WithKeys
  <2>4. CASE pc \in Plain \ Late
    BY <1>1, <1>2, <1>5, <2>2, <2>4, MoveKeeps
  <2> QED BY <1>5, <2>3, <2>4 DEF WithKeys
<1>6. creds # None => creds \in Copies /\ creds \subseteq Passkey
  BY <1>1 DEF AccountsTypes, Copies
<1>7. req[r].op \in OpAt(req[r].pc)
  BY StageOp
<1>8. CASE ReadForRemove(r)
  <2>1. End(r) \/ (creds # None /\ GoWith(r, "write", creds))
    BY <1>8 DEF ReadForRemove
  <2> QED BY <1>3, <1>5, <1>6, <1>8, <2>1 DEF ReadForRemove, At, OpAt
<1>9. CASE ReadForRename(r)
  <2>1. End(r) \/ (creds # None /\ GoWith(r, "write", creds))
    BY <1>9 DEF ReadForRename, Stored
  <2> QED BY <1>3, <1>5, <1>6, <1>9, <2>1 DEF ReadForRename, At, OpAt
<1>10. CASE ReadForAdd(r)
  BY <1>3, <1>5, <1>6, <1>7, <1>10 DEF ReadForAdd, At, OpAt
<1>11. CASE RegisterStart(r)
  <2>1. FALSE \in Copies
    BY DEF Copies
  <2>2. req[r].op = "register" /\ req[r].pc = "start"
    BY <1>7, <1>11 DEF RegisterStart, At, OpAt
  <2>3. End(r) \/ Go(r, "auth") \/ GoWith(r, "put", FALSE)
    BY <1>11 DEF RegisterStart
  <2> QED BY <1>3, <1>4, <1>5, <2>1, <2>2, <2>3 DEF OpAt, Plain, Late, Op
<1>12. CASE RegisterRoom(r)
  BY <1>3, <1>5, <1>12 DEF RegisterRoom, At, OpAt, Plain, Late, Copies
<1>13. CASE RegisterTake(r)
  <2>1. req[r].op = "register" /\ req[r].pc = "take"
    BY <1>7, <1>13 DEF RegisterTake, At, OpAt
  <2>2. End(r) \/ (regCha.add \in Copies /\ GoWith(r, "spend", regCha.add))
    BY <1>1, <1>13 DEF RegisterTake, AccountsTypes
  <2> QED BY <1>3, <1>5, <2>1, <2>2 DEF OpAt, Plain, Late
<1>14. CASE LoginTake(r)
  BY <1>3, <1>4, <1>7, <1>14 DEF LoginTake, At, OpAt, Plain, Late
<1>15. CASE Logout(r)
  <2>1. Live(req[r].tok) \in Copies
    BY DEF Live, Copies
  <2> QED BY <1>5, <1>7, <1>15, <2>1 DEF Logout, At, OpAt, Plain, Late
<1>16. CASE DeleteCheck(r)
  BY <1>3, <1>4, <1>16 DEF DeleteCheck, At, OpAt, Plain, Late, Op
<1> QED BY <1>8, <1>9, <1>10, <1>11, <1>12, <1>13, <1>14, <1>15, <1>16

LEMMA WritesKeep ==
  ASSUME AccountsInv, NEW r \in Request,
         \/ WritePasskeys(r) \/ RegisterPut(r) \/ RegisterSpend(r) \/ Found(r) \/ LoginStart(r) \/ LoginMatch(r)
         \/ LoginSpend(r) \/ LoginUsed(r) \/ RevokeDevice(r)
  PROVE  AccountsInv'
<1>1. AccountsTypes /\ SessionsRest /\ ReadOK(r) /\ req[r] \in RequestRow
  BY DEF WritePasskeys, RegisterPut, RegisterSpend, Found, LoginStart, LoginMatch, LoginSpend, LoginUsed,
         RevokeDevice, ghosts, SessionsRest, AccountsInv, AccountsTypes
<1>2. req[r].op \in OpAt(req[r].pc)
  BY StageOp
<1>3. ASSUME NEW pc \in Plain \ Late, Go(r, pc), req[r].op \in OpAt(pc), req[r].pc \notin {"list", "enter"},
             Grows, StoresTyped'
      PROVE  AccountsInv'
  <2>1. pc \in Pc
    BY DEF Plain, Pc
  <2> QED BY <1>1, <1>3, <2>1, GoMoves, MoveKeeps
<1>4. ASSUME NEW pc \in (Plain \ Late) \cup WithKeys, NEW read \in Copies, GoWith(r, pc, read),
             req[r].op \in OpAt(pc), req[r].pc \notin {"list", "enter"}, Grows, StoresTyped',
             pc \in WithKeys => read \subseteq Passkey
      PROVE  AccountsInv'
  <2>1. pc \in Pc
    BY DEF Plain, Pc, WithKeys
  <2>2. About(r) /\ req'[r] \in RequestRow /\ req'[r].op = req[r].op /\ req'[r].pc = pc /\ req'[r].tok = req[r].tok
        /\ req'[r].key = req[r].key /\ req'[r].copy = read /\ req'[r].since = req[r].since
    BY <1>1, <1>4, <2>1, GoWithMoves
  <2>3. CASE pc \in WithKeys
    BY <1>1, <1>4, <2>2, <2>3, MoveKeeps DEF Late, WithKeys
  <2>4. CASE pc \in Plain \ Late
    BY <1>1, <1>4, <2>2, <2>4, MoveKeeps
  <2> QED BY <1>4, <2>3, <2>4
<1>5. None \in Copies
  BY DEF Copies
<1>6. CASE WritePasskeys(r)
  <2>1. req[r].pc = "write" /\ req[r].op \in {"remove", "rename", "register"}
    BY <1>2, <1>6 DEF WritePasskeys, At, OpAt
  <2>2. NewCreds(req[r].op, req[r].copy, req[r].key) \subseteq Passkey
    BY <1>1, <2>1 DEF ReadOK, NewCreds
  <2>3. Grows /\ creds' = NewCreds(req[r].op, req[r].copy, req[r].key) /\ regCha' = regCha /\ End(r)
    BY <1>1, <1>6, WriteGrows DEF WritePasskeys
  <2>4. StoresTyped'
    BY <1>1, <2>2, <2>3 DEF StoresTyped, AccountsTypes
  <2> QED BY <1>1, <2>3, <2>4, EndKeeps
<1>7. CASE RegisterPut(r)
  <2>1. req[r].op = "register" /\ req[r].pc = "put" /\ GoWith(r, "take", None) /\ why' = why
    BY <1>2, <1>7 DEF RegisterPut, At, OpAt, ghosts
  <2>2. StoresTyped'
    BY <1>1, <1>7 DEF RegisterPut, StoresTyped, AccountsTypes, RequestRow
  <2> QED BY <1>1, <1>4, <1>5, <2>1, <2>2, SameGrows DEF OpAt, Plain, Late, WithKeys
<1>8. CASE RegisterSpend(r)
  <2>1. req[r].op = "register" /\ req[r].pc = "spend" /\ why' = why
    BY <1>2, <1>8 DEF RegisterSpend, At, OpAt, ghosts
  <2>2. StoresTyped'
    BY <1>1, <1>8 DEF RegisterSpend, StoresTyped, AccountsTypes
  <2>3. PICK pc \in {"read", "found"} : GoWith(r, pc, None)
    BY <1>8 DEF RegisterSpend
  <2> QED BY <1>1, <1>4, <1>5, <2>1, <2>2, <2>3, SameGrows DEF OpAt, Plain, Late, WithKeys
<1>9. CASE Found(r)
  <2>1. req[r].op = "register" /\ req[r].pc = "found" /\ Go(r, "open")
    BY <1>2, <1>9 DEF Found, At, OpAt
  <2>2. Grows /\ creds' = {req[r].key} /\ regCha' = regCha
    BY <1>1, <1>9, WriteGrows DEF Found
  <2>3. StoresTyped'
    BY <1>1, <2>1, <2>2 DEF StoresTyped, AccountsTypes, ReadOK
  <2> QED BY <1>3, <2>1, <2>2, <2>3 DEF OpAt, Plain, Late
<1>10. CASE LoginStart(r)
  <2>1. req[r].op = "login" /\ req[r].pc = "challenge" /\ UNCHANGED <<why, creds, regCha>> /\ (End(r) \/ Go(r, "signed"))
    BY <1>2, <1>10 DEF LoginStart, At, OpAt, ghosts
  <2> QED BY <1>1, <1>3, <2>1, SameGrows, SameTyped, EndKeeps DEF OpAt, Plain, Late
<1>11. CASE LoginMatch(r)
  <2>1. req[r].op = "login" /\ req[r].pc = "match" /\ UNCHANGED <<why, creds, regCha>>
    BY <1>2, <1>11 DEF LoginMatch, At, OpAt, ghosts
  <2>2. End(r) \/ (creds # None /\ GoWith(r, "spent", creds))
    BY <1>11 DEF LoginMatch, Stored
  <2>3. CASE End(r)
    BY <1>1, <2>1, <2>3, SameGrows, SameTyped, EndKeeps
  <2>4. CASE creds # None /\ GoWith(r, "spent", creds)
    <3>1. creds \in Copies
      BY <1>1, <2>4 DEF AccountsTypes, Copies
    <3>2. creds \subseteq Passkey
      BY <1>1, <2>4 DEF AccountsTypes
    <3> QED BY <1>1, <1>4, <2>1, <2>4, <3>1, <3>2, SameGrows, SameTyped DEF OpAt, WithKeys
  <2> QED BY <2>2, <2>3, <2>4
<1>12. CASE LoginSpend(r)
  <2>1. req[r].op = "login" /\ req[r].pc = "spent" /\ UNCHANGED <<why, creds, regCha>> /\ Go(r, "used")
    BY <1>2, <1>12 DEF LoginSpend, At, OpAt, ghosts
  <2>2. "used" \in Pc /\ req[r].copy \subseteq Passkey
    BY <1>1, <2>1 DEF ReadOK, Pc
  <2> QED BY <1>1, <2>1, <2>2, GoMoves, MoveKeeps, SameGrows, SameTyped DEF OpAt, WithKeys, Late
<1>13. CASE LoginUsed(r)
  <2>1. req[r].op = "login" /\ req[r].pc = "used" /\ GoWith(r, "open", None) /\ req[r].copy \subseteq Passkey
    BY <1>1, <1>2, <1>13 DEF LoginUsed, At, OpAt, ReadOK
  <2>2. Grows /\ creds' = req[r].copy /\ regCha' = regCha
    BY <1>1, <1>13, WriteGrows DEF LoginUsed
  <2>3. StoresTyped'
    BY <1>1, <2>1, <2>2 DEF StoresTyped, AccountsTypes
  <2> QED BY <1>4, <1>5, <2>1, <2>2, <2>3 DEF OpAt, Plain, Late, WithKeys
<1>14. CASE RevokeDevice(r)
  <2>1. req[r].op \in {"revoke", "disown"} /\ req[r].pc = "go" /\ UNCHANGED <<why, creds, regCha>>
        /\ (End(r) \/ GoWith(r, "revoke", None))
    BY <1>14 DEF RevokeDevice, At, ghosts
  <2> QED BY <1>1, <1>4, <1>5, <2>1, SameGrows, SameTyped, EndKeeps DEF OpAt, Plain, Late, Op, WithKeys
<1> QED BY <1>6, <1>7, <1>8, <1>9, <1>10, <1>11, <1>12, <1>13, <1>14

LEMMA RestsKeep ==
  ASSUME AccountsInv, UNCHANGED <<now, session, index, creds, regCha, req, handed, ended, why>>
  PROVE  AccountsInv'
<1>1. UNCHANGED <<Listed, ListedSet>>
  BY DEF Listed, ListedSet
<1>2. AccountsTypes'
  BY <1>1 DEF AccountsInv, AccountsTypes, IndexCopy, SetOf
<1>3. \A r \in Request : ReadOK(r)' /\ Over(r)' = Over(r)
  BY DEF AccountsInv, ReadOK, IndexCopy, SetOf, Over, Answered, Except
<1>4. \A t : Unexcused(t)' <=> Unexcused(t)
  BY DEF Unexcused, Live
<1>5. AllListed' /\ NoneEnded'
  BY <1>1, <1>4 DEF AccountsInv, AllListed, NoneEnded
<1>6. Killing'
  BY <1>4 DEF AccountsInv, Killing, At, SetOf
<1>7. AllOver'
  BY <1>3, <1>4 DEF AccountsInv, AllOver
<1> QED BY <1>2, <1>3, <1>5, <1>6, <1>7 DEF AccountsInv

Begun(op, p, tok, k, pc, since) ==
  [Idle EXCEPT !.op = op, !.who = p, !.tok = tok, !.key = k, !.pc = pc, !.since = since]

LEMMA BegunRow ==
  ASSUME NEW op \in Op, NEW p \in Person, NEW tok \in Session \cup {None}, NEW k \in Passkey \cup {None},
         NEW pc \in Pc, NEW since \in SUBSET Session
  PROVE  /\ Begun(op, p, tok, k, pc, since) \in RequestRow
         /\ Begun(op, p, tok, k, pc, since).op = op /\ Begun(op, p, tok, k, pc, since).pc = pc
         /\ Begun(op, p, tok, k, pc, since).tok = tok /\ Begun(op, p, tok, k, pc, since).key = k
         /\ Begun(op, p, tok, k, pc, since).since = since
<1> DEFINE q == Begun(op, p, tok, k, pc, since)
<1>1. q.op = op /\ q.pc = pc /\ q.tok = tok /\ q.key = k /\ q.since = since
  BY DEF Begun, Idle
<1>2. q \in RequestRow
  <2>1. Idle \in RequestRow
    BY IdleRow
  <2> QED BY <2>1 DEF Begun, RequestRow
<1> QED BY <1>1, <1>2

LEMMA BeginKeeps ==
  ASSUME AccountsInv, NEW r \in Request, NEW op \in Op, NEW p \in Person, Begin(r, op, p)
  PROVE  AccountsInv'
<1>1. PICK tok \in CookieFor(op, p), k \in KeyFor(op, p) :
        req' = [req EXCEPT ![r] = [Idle EXCEPT !.op = op, !.who = p, !.tok = tok, !.key = k,
            !.pc = CASE op = "login" -> "challenge" [] op = "register" -> "start"
                     [] op = "logout" -> "find" [] OTHER -> "auth",
            !.since = IF op \in {"revoke", "disown", "delete"} THEN handed ELSE {}]]
  BY DEF Begin
<1>2. PICK pc \in {"challenge", "start", "find", "auth"} :
        /\ pc = CASE op = "login" -> "challenge" [] op = "register" -> "start"
                  [] op = "logout" -> "find" [] OTHER -> "auth"
        /\ op \in OpAt(pc)
  BY DEF OpAt
<1>3. PICK since \in SUBSET handed : since = IF op \in {"revoke", "disown", "delete"} THEN handed ELSE {}
  OBVIOUS
<1>4. /\ tok \in handed \cup {None} /\ (op \notin {"login", "register"} => tok \in handed)
      /\ k \in Passkey \cup {None} /\ (op \in {"remove", "rename", "register", "login"} => k \in Passkey)
  <2>1. tok \in handed \cup {None} /\ (op \notin {"login", "register"} => tok \in handed)
    BY DEF CookieFor
  <2>2. k \in Passkey \cup {None} /\ (op \in {"remove", "rename", "register", "login"} => k \in Passkey)
    <3>1. k \in IF op = "register" THEN FirstOf(FreshKey(p))
                  ELSE IF op = "login" THEN {x \in Passkey : Of(x) = p /\ known[x] \in {"kept", "gone"}}
                  ELSE IF op \in {"remove", "rename"} THEN {x \in Passkey : Of(x) = p /\ known[x] = "kept"} ELSE {None}
      BY DEF KeyFor
    <3>2. FirstOf(FreshKey(p)) \subseteq Passkey
      BY DEF FirstOf, FreshKey
    <3> QED BY <3>1, <3>2
  <2> QED BY <2>1, <2>2
<1>5. AccountsTypes /\ UNCHANGED <<why, creds, regCha>> /\ SessionsRest
  BY DEF AccountsInv, Begin, stores, SessionsRest
<1> DEFINE q == Begun(op, p, tok, k, pc, since)
<1>6. q \in RequestRow /\ q.op = op /\ q.pc = pc /\ q.tok = tok /\ q.key = k /\ q.since = since
  <2>1. tok \in Session \cup {None} /\ pc \in Pc /\ since \in SUBSET Session
    BY <1>3, <1>4, <1>5 DEF AccountsTypes, Pc
  <2>2. k \in Passkey \cup {None}
    BY <1>4
  <2> QED BY <2>1, <2>2, BegunRow
<1>7. req' = [req EXCEPT ![r] = q]
  BY <1>1, <1>2, <1>3 DEF Begun
<1> HIDE DEF q
<1>8. req'[r] = q /\ About(r)
  BY <1>5, <1>7 DEF AccountsTypes, About
<1>9. ReadOK(r)'
  BY <1>2, <1>3, <1>4, <1>5, <1>6, <1>8 DEF ReadOK, SessionsRest
<1>10. Over(r)' = {} /\ req'[r].pc # "kill"
  BY <1>6, <1>8 DEF Over
<1> QED BY <1>5, <1>6, <1>8, <1>9, <1>10, SameGrows, SameTyped, StillKeeps DEF SessionsRest, StoresTyped

LEMMA DeletesKeep ==
  ASSUME AccountsInv, NEW r \in Request, DeletePasskeys(r) \/ DeleteEntries(r) \/ DeleteLock(r) \/ DeleteError(r)
  PROVE  AccountsInv'
<1>1. AccountsTypes /\ UNCHANGED <<why, regCha>> /\ SessionsRest /\ (creds' = None \/ creds' = creds)
  BY DEF AccountsInv, DeletePasskeys, DeleteEntries, DeleteLock, DeleteError, stores, ghosts, SessionsRest
<1>2. Grows /\ StoresTyped'
  BY <1>1, SameGrows DEF StoresTyped, AccountsTypes
<1>3. ASSUME NEW pc \in Late, req[r].pc \in Late, Go(r, pc)
      PROVE  AccountsInv'
  <2>1. pc \in Pc /\ pc \in Plain /\ OpAt(pc) = Op /\ OpAt(req[r].pc) = Op /\ req[r].pc \notin {"list", "enter"}
    BY <1>3 DEF Late, Plain, Pc, OpAt
  <2>2. req[r].op \in OpAt(pc)
    BY <2>1, StageOp
  <2> QED BY <1>1, <1>2, <1>3, <2>1, <2>2, GoMoves, MoveKeeps
<1>4. CASE DeletePasskeys(r)
  BY <1>3, <1>4 DEF DeletePasskeys, At, Late
<1>5. CASE DeleteEntries(r)
  BY <1>3, <1>5 DEF DeleteEntries, At, Late
<1>6. CASE DeleteLock(r)
  BY <1>3, <1>6 DEF DeleteLock, At, Late
<1>7. CASE DeleteError(r)
  BY <1>1, <1>2, <1>7, EndKeeps DEF DeleteError
<1> QED BY <1>4, <1>5, <1>6, <1>7

-----------------------------------------------------------------------------
(* Accounts: the steps that change sessions *)

LEMMA IndexStays ==
  ASSUME AccountsInv, NEW r \in Request, About(r), req'[r] \in RequestRow, UNCHANGED <<now, index, handed>>,
         session' \in [Session -> SessionRecord \cup {None}], Grows, StoresTyped', ended' \subseteq handed,
         \A t \in handed : Unexcused(t)' => Unexcused(t),
         ReadOK(r)', \A t \in Over(r)' : ~Unexcused(t)', \A t \in ended' : t \in ended \/ ~Unexcused(t)',
         req'[r].pc = "kill" => \A t \in req'[r].since : Unexcused(t)' => t \in SetOf(req'[r].copy)
  PROVE  AccountsInv'
<1>1. UNCHANGED <<Listed, ListedSet>>
  BY DEF Listed, ListedSet
<1>2. AccountsTypes'
  BY <1>1, AboutKeeps DEF AccountsInv, AccountsTypes, IndexCopy, SetOf, Grows, StoresTyped
<1>3. AllListed'
  BY <1>1 DEF AllListed, AccountsInv
<1> QED BY <1>2, <1>3, StepKeeps

\* A session that is taken away, and the others stay.
LEMMA OneAway ==
  ASSUME AccountsTypes, NEW t, session' = [session EXCEPT ![t] = None], Grows, now' = now
  PROVE  /\ session' \in [Session -> SessionRecord \cup {None}]
         /\ \A u \in Session : Unexcused(u)' => Unexcused(u)
         /\ t \in Session => ~Unexcused(t)'
<1>1. session' \in [Session -> SessionRecord \cup {None}]
  BY DEF AccountsTypes
<1>2. \A u \in Session : session'[u] = None \/ session'[u] = session[u]
  BY DEF AccountsTypes
<1>3. t \in Session => session'[t] = None
  BY DEF AccountsTypes
<1>4. \A u : session'[u] = None => ~Unexcused(u)'
  BY DEF Unexcused, Live
<1>5. \A u \in Session : Unexcused(u)' => session'[u] = session[u]
  BY <1>2, <1>4
<1>6. \A u \in Session : Unexcused(u)' => Unexcused(u)
  BY <1>5 DEF Unexcused, Live, Grows
<1> QED BY <1>1, <1>3, <1>4, <1>6

LEMMA ProceedMoves ==
  ASSUME AccountsTypes, NEW r \in Request, Proceed(r), ReadOK(r), handed' = handed, req[r].pc \in {"auth", "refresh"}
  PROVE  About(r) /\ req'[r] \in RequestRow /\ ReadOK(r)' /\ Over(r)' = {} /\ req'[r].pc # "kill"
<1>1. CASE End(r)
  BY <1>1, EndMoves, IdleReads
<1>2. CASE GoWith(r, "go", None)
  <2>1. "go" \in Pc /\ None \in Copies /\ "go" \in Plain /\ OpAt("go") = Op /\ OpAt(req[r].pc) = Op
    BY DEF Pc, Copies, Plain, OpAt
  <2>2. About(r) /\ req'[r] \in RequestRow /\ req'[r].op = req[r].op /\ req'[r].pc = "go" /\ req'[r].tok = req[r].tok
        /\ req'[r].key = req[r].key /\ req'[r].since = req[r].since
    BY <1>2, <2>1, GoWithMoves
  <2>3. req[r].op \in Op
    BY <2>1 DEF ReadOK
  <2>4. ReadOK(r)'
    BY <2>1, <2>2, <2>3, PlainReads
  <2>5. Over(r)' = {}
    BY <2>2 DEF Over
  <2> QED BY <2>2, <2>4, <2>5
<1> QED BY <1>1, <1>2 DEF Proceed

LEMMA AuthenticateKeeps ==
  ASSUME AccountsInv, NEW r \in Request, Authenticate(r)
  PROVE  AccountsInv'
<1>1. /\ AccountsTypes /\ ReadOK(r) /\ req[r].pc = "auth"
      /\ UNCHANGED <<now, index, handed, ended, why, creds, regCha>>
  BY DEF AccountsInv, Authenticate, At, ghosts
<1>2. Grows /\ StoresTyped'
  BY <1>1, SameGrows, SameTyped
<1> DEFINE t == req[r].tok
<1>3. \/ End(r) /\ UNCHANGED session
      \/ End(r) /\ session' = [session EXCEPT ![t] = None]
      \/ t # None /\ Live(t) /\ UNCHANGED session /\ GoWith(r, "refresh", session[t])
      \/ UNCHANGED session /\ Proceed(r)
  BY DEF Authenticate
<1>4. CASE End(r) /\ UNCHANGED session
  BY <1>1, <1>2, <1>4, EndKeeps DEF SessionsRest
<1>5. CASE End(r) /\ session' = [session EXCEPT ![t] = None]
  <2>1. About(r) /\ req'[r] \in RequestRow /\ req'[r] = Idle
    BY <1>1, <1>5, EndMoves
  <2>2. ReadOK(r)' /\ Over(r)' = {} /\ req'[r].pc # "kill"
    BY <2>1, IdleReads
  <2>3. /\ session' \in [Session -> SessionRecord \cup {None}]
        /\ \A u \in Session : Unexcused(u)' => Unexcused(u)
    <3> HIDE DEF t
    <3> QED BY <1>1, <1>2, <1>5, OneAway
  <2>4. handed \subseteq Session /\ ended' \subseteq handed
    BY <1>1 DEF AccountsTypes
  <2> QED BY <1>1, <1>2, <2>1, <2>2, <2>3, <2>4, IndexStays
<1>6. CASE t # None /\ Live(t) /\ UNCHANGED session /\ GoWith(r, "refresh", session[t])
  <2>1. t \in handed /\ t \in Session /\ session[t] \in SessionRecord
    BY <1>1, <1>6 DEF ReadOK, AccountsTypes, Live
  <2>2. session[t] \in Copies /\ "refresh" \in Pc /\ OpAt("refresh") = Op /\ OpAt("auth") = Op
    BY <2>1 DEF Copies, Pc, OpAt
  <2>3. About(r) /\ req'[r] \in RequestRow /\ req'[r].op = req[r].op /\ req'[r].pc = "refresh" /\ req'[r].tok = t
        /\ req'[r].key = req[r].key /\ req'[r].copy = session[t] /\ req'[r].since = req[r].since
    BY <1>1, <1>6, <2>2, GoWithMoves
  <2>4. ReadOK(r)'
    BY <1>1, <2>1, <2>2, <2>3 DEF ReadOK
  <2>5. Over(r)' = {}
    BY <2>3 DEF Over
  <2> QED BY <1>1, <1>2, <1>6, <2>3, <2>4, <2>5, StillKeeps DEF StoresTyped
<1>7. CASE UNCHANGED session /\ Proceed(r)
  BY <1>1, <1>2, <1>7, ProceedMoves, StillKeeps DEF StoresTyped
<1> QED BY <1>3, <1>4, <1>5, <1>6, <1>7

LEMMA RefreshKeeps ==
  ASSUME AccountsInv, NEW r \in Request, Refresh(r)
  PROVE  AccountsInv'
<1> DEFINE t == req[r].tok
<1>1. /\ AccountsTypes /\ ReadOK(r) /\ req[r].pc = "refresh" /\ Proceed(r)
      /\ UNCHANGED <<now, index, handed, ended, creds, regCha>>
      /\ session' = [session EXCEPT ![t] = [req[r].copy EXCEPT !.till = now + Life, !.last = now]]
      /\ why' = IF Live(t) THEN why ELSE Excuse({t}, "Refreshed")
  BY DEF AccountsInv, Refresh, At
<1>2. t \in handed /\ t \in Session /\ req[r].copy \in SessionRecord
  BY <1>1 DEF ReadOK, AccountsTypes
<1>3. session' \in [Session -> SessionRecord \cup {None}] /\ \A u \in Session : u # t => session'[u] = session[u]
  <2>1. now \in Int /\ now + Life \in Int
    BY <1>1, AccountsAssumption DEF AccountsTypes
  <2>2. \A c \in SessionRecord : [c EXCEPT !.till = now + Life, !.last = now] \in SessionRecord
    BY <2>1 DEF SessionRecord
  <2> QED BY <1>1, <1>2, <2>2 DEF AccountsTypes
<1>4. Grows /\ (Live(t) \/ why'[t] # {})
  <2>1. CASE Live(t)
    BY <1>1, <2>1, SameGrows
  <2>2. CASE ~Live(t)
    BY <1>1, <1>2, <2>2, ExcusedGrows DEF Cause
  <2> QED BY <2>1, <2>2
<1>5. ASSUME NEW u \in handed, Unexcused(u)'
      PROVE  Unexcused(u)
  <2>1. u \in Session /\ why'[u] = {} /\ why[u] = {}
    BY <1>1, <1>4, <1>5 DEF AccountsTypes, Grows, Unexcused
  <2>2. CASE u = t
    BY <1>4, <2>1, <2>2 DEF Unexcused
  <2>3. CASE u # t
    BY <1>1, <1>3, <1>5, <2>1, <2>3 DEF Unexcused, Live
  <2> QED BY <2>2, <2>3
<1>6. About(r) /\ req'[r] \in RequestRow /\ ReadOK(r)' /\ Over(r)' = {} /\ req'[r].pc # "kill"
  BY <1>1, ProceedMoves
<1>7. StoresTyped' /\ ended' \subseteq handed
  BY <1>1, SameTyped DEF AccountsTypes
<1> QED BY <1>1, <1>3, <1>4, <1>5, <1>6, <1>7, IndexStays

LEMMA OpenSessionKeeps ==
  ASSUME AccountsInv, NEW r \in Request, OpenSession(r)
  PROVE  AccountsInv'
<1>1. /\ AccountsTypes /\ ReadOK(r) /\ req[r] \in RequestRow /\ req[r].pc = "open"
      /\ UNCHANGED <<now, index, handed, ended, creds, regCha>>
  BY DEF AccountsInv, AccountsTypes, OpenSession, At
<1>2. PICK t \in FirstOf(NewSession(req[r].who)) :
        /\ session' = [session EXCEPT ![t] = SessionOf(IF req[r].op = "login" THEN now + Life ELSE Never)]
        /\ req' = [req EXCEPT ![r].pc = "list", ![r].tok = t]
        /\ why' = Excuse(IF Deleting # {} \/ owner # req[r].who THEN {t} ELSE {}, "OpenedLate")
  BY DEF OpenSession
<1>3. t \in Session /\ t \notin handed
  BY DEF FirstOf, NewSession
<1>4. session' \in [Session -> SessionRecord \cup {None}] /\ \A u \in Session : u # t => session'[u] = session[u]
  <2>1. SessionOf(IF req[r].op = "login" THEN now + Life ELSE Never) \in SessionRecord
    BY <1>1, AccountsAssumption DEF SessionOf, SessionRecord, Never, AccountsTypes
  <2> QED BY <1>1, <1>2, <1>3, <2>1 DEF AccountsTypes
<1>5. Grows
  BY <1>1, <1>2, ExcusedGrows DEF Cause
<1>6. /\ About(r) /\ req'[r] \in RequestRow /\ req'[r].op = req[r].op /\ req'[r].pc = "list" /\ req'[r].tok = t
      /\ req'[r].key = req[r].key /\ req'[r].since = req[r].since
  <2> DEFINE q == [req[r] EXCEPT !.pc = "list", !.tok = t]
  <2>1. req' = [req EXCEPT ![r] = q]
    BY <1>1, <1>2 DEF AccountsTypes
  <2>2. q \in RequestRow /\ q.op = req[r].op /\ q.pc = "list" /\ q.tok = t /\ q.key = req[r].key /\ q.since = req[r].since
    BY <1>1, <1>3 DEF RequestRow, Pc
  <2> HIDE DEF q
  <2>3. req'[r] = q
    BY <1>1, <2>1 DEF AccountsTypes
  <2> QED BY <2>1, <2>2, <2>3 DEF About
<1>7. req[r].op \in {"login", "register"} /\ req[r].since \subseteq handed /\ req[r].key \in Passkey
  BY <1>1 DEF ReadOK, OpAt
<1>8. ReadOK(r)'
  BY <1>1, <1>3, <1>6, <1>7 DEF ReadOK, OpAt
<1>9. Over(r)' = {} /\ req'[r].pc # "kill"
  BY <1>6, <1>7 DEF Over
<1>10. ASSUME NEW u \in handed, Unexcused(u)' PROVE Unexcused(u)
  <2>1. u \in Session /\ u # t
    BY <1>1, <1>3 DEF AccountsTypes
  <2> QED BY <1>1, <1>4, <1>5, <1>10, <2>1 DEF Unexcused, Live, Grows
<1>11. StoresTyped' /\ ended' \subseteq handed
  BY <1>1, SameTyped DEF AccountsTypes
<1> QED BY <1>1, <1>4, <1>5, <1>6, <1>8, <1>9, <1>10, <1>11, IndexStays

LEMMA ReadIndexKeeps ==
  ASSUME AccountsInv, NEW r \in Request, ReadIndex(r)
  PROVE  AccountsInv'
<1>1. /\ AccountsTypes /\ ReadOK(r) /\ req[r].pc = "list"
      /\ UNCHANGED <<now, session, index, handed, why, creds, regCha>>
  BY DEF AccountsInv, ReadIndex, At, stores
<1>2. Grows /\ StoresTyped' /\ session' \in [Session -> SessionRecord \cup {None}]
  BY <1>1, SameGrows, SameTyped DEF AccountsTypes
<1>3. \A t \in Session : Unexcused(t)' => Unexcused(t)
  BY <1>1, <1>2, Still
<1>4. handed \subseteq Session /\ ended \subseteq handed /\ \A t \in Over(r) : ~Unexcused(t)
  BY <1>1 DEF AccountsTypes, AccountsInv, AllOver
<1>5. CASE req[r].op = "logout" /\ index = None
  <2>1. End(r) /\ ended' = ended \cup {req[r].tok}
    BY <1>5 DEF ReadIndex
  <2>2. req[r].tok \in Over(r) /\ req[r].tok \in handed
    BY <1>1, <1>5 DEF Over, ReadOK
  <2>3. About(r) /\ req'[r] \in RequestRow /\ req'[r] = Idle
    BY <1>1, <2>1, EndMoves
  <2>4. ReadOK(r)' /\ Over(r)' = {} /\ req'[r].pc # "kill"
    BY <2>3, IdleReads
  <2> QED BY <1>1, <1>2, <1>3, <1>4, <2>1, <2>2, <2>3, <2>4, IndexStays
<1>6. CASE ~(req[r].op = "logout" /\ index = None)
  <2>1. GoWith(r, "enter", Listed) /\ ended' = ended
    BY <1>6 DEF ReadIndex
  <2>2. IndexCopy(Listed) /\ Listed \in Copies /\ "enter" \in Pc
    <3>1. IndexCopy(Listed)
      BY <1>1 DEF AccountsTypes
    <3>2. Listed \in Seq(Session)
      BY <3>1 DEF IndexCopy
    <3>3. Listed \in Copies
      BY <3>2 DEF Copies
    <3> QED BY <3>1, <3>3 DEF Pc
  <2>3. About(r) /\ req'[r] \in RequestRow /\ req'[r].op = req[r].op /\ req'[r].pc = "enter" /\ req'[r].tok = req[r].tok
        /\ req'[r].key = req[r].key /\ req'[r].copy = Listed /\ req'[r].since = req[r].since
    BY <1>1, <2>1, <2>2, GoWithMoves
  <2>4. ReadOK(r)'
    <3>1. IndexCopy(Listed)'
      BY <1>1, <2>2 DEF IndexCopy, SetOf, Listed
    <3>2. Listed' = Listed /\ \A s : IndexCopy(s) => IndexCopy(s)'
      BY <1>1 DEF Listed, IndexCopy, SetOf
    <3> QED BY <1>1, <2>2, <2>3, <3>2 DEF ReadOK, OpAt
  <2>5. Over(r)' = Over(r) /\ req'[r].pc # "kill"
    BY <1>1, <2>3 DEF Over
  <2>6. Over(r) \subseteq handed
    BY <1>1 DEF Over, ReadOK
  <2> QED BY <1>1, <1>2, <1>3, <1>4, <2>1, <2>3, <2>4, <2>5, <2>6, IndexStays
<1> QED BY <1>5, <1>6

LEMMA LogoutDeleteKeeps ==
  ASSUME AccountsInv, NEW r \in Request, LogoutDelete(r)
  PROVE  AccountsInv'
<1> PICK t : t = req[r].tok
  OBVIOUS
<1>1. /\ AccountsTypes /\ ReadOK(r) /\ req[r].pc = "leave"
      /\ UNCHANGED <<now, index, handed, why, creds, regCha>>
      /\ session' = [session EXCEPT ![t] = None]
  BY DEF AccountsInv, LogoutDelete, At
<1>2. Grows /\ StoresTyped'
  BY <1>1, SameGrows, SameTyped
<1>3. req[r].op = "logout" /\ t \in handed /\ t \in Session /\ handed \subseteq Session /\ ended \subseteq handed
  BY <1>1 DEF ReadOK, OpAt, AccountsTypes
<1>4. /\ session' \in [Session -> SessionRecord \cup {None}] /\ ~Unexcused(t)'
      /\ \A u \in Session : Unexcused(u)' => Unexcused(u)
  BY <1>1, <1>2, <1>3, OneAway
<1>5. CASE End(r) /\ ended' = ended \cup {t}
  <2>1. About(r) /\ req'[r] \in RequestRow /\ req'[r] = Idle
    BY <1>1, <1>5, EndMoves
  <2>2. ReadOK(r)' /\ Over(r)' = {} /\ req'[r].pc # "kill"
    BY <2>1, IdleReads
  <2> QED BY <1>1, <1>2, <1>3, <1>4, <1>5, <2>1, <2>2, IndexStays
<1>6. CASE GoWith(r, "list", None) /\ ended' = ended
  <2>1. None \in Copies /\ "list" \in Pc
    BY DEF Copies, Pc
  <2>2. About(r) /\ req'[r] \in RequestRow /\ req'[r].op = req[r].op /\ req'[r].pc = "list" /\ req'[r].tok = t
        /\ req'[r].key = req[r].key /\ req'[r].since = req[r].since
    BY <1>1, <1>6, <2>1, GoWithMoves
  <2>3. ReadOK(r)'
    BY <1>1, <1>3, <2>2 DEF ReadOK, OpAt
  <2>4. Over(r)' = {t} /\ req'[r].pc # "kill"
    BY <1>3, <2>2 DEF Over
  <2> QED BY <1>1, <1>2, <1>3, <1>4, <1>6, <2>2, <2>3, <2>4, IndexStays
<1> QED BY <1>5, <1>6 DEF LogoutDelete

-----------------------------------------------------------------------------
(* Accounts: the steps of a revocation *)

LEMMA AfterRevokeMoves ==
  ASSUME AccountsTypes, NEW r \in Request, ReadOK(r), handed' = handed, AfterRevoke(r),
         req[r].pc \in {"revoke", "kill", "reindex"}, \A t \in Answered(r) : ~Unexcused(t)'
  PROVE  /\ About(r) /\ req'[r] \in RequestRow /\ ReadOK(r)' /\ req'[r].pc # "kill"
         /\ \A t \in Over(r)' : ~Unexcused(t)'
         /\ ended' \subseteq handed /\ \A t \in ended' : t \in ended \/ ~Unexcused(t)'
<1>1. Answered(r) \subseteq handed /\ ended \subseteq handed
  BY DEF Answered, ReadOK, AccountsTypes
<1>2. CASE Go(r, "token") /\ ended' = ended
  <2>1. "token" \in Pc /\ "token" \in Plain /\ OpAt("token") = Op /\ OpAt(req[r].pc) = Op /\ req[r].pc \notin {"list", "enter"}
    BY DEF Pc, Plain, OpAt
  <2>2. About(r) /\ req'[r] \in RequestRow /\ req'[r].op = req[r].op /\ req'[r].pc = "token" /\ req'[r].tok = req[r].tok
        /\ req'[r].key = req[r].key /\ req'[r].since = req[r].since
    BY <1>2, <2>1, GoMoves
  <2>3. req[r].op \in Op
    BY <2>1 DEF ReadOK
  <2>4. ReadOK(r)'
    BY <2>1, <2>2, <2>3, PlainReads
  <2>5. Over(r)' = Answered(r)
    BY <2>2 DEF Over, Answered, Except
  <2> QED BY <1>1, <1>2, <2>2, <2>4, <2>5
<1>3. CASE End(r) /\ ended' = ended \cup Answered(r)
  <2>1. About(r) /\ req'[r] \in RequestRow /\ req'[r] = Idle
    BY <1>3, EndMoves
  <2>2. ReadOK(r)' /\ Over(r)' = {} /\ req'[r].pc # "kill"
    BY <2>1, IdleReads
  <2> QED BY <1>1, <1>3, <2>1, <2>2
<1> QED BY <1>2, <1>3 DEF AfterRevoke

LEMMA RevokeReadKeeps ==
  ASSUME AccountsInv, NEW r \in Request, RevokeRead(r)
  PROVE  AccountsInv'
<1>1. /\ AccountsTypes /\ ReadOK(r) /\ req[r].pc = "revoke"
      /\ UNCHANGED <<now, session, index, handed, creds, regCha>>
      /\ why' = Excuse({req[q].tok : q \in Opening}, "OpenedLate")
  BY DEF AccountsInv, RevokeRead, At, stores
<1>2. Grows /\ StoresTyped' /\ session' \in [Session -> SessionRecord \cup {None}]
  BY <1>1, ExcusedGrows, SameTyped DEF AccountsTypes, Cause
<1>3. \A t \in Session : Unexcused(t)' => Unexcused(t)
  BY <1>1, <1>2, Still
<1>4. handed \subseteq Session /\ ended \subseteq handed /\ req[r].since \subseteq handed
  BY <1>1 DEF AccountsTypes, ReadOK
<1>5. \A t \in handed : Unexcused(t)' => t \in ListedSet
  BY <1>3, <1>4 DEF AccountsInv, AllListed
<1>6. CASE index = None /\ AfterRevoke(r)
  <2>1. ListedSet = {}
    BY <1>6 DEF ListedSet, Listed
  <2>2. \A t \in Answered(r) : ~Unexcused(t)'
    BY <1>4, <1>5, <2>1 DEF Answered
  <2>3. /\ About(r) /\ req'[r] \in RequestRow /\ ReadOK(r)' /\ req'[r].pc # "kill"
        /\ \A t \in Over(r)' : ~Unexcused(t)'
        /\ ended' \subseteq handed /\ \A t \in ended' : t \in ended \/ ~Unexcused(t)'
    BY <1>1, <1>6, <2>2, AfterRevokeMoves
  <2> QED BY <1>1, <1>2, <1>3, <1>4, <2>3, IndexStays
<1>7. CASE GoWith(r, "kill", Listed) /\ ended' = ended
  <2>1. IndexCopy(Listed) /\ Listed \in Copies /\ "kill" \in Pc /\ OpAt("kill") = Op /\ OpAt("revoke") = Op
    <3>1. IndexCopy(Listed)
      BY <1>1 DEF AccountsTypes
    <3>2. Listed \in Seq(Session)
      BY <3>1 DEF IndexCopy
    <3>3. Listed \in Copies
      BY <3>2 DEF Copies
    <3> QED BY <3>1, <3>3 DEF Pc, OpAt
  <2>2. About(r) /\ req'[r] \in RequestRow /\ req'[r].op = req[r].op /\ req'[r].pc = "kill" /\ req'[r].tok = req[r].tok
        /\ req'[r].key = req[r].key /\ req'[r].copy = Listed /\ req'[r].since = req[r].since
    BY <1>1, <1>7, <2>1, GoWithMoves
  <2>3. ReadOK(r)'
    <3>1. Listed' = Listed /\ \A s : IndexCopy(s) => IndexCopy(s)'
      BY <1>1 DEF Listed, IndexCopy, SetOf
    <3> QED BY <1>1, <2>1, <2>2, <3>1 DEF ReadOK
  <2>4. Over(r)' = {}
    BY <2>2 DEF Over
  <2>5. \A t \in req'[r].since : Unexcused(t)' => t \in SetOf(req'[r].copy)
    BY <1>4, <1>5, <2>2 DEF ListedSet, SetOf
  <2> QED BY <1>1, <1>2, <1>3, <1>4, <1>7, <2>2, <2>3, <2>4, <2>5, IndexStays
<1> QED BY <1>6, <1>7 DEF RevokeRead

LEMMA RevokeKillKeeps ==
  ASSUME AccountsInv, NEW r \in Request, RevokeKill(r)
  PROVE  AccountsInv'
<1>1. /\ AccountsTypes /\ ReadOK(r) /\ req[r].pc = "kill" /\ Go(r, "reindex")
      /\ UNCHANGED <<now, index, handed, ended, why, creds, regCha>>
      /\ session' = [t \in Session |-> IF t \in SetOf(req[r].copy) \ Except(r) THEN None ELSE session[t]]
  BY DEF AccountsInv, RevokeKill, At, ghosts
<1>2. Grows /\ StoresTyped' /\ session' \in [Session -> SessionRecord \cup {None}]
  BY <1>1, SameGrows, SameTyped DEF AccountsTypes
<1>3. \A t \in Session : Unexcused(t)' => Unexcused(t) /\ t \notin SetOf(req[r].copy) \ Except(r)
  BY <1>1 DEF Unexcused, Live
<1>4. "reindex" \in Pc /\ OpAt("reindex") = Op /\ OpAt("kill") = Op
  BY DEF Pc, OpAt
<1>5. About(r) /\ req'[r] \in RequestRow /\ req'[r].op = req[r].op /\ req'[r].pc = "reindex" /\ req'[r].tok = req[r].tok
      /\ req'[r].key = req[r].key /\ req'[r].copy = req[r].copy /\ req'[r].since = req[r].since
  BY <1>1, <1>4, GoMoves
<1>6. ReadOK(r)' /\ IndexCopy(req[r].copy)
  <2>1. \A s : IndexCopy(s) => IndexCopy(s)'
    BY <1>1 DEF IndexCopy, SetOf
  <2> QED BY <1>1, <1>4, <1>5, <2>1 DEF ReadOK
<1>7. Over(r)' = (req[r].since \cup SetOf(req[r].copy)) \ Except(r)
  BY <1>5 DEF Over, Except, SetOf
<1>8. Over(r)' \subseteq Session /\ ended' \subseteq handed /\ handed \subseteq Session
  BY <1>1, <1>6, <1>7 DEF ReadOK, AccountsTypes, IndexCopy
<1>9. ASSUME NEW t \in Over(r)' PROVE ~Unexcused(t)'
  BY <1>1, <1>3, <1>7, <1>8 DEF AccountsInv, Killing, At
<1> QED BY <1>1, <1>2, <1>3, <1>5, <1>6, <1>8, <1>9, IndexStays

LEMMA RevokeErrorKeeps ==
  ASSUME AccountsInv, NEW r \in Request, RevokeError(r)
  PROVE  AccountsInv'
<1>1. /\ AccountsTypes /\ ReadOK(r) /\ req[r].pc \in {"revoke", "kill", "reindex"} /\ AfterRevoke(r)
      /\ UNCHANGED <<now, session, index, handed, creds, regCha>>
      /\ why' = Excuse({t \in Session : session[t] # None}, "RevokeFailed")
  BY DEF AccountsInv, RevokeError, stores
<1>2. Grows /\ StoresTyped' /\ session' \in [Session -> SessionRecord \cup {None}]
  BY <1>1, ExcusedGrows, SameTyped DEF AccountsTypes, Cause
<1>3. \A t \in Session : ~Unexcused(t)'
  <2>1. \A t \in Session : session[t] # None => why'[t] # {}
    BY <1>1, ExcusedGrows DEF Cause
  <2> QED BY <1>1, <2>1 DEF Unexcused, Live
<1>4. handed \subseteq Session /\ ended \subseteq handed /\ Answered(r) \subseteq handed
  BY <1>1 DEF AccountsTypes, ReadOK, Answered
<1>5. /\ About(r) /\ req'[r] \in RequestRow /\ ReadOK(r)' /\ req'[r].pc # "kill"
      /\ \A t \in Over(r)' : ~Unexcused(t)'
      /\ ended' \subseteq handed /\ \A t \in ended' : t \in ended \/ ~Unexcused(t)'
  BY <1>1, <1>3, <1>4, AfterRevokeMoves
<1> QED BY <1>1, <1>2, <1>3, <1>4, <1>5, IndexStays

LEMMA DeleteTokenKeeps ==
  ASSUME AccountsInv, NEW r \in Request, DeleteToken(r)
  PROVE  AccountsInv'
<1> DEFINE t == req[r].tok
<1>1. /\ AccountsTypes /\ ReadOK(r) /\ req[r].pc = "token" /\ Go(r, "passkeys")
      /\ UNCHANGED <<now, index, handed, ended, why, creds, regCha>>
      /\ session' = [session EXCEPT ![t] = None]
  BY DEF AccountsInv, DeleteToken, At, ghosts
<1>2. Grows /\ StoresTyped' /\ handed \subseteq Session /\ ended' \subseteq handed
  BY <1>1, SameGrows, SameTyped DEF AccountsTypes
<1>3. /\ session' \in [Session -> SessionRecord \cup {None}]
      /\ \A u \in Session : Unexcused(u)' => Unexcused(u)
  <2> HIDE DEF t
  <2> QED BY <1>1, <1>2, OneAway
<1>4. "passkeys" \in Pc /\ "passkeys" \in Plain /\ OpAt("passkeys") = Op /\ OpAt("token") = Op
  BY DEF Pc, Plain, OpAt
<1>5. About(r) /\ req'[r] \in RequestRow /\ req'[r].op = req[r].op /\ req'[r].pc = "passkeys" /\ req'[r].tok = req[r].tok
      /\ req'[r].key = req[r].key /\ req'[r].since = req[r].since
  BY <1>1, <1>4, GoMoves
<1>6. ReadOK(r)'
  <2>1. req[r].op \in Op
    BY <1>1, <1>4 DEF ReadOK
  <2> QED BY <1>1, <1>4, <1>5, <2>1, PlainReads
<1>7. Over(r)' = Over(r) /\ Over(r) \subseteq handed
  BY <1>1, <1>5 DEF Over, Answered, Except, ReadOK
<1>8. \A u \in Over(r)' : ~Unexcused(u)'
  BY <1>2, <1>3, <1>7 DEF AccountsInv, AllOver
<1> QED BY <1>1, <1>2, <1>3, <1>5, <1>6, <1>8, IndexStays

LEMMA DeleteRowsKeeps ==
  ASSUME AccountsInv, NEW r \in Request, DeleteRows(r)
  PROVE  AccountsInv'
<1>1. /\ AccountsTypes /\ ReadOK(r) /\ req[r].pc = "rows" /\ End(r) /\ ended' = ended \cup Answered(r)
      /\ UNCHANGED <<now, session, index, handed, why, creds, regCha>>
  BY DEF AccountsInv, DeleteRows, At
<1>2. /\ Grows /\ StoresTyped' /\ session' \in [Session -> SessionRecord \cup {None}]
      /\ handed \subseteq Session /\ ended \subseteq handed /\ Answered(r) \subseteq handed
  BY <1>1, SameGrows, SameTyped DEF AccountsTypes, ReadOK, Answered
<1>3. \A t \in Session : Unexcused(t)' => Unexcused(t)
  BY <1>1, <1>2, Still
<1>4. Over(r) = Answered(r)
  BY <1>1 DEF Over
<1>5. \A t \in Answered(r) : ~Unexcused(t)'
  BY <1>2, <1>3, <1>4 DEF AccountsInv, AllOver
<1>6. About(r) /\ req'[r] \in RequestRow /\ req'[r] = Idle
  BY <1>1, EndMoves
<1>7. ReadOK(r)' /\ Over(r)' = {} /\ req'[r].pc # "kill"
  BY <1>6, IdleReads
<1> QED BY <1>1, <1>2, <1>3, <1>5, <1>6, <1>7, IndexStays

-----------------------------------------------------------------------------
(* Accounts: the steps that change the index *)

\* What the index then has, and who is alive.
LEMMA IndexChanges ==
  ASSUME AccountsInv, NEW r \in Request, About(r), req'[r] \in RequestRow, UNCHANGED <<now, session, creds, regCha>>,
         Grows, index' = None \/ (index' \in [tokens : Seq(Session), till : Int] /\ Len(index'.tokens) <= MaxIndex),
         ListedSet' \subseteq handed', handed \subseteq handed', handed' \subseteq Session, ended' \subseteq handed',
         \A t \in handed' : Unexcused(t)' => t \in ListedSet', ReadOK(r)', req'[r].pc # "kill",
         \A t \in Over(r)' : ~Unexcused(t)', \A t \in ended' : t \in ended \/ ~Unexcused(t)'
  PROVE  AccountsInv'
<1>1. AccountsTypes
  BY DEF AccountsInv
<1>2. \A t \in handed : Unexcused(t)' => Unexcused(t)
  BY <1>1, Still DEF AccountsTypes
<1>3. StoresTyped'
  BY <1>1, SameTyped
<1>4. IndexCopy(Listed)'
  <2>1. CASE index' = None
    <3>1. Listed' = <<>>
      BY <2>1 DEF Listed
    <3>2. <<>> \in Seq(Session) /\ Len(<<>>) = 0 /\ DOMAIN <<>> = {}
      OBVIOUS
    <3> QED BY <3>1, <3>2, AccountsAssumption DEF IndexCopy, SetOf
  <2>2. CASE index' # None
    <3>1. Listed' = index'.tokens /\ Listed' \in Seq(Session)
      BY <2>2 DEF Listed
    <3>2. SetOf(Listed)' = ListedSet'
      BY DEF SetOf, ListedSet
    <3> QED BY <2>2, <3>1, <3>2 DEF IndexCopy
  <2> QED BY <2>1, <2>2
<1>5. AccountsTypes'
  BY <1>1, <1>3, <1>4, AboutKeeps DEF AccountsTypes, Grows, StoresTyped
<1>6. AllListed'
  BY DEF AllListed
<1> QED BY <1>2, <1>5, <1>6, StepKeeps

LEMMA NewestKeeps ==
  ASSUME NEW T, NEW s \in Seq(T), Len(s) <= MaxIndex + 1, Len(s) >= 1
  PROVE  /\ Newest(s) \in Seq(T) /\ Len(Newest(s)) <= MaxIndex
         /\ \A i \in DOMAIN Newest(s) : \E j \in DOMAIN s : Newest(s)[i] = s[j]
         /\ \A j \in DOMAIN s : (j > 1 \/ Len(s) <= MaxIndex) => \E i \in DOMAIN Newest(s) : Newest(s)[i] = s[j]
<1>1. MaxIndex \in Nat /\ MaxIndex >= 2 /\ Len(s) \in Nat /\ DOMAIN s = 1..Len(s)
  BY AccountsAssumption
<1>2. CASE Len(s) <= MaxIndex
  <2>1. Newest(s) = s
    BY <1>1, <1>2 DEF Newest
  <2> QED BY <1>2, <2>1
<1>3. CASE Len(s) > MaxIndex
  <2>1. Newest(s) = SubSeq(s, 2, Len(s)) /\ Len(s) = MaxIndex + 1
    <3>1. ASSUME NEW n \in Nat, NEW m \in Nat, n <= m + 1, n > m
          PROVE  n = m + 1 /\ n - m + 1 = 2
      BY <3>1
    <3>2. Len(s) = MaxIndex + 1 /\ Len(s) - MaxIndex + 1 = 2
      BY <1>1, <1>3, <3>1
    <3> QED BY <1>3, <3>2 DEF Newest
  <2>2. /\ SubSeq(s, 2, Len(s)) \in Seq(T) /\ Len(SubSeq(s, 2, Len(s))) = Len(s) - 1
        /\ \A i \in 1..(Len(s) - 1) : SubSeq(s, 2, Len(s))[i] = s[i + 1]
    <3>1. 2 \in 1..(Len(s) + 1) /\ Len(s) \in 1..Len(s)
      BY <1>1, <2>1
    <3>2. /\ SubSeq(s, 2, Len(s)) \in Seq(T) /\ Len(SubSeq(s, 2, Len(s))) = Len(s) - 1
      BY <1>1, <3>1, SubSeqProperties
    <3>3. ASSUME NEW i \in 1..(Len(s) - 1)
          PROVE  SubSeq(s, 2, Len(s))[i] = s[i + 1]
      <4>1. i \in 1..(Len(s) - 2 + 1) /\ 2 + i - 1 = i + 1
        BY <1>1
      <4> QED BY <1>1, <3>1, <4>1, SubSeqProperties
    <3> QED BY <3>2, <3>3
  <2>3. DOMAIN Newest(s) = 1..(Len(s) - 1)
    BY <2>1, <2>2
  <2>4. ASSUME NEW i \in DOMAIN Newest(s) PROVE \E j \in DOMAIN s : Newest(s)[i] = s[j]
    <3>1. i + 1 \in DOMAIN s
      BY <1>1, <2>3
    <3> QED BY <2>1, <2>2, <2>3, <3>1
  <2>5. ASSUME NEW j \in DOMAIN s, j > 1 PROVE \E i \in DOMAIN Newest(s) : Newest(s)[i] = s[j]
    <3>1. j - 1 \in 1..(Len(s) - 1) /\ (j - 1) + 1 = j
      BY <1>1, <2>5
    <3> QED BY <2>1, <2>2, <2>3, <3>1
  <2> QED BY <1>1, <1>3, <2>1, <2>2, <2>4, <2>5
<1> QED BY <1>1, <1>2, <1>3

LEMMA RegisterSessionTokenKeeps ==
  ASSUME AccountsInv, NEW r \in Request, RegisterSessionToken(r)
  PROVE  AccountsInv'
<1> DEFINE copy == req[r].copy
           tok == req[r].tok
           grown == Append(copy, tok)
<1>1. /\ AccountsTypes /\ ReadOK(r) /\ req[r].pc = "enter" /\ req[r].op # "logout" /\ End(r)
      /\ UNCHANGED <<now, session, creds, regCha, ended>> /\ handed' = handed \cup {tok}
      /\ index' = [tokens |-> Newest(grown), till |-> now + Life]
      /\ why' = [x \in DOMAIN why |-> why[x]
                    \cup (IF x \in Lost(copy) THEN {"IndexOverlap"} ELSE {})
                    \cup (IF x \in SetOf(grown) /\ Len(grown) > MaxIndex /\ x = grown[1] THEN {"FellOut"} ELSE {})]
  BY DEF AccountsInv, RegisterSessionToken, At
<1>2. IndexCopy(copy) /\ tok \in Session
  BY <1>1 DEF ReadOK
<1>3. handed \subseteq Session /\ ended \subseteq handed /\ now + Life \in Int
  BY <1>1, AccountsAssumption DEF AccountsTypes
<1>4. Grows
  BY <1>1 DEF Grows, AccountsTypes, Cause
<1>5. /\ copy \in Seq(Session) /\ Len(copy) <= MaxIndex /\ Len(copy) \in Nat /\ DOMAIN copy = 1..Len(copy)
      /\ \A i \in DOMAIN copy : copy[i] \in handed
  BY <1>2 DEF IndexCopy, SetOf
<1> HIDE DEF copy, tok
<1>6. /\ grown \in Seq(Session) /\ Len(grown) = Len(copy) + 1 /\ grown[Len(copy) + 1] = tok
      /\ \A i \in 1..Len(copy) : grown[i] = copy[i]
      /\ DOMAIN grown = 1..(Len(copy) + 1)
  BY <1>2, <1>5, AppendProperties
<1>7. Len(grown) <= MaxIndex + 1 /\ Len(grown) >= 1 /\ MaxIndex \in Nat /\ MaxIndex >= 2
  BY <1>5, <1>6, AccountsAssumption
<1> HIDE DEF grown
<1>8. /\ Newest(grown) \in Seq(Session) /\ Len(Newest(grown)) <= MaxIndex
      /\ \A i \in DOMAIN Newest(grown) : \E j \in DOMAIN grown : Newest(grown)[i] = grown[j]
      /\ \A j \in DOMAIN grown : (j > 1 \/ Len(grown) <= MaxIndex) => \E i \in DOMAIN Newest(grown) : Newest(grown)[i] = grown[j]
  BY <1>6, <1>7, NewestKeeps
<1>9. index' \in [tokens : Seq(Session), till : Int] /\ index'.tokens = Newest(grown) /\ index' # None
  BY <1>1, <1>3, <1>8, NoneAssumption
<1>10. ListedSet' = {Newest(grown)[i] : i \in DOMAIN Newest(grown)}
  BY <1>9 DEF ListedSet, Listed
<1>11. \A j \in DOMAIN grown : grown[j] \in handed'
  BY <1>1, <1>5, <1>6
<1>12. ListedSet' \subseteq handed'
  BY <1>8, <1>10, <1>11
<1>13. ASSUME NEW t \in handed', Unexcused(t)' PROVE t \in ListedSet'
  <2>1. t \in Session /\ why'[t] = {}
    BY <1>1, <1>2, <1>3, <1>13 DEF Unexcused
  <2>2. CASE t = tok
    <3>1. Len(copy) + 1 \in DOMAIN grown /\ grown[Len(copy) + 1] = t
      BY <1>5, <1>6, <2>2
    <3>2. Len(copy) + 1 > 1 \/ Len(grown) <= MaxIndex
      BY <1>5, <1>6, <1>7
    <3> QED BY <1>8, <1>10, <3>1, <3>2
  <2>3. CASE t # tok
    <3>1. t \in handed /\ Unexcused(t)
      BY <1>1, <1>3, <1>4, <1>13, <2>3, Still
    <3>2. t \in ListedSet
      BY <3>1 DEF AccountsInv, AllListed
    <3>3. t \notin Lost(copy)
      BY <1>1, <2>1 DEF AccountsTypes
    <3>4. PICK i \in DOMAIN copy : copy[i] = t
      BY <3>2, <3>3 DEF Lost, SymDiff, SetOf
    <3>5. i \in DOMAIN grown /\ grown[i] = t
      BY <1>5, <1>6, <3>4
    <3>6. i > 1 \/ Len(grown) <= MaxIndex
      <4>1. ASSUME i = 1, Len(grown) > MaxIndex PROVE FALSE
        <5>1. t \in SetOf(grown) /\ t = grown[1]
          BY <3>5, <4>1 DEF SetOf
        <5>2. "FellOut" \in why'[t]
          BY <1>1, <2>1, <4>1, <5>1 DEF AccountsTypes
        <5> QED BY <2>1, <5>2
      <4>2. i \in Nat /\ i >= 1 /\ Len(grown) \in Nat
        BY <1>5, <1>6, <3>4
      <4> QED BY <1>7, <4>1, <4>2
    <3> QED BY <1>8, <1>10, <3>5, <3>6
  <2> QED BY <2>2, <2>3
<1>14. About(r) /\ req'[r] \in RequestRow /\ req'[r] = Idle
  BY <1>1, EndMoves
<1>15. ReadOK(r)' /\ Over(r)' = {} /\ req'[r].pc # "kill"
  BY <1>14, IdleReads
<1>16. handed \subseteq handed' /\ handed' \subseteq Session /\ ended' \subseteq handed'
  BY <1>1, <1>2, <1>3
<1>17. index' = None \/ (index' \in [tokens : Seq(Session), till : Int] /\ Len(index'.tokens) <= MaxIndex)
  BY <1>8, <1>9
<1> QED BY <1>1, <1>4, <1>12, <1>13, <1>14, <1>15, <1>16, <1>17, IndexChanges

LEMMA UnregisterSessionTokenKeeps ==
  ASSUME AccountsInv, NEW r \in Request, UnregisterSessionToken(r)
  PROVE  AccountsInv'
<1> PICK copy, tok, rest : copy = req[r].copy /\ tok = req[r].tok /\ rest = Without(copy, tok)
  OBVIOUS
<1>1. /\ AccountsTypes /\ ReadOK(r) /\ req[r].pc = "enter" /\ req[r].op = "logout" /\ End(r)
      /\ UNCHANGED <<now, session, creds, regCha, handed>> /\ ended' = ended \cup {tok}
      /\ index' = [tokens |-> rest, till |-> now + Life] /\ why' = Excuse(Lost(copy), "IndexOverlap")
  BY DEF AccountsInv, UnregisterSessionToken, At
<1>2. IndexCopy(copy) /\ tok \in handed /\ tok \in Over(r)
  BY <1>1 DEF ReadOK, Over
<1>3. handed \subseteq Session /\ ended \subseteq handed /\ now + Life \in Int
  BY <1>1, AccountsAssumption DEF AccountsTypes
<1>4. Grows /\ \A x \in Session : x \in Lost(copy) => why'[x] # {}
  BY <1>1, ExcusedGrows DEF Cause
<1>5. /\ copy \in Seq(Session) /\ Len(copy) <= MaxIndex /\ Len(copy) \in Nat
      /\ \A i \in DOMAIN copy : copy[i] \in handed
  BY <1>2 DEF IndexCopy, SetOf
<1>6. /\ rest \in Seq(Session) /\ Len(rest) <= Len(copy)
      /\ SetOf(copy) \ {tok} \subseteq SetOf(rest) /\ SetOf(rest) \subseteq SetOf(copy)
  BY <1>5, WithoutKeeps
<1>7. index' \in [tokens : Seq(Session), till : Int] /\ index'.tokens = rest /\ index' # None
  BY <1>1, <1>3, <1>6, NoneAssumption
<1>8. ListedSet' = SetOf(rest)
  BY <1>7 DEF ListedSet, Listed, SetOf
<1>9. ListedSet' \subseteq handed'
  BY <1>1, <1>2, <1>6, <1>8 DEF IndexCopy
<1>10. \A t \in Session : Unexcused(t)' => Unexcused(t) /\ why'[t] = {}
  BY <1>1, <1>4, Still DEF Unexcused
<1>11. ~Unexcused(tok)'
  BY <1>2, <1>3, <1>10 DEF AccountsInv, AllOver
<1>12. ASSUME NEW t \in handed', Unexcused(t)' PROVE t \in ListedSet'
  <2>1. t \in Session /\ t \in handed /\ t # tok /\ Unexcused(t) /\ why'[t] = {}
    BY <1>1, <1>3, <1>10, <1>11, <1>12
  <2>2. t \in ListedSet /\ t \notin Lost(copy)
    BY <1>4, <2>1 DEF AccountsInv, AllListed
  <2>3. t \in SetOf(copy)
    BY <2>2 DEF Lost, SymDiff
  <2> QED BY <1>6, <1>8, <2>1, <2>3
<1>13. About(r) /\ req'[r] \in RequestRow /\ req'[r] = Idle
  BY <1>1, EndMoves
<1>14. ReadOK(r)' /\ Over(r)' = {} /\ req'[r].pc # "kill"
  BY <1>13, IdleReads
<1>15. handed \subseteq handed' /\ handed' \subseteq Session /\ ended' \subseteq handed'
  BY <1>1, <1>2, <1>3
<1>16. index' = None \/ (index' \in [tokens : Seq(Session), till : Int] /\ Len(index'.tokens) <= MaxIndex)
  <2>1. Len(rest) <= MaxIndex
    BY <1>5, <1>6, AccountsAssumption
  <2> QED BY <1>7, <2>1
<1>17. \A t \in ended' : t \in ended \/ ~Unexcused(t)'
  BY <1>1, <1>11
<1> QED BY <1>1, <1>4, <1>9, <1>12, <1>13, <1>14, <1>15, <1>16, <1>17, IndexChanges

LEMMA RevokeIndexKeeps ==
  ASSUME AccountsInv, NEW r \in Request, RevokeIndex(r)
  PROVE  AccountsInv'
<1> DEFINE copy == req[r].copy
           tok == req[r].tok
<1>1. /\ AccountsTypes /\ ReadOK(r) /\ req[r].pc = "reindex" /\ AfterRevoke(r)
      /\ UNCHANGED <<now, session, creds, regCha, handed>>
      /\ index' = IF Except(r) \cap SetOf(copy) # {} THEN [tokens |-> <<tok>>, till |-> now + Life] ELSE None
      /\ why' = Excuse(Lost(copy), "IndexOverlap")
  BY DEF AccountsInv, RevokeIndex, At
<1>2. IndexCopy(copy) /\ (Except(r) # {} => Except(r) = {tok} /\ tok \in handed)
  BY <1>1 DEF ReadOK, Except
<1>3. handed \subseteq Session /\ ended \subseteq handed /\ now + Life \in Int /\ Answered(r) \subseteq handed
  BY <1>1, AccountsAssumption DEF AccountsTypes, Answered, ReadOK
<1>4. Grows /\ \A x \in Session : x \in Lost(copy) => why'[x] # {}
  BY <1>1, ExcusedGrows DEF Cause
<1>5. Over(r) = (req[r].since \cup SetOf(copy)) \ Except(r)
  BY <1>1 DEF Over
<1>6. \A t \in Session : Unexcused(t)' => Unexcused(t) /\ why'[t] = {} /\ t \notin Over(r)
  BY <1>1, <1>4, Still DEF Unexcused, AccountsInv, AllOver
<1>7. \A t \in Answered(r) : ~Unexcused(t)'
  BY <1>3, <1>5, <1>6 DEF Answered
<1>8. /\ About(r) /\ req'[r] \in RequestRow /\ ReadOK(r)' /\ req'[r].pc # "kill"
      /\ \A t \in Over(r)' : ~Unexcused(t)'
      /\ ended' \subseteq handed /\ \A t \in ended' : t \in ended \/ ~Unexcused(t)'
  BY <1>1, <1>7, AfterRevokeMoves
<1> HIDE DEF copy, tok
<1>9. \A t \in handed : Unexcused(t)' => t \in Except(r) \cap SetOf(copy)
  <2> SUFFICES ASSUME NEW t \in handed, Unexcused(t)' PROVE t \in Except(r) \cap SetOf(copy)
    OBVIOUS
  <2>1. Unexcused(t) /\ why'[t] = {} /\ t \notin Over(r) /\ t \notin Lost(copy)
    BY <1>3, <1>4, <1>6
  <2>2. t \in ListedSet
    BY <2>1 DEF AccountsInv, AllListed
  <2>3. t \in SetOf(copy)
    BY <2>1, <2>2 DEF Lost, SymDiff
  <2> QED BY <1>5, <2>1, <2>3
<1>10. /\ index' = None \/ (index' \in [tokens : Seq(Session), till : Int] /\ Len(index'.tokens) <= MaxIndex)
       /\ ListedSet' \subseteq handed' /\ \A t \in handed' : Unexcused(t)' => t \in ListedSet'
  <2>1. CASE Except(r) \cap SetOf(copy) # {}
    <3>1. Except(r) = {tok} /\ tok \in handed /\ tok \in Session
      BY <1>2, <1>3, <2>1
    <3>2. <<tok>> \in Seq(Session) /\ Len(<<tok>>) = 1 /\ DOMAIN <<tok>> = {1} /\ <<tok>>[1] = tok
      BY <3>1
    <3>3. index' \in [tokens : Seq(Session), till : Int] /\ index'.tokens = <<tok>> /\ index' # None
      <4>1. index' = [tokens |-> <<tok>>, till |-> now + Life]
        BY <1>1, <2>1
      <4>2. [tokens |-> <<tok>>, till |-> now + Life] \in [tokens : Seq(Session), till : Int]
        BY <1>3, <3>2
      <4> QED BY <4>1, <4>2, NoneAssumption
    <3>4. ListedSet' = {tok}
      BY <3>2, <3>3 DEF ListedSet, Listed
    <3> QED BY <1>1, <1>9, <3>1, <3>2, <3>3, <3>4, AccountsAssumption
  <2>2. CASE Except(r) \cap SetOf(copy) = {}
    <3>1. index' = None /\ ListedSet' = {}
      BY <1>1, <2>2 DEF ListedSet, Listed
    <3> QED BY <1>1, <1>9, <2>2, <3>1
  <2> QED BY <2>1, <2>2
<1> QED BY <1>1, <1>3, <1>4, <1>8, <1>10, IndexChanges

LEMMA TickKeeps ==
  ASSUME AccountsInv, Tick
  PROVE  AccountsInv'
<1>1. /\ AccountsTypes /\ now' = now + 1 /\ UNCHANGED <<session, creds, regCha, req, handed, ended>>
      /\ \/ /\ index # None /\ index' = None
            /\ why' = Excuse({t \in ListedSet : session[t] # None /\ now' < session[t].till}, "IndexExpired")
         \/ UNCHANGED <<index, why>>
  BY DEF AccountsInv, Tick
<1>2. Grows
  BY <1>1, ExcusedGrows, SameGrows DEF Cause
<1>3. \A t \in Session : Unexcused(t)' => Unexcused(t)
  <2>1. now \in Nat
    BY <1>1 DEF AccountsTypes
  <2>2. \A t \in Session : session[t] # None => session[t].till \in Int
    BY <1>1 DEF AccountsTypes, SessionRecord
  <2>3. \A t \in Session : Live(t)' => Live(t)
    BY <1>1, <2>1, <2>2 DEF Live
  <2> QED BY <1>2, <2>3 DEF Unexcused, Grows
<1>4. handed \subseteq Session
  BY <1>1 DEF AccountsTypes
<1>5. \A t \in handed : Unexcused(t)' => t \in ListedSet
  BY <1>3, <1>4 DEF AccountsInv, AllListed
<1>6. AllListed' /\ IndexCopy(Listed)' /\ (index' # None => index' \in [tokens : Seq(Session), till : Int])
  <2>1. CASE UNCHANGED <<index, why>>
    <3>1. UNCHANGED <<Listed, ListedSet>>
      BY <2>1 DEF Listed, ListedSet
    <3> QED BY <1>1, <1>5, <2>1, <3>1 DEF AllListed, AccountsTypes, IndexCopy, SetOf
  <2>2. CASE /\ index # None /\ index' = None
             /\ why' = Excuse({t \in ListedSet : session[t] # None /\ now' < session[t].till}, "IndexExpired")
    <3>1. ASSUME NEW t \in handed, Unexcused(t)' PROVE FALSE
      <4>1. t \in {u \in ListedSet : session[u] # None /\ now' < session[u].till}
        BY <1>1, <1>5, <3>1 DEF Unexcused, Live
      <4>2. why'[t] # {}
        BY <1>1, <1>4, <2>2, <4>1, ExcusedGrows DEF Cause
      <4> QED BY <3>1, <4>2 DEF Unexcused
    <3>2. Listed' = <<>> /\ <<>> \in Seq(Session) /\ Len(<<>>) = 0 /\ DOMAIN <<>> = {}
      BY <2>2 DEF Listed
    <3> QED BY <1>1, <2>2, <3>1, <3>2, AccountsAssumption DEF AllListed, IndexCopy, SetOf
  <2> QED BY <1>1, <2>1, <2>2
<1>7. AccountsTypes'
  BY <1>1, <1>2, <1>6 DEF AccountsTypes, Grows
<1>8. \A r \in Request : ReadOK(r)' /\ Over(r)' = Over(r) /\ Over(r) \subseteq handed
  BY <1>1 DEF AccountsInv, ReadOK, IndexCopy, SetOf, Over, Answered, Except
<1>9. Killing'
  BY <1>1, <1>3, <1>4 DEF AccountsInv, Killing, At, SetOf, ReadOK
<1>10. AllOver' /\ NoneEnded'
  BY <1>1, <1>3, <1>4, <1>8 DEF AccountsInv, AllOver, NoneEnded, AccountsTypes
<1> QED BY <1>6, <1>7, <1>8, <1>9, <1>10 DEF AccountsInv

-----------------------------------------------------------------------------
(* Accounts: the theorem *)

LEMMA AccountsStart == Init => AccountsInv
<1> SUFFICES ASSUME Init PROVE AccountsInv
  OBVIOUS
<1>1. <<"session", First, 1>> \in Session /\ <<"session", First, 2>> \in Session
  BY AccountsAssumption DEF Session
<1> DEFINE s == <<<<"session", First, 1>>, <<"session", First, 2>>>>
<1>2. s \in Seq(Session) /\ Len(s) = 2 /\ s[1] = <<"session", First, 1>> /\ s[2] = <<"session", First, 2>> /\ DOMAIN s = {1, 2}
  BY <1>1
<1>3. index = [tokens |-> s, till |-> Life] /\ index \in [tokens : Seq(Session), till : Int]
  BY <1>2, AccountsAssumption DEF Init
<1>4. index # None
  BY <1>3, NoneAssumption
<1>5. Listed = s
  BY <1>3, <1>4 DEF Listed
<1>6. session \in [Session -> SessionRecord \cup {None}]
  BY AccountsAssumption DEF Init, SessionRecord
<1>7. \A t \in Session : session[t] # None => t = <<"session", First, 1>> \/ t = <<"session", First, 2>>
  <2> SUFFICES ASSUME NEW t \in Session, session[t] # None
               PROVE  t = <<"session", First, 1>> \/ t = <<"session", First, 2>>
    OBVIOUS
  <2>1. Of(t) = First /\ t[3] <= 2
    BY DEF Init
  <2>2. PICK p \in Person, n \in 1..MaxSessions : t = <<"session", p, n>>
    BY DEF Session
  <2>3. p = First /\ n <= 2 /\ n \in Nat /\ n >= 1
    BY <2>1, <2>2, AccountsAssumption DEF Of
  <2>4. n = 1 \/ n = 2
    BY <2>3
  <2> QED BY <2>2, <2>3, <2>4
<1>8. <<"session", First, 1>> \in handed /\ <<"session", First, 2>> \in handed /\ handed \subseteq Session
  <2>1. ASSUME NEW t \in Session, Of(t) = First, t[3] <= 2 PROVE t \in handed
    <3>1. session[t] = [till |-> Life, exp |-> Life, last |-> 0]
      BY <2>1 DEF Init
    <3>2. session[t] # None
      BY <3>1, AccountsAssumption, NoneAssumption
    <3> QED BY <3>2 DEF Init
  <2>2. handed \subseteq Session
    BY DEF Init
  <2> QED BY <1>1, <2>1, <2>2 DEF Of
<1>9. AccountsTypes
  <2>1. IndexCopy(Listed)
    BY <1>2, <1>5, <1>8, AccountsAssumption DEF IndexCopy, SetOf
  <2>2. creds \subseteq Passkey /\ now \in Nat /\ ended = {} /\ why \in [Session \cup Passkey -> SUBSET Cause] /\ regCha = None
    BY DEF Init
  <2>3. req \in [Request -> RequestRow]
    BY IdleRow DEF Init
  <2> QED BY <1>3, <1>6, <1>8, <2>1, <2>2, <2>3 DEF AccountsTypes
<1>10. \A r \in Request : ReadOK(r) /\ Over(r) = {} /\ req[r].pc # "kill"
  BY IdleRow DEF Init, ReadOK, OpAt, Over
<1>11. AllListed
  <2>1. ListedSet = {<<"session", First, 1>>, <<"session", First, 2>>}
    BY <1>2, <1>5 DEF ListedSet
  <2> QED BY <1>7, <1>8, <2>1 DEF AllListed, Unexcused, Live
<1>12. Killing /\ AllOver /\ NoneEnded
  BY <1>10 DEF Killing, At, AllOver, NoneEnded, Init
<1> QED BY <1>9, <1>10, <1>11, <1>12 DEF AccountsInv

LEMMA HandlerKeeps ==
  ASSUME AccountsInv, NEW r \in Request, Handler(r)
  PROVE  AccountsInv'
BY ReadsKeep, WritesKeep, DeletesKeep, AuthenticateKeeps, RefreshKeeps, OpenSessionKeeps, ReadIndexKeeps,
   RegisterSessionTokenKeeps, LogoutDeleteKeeps, UnregisterSessionTokenKeeps, RevokeReadKeeps, RevokeKillKeeps,
   RevokeIndexKeeps, RevokeErrorKeeps, DeleteTokenKeeps, DeleteRowsKeeps DEF Handler

LEMMA AccountsNext == AccountsInv /\ [Next]_vars => AccountsInv'
<1> SUFFICES ASSUME AccountsInv, [Next]_vars PROVE AccountsInv'
  OBVIOUS
<1>1. CASE Tick
  BY <1>1, TickKeeps
<1>2. CASE Unlock
  BY <1>2, RestsKeep DEF Unlock, ghosts
<1>3. CASE \E r \in Request : \E op \in bounds.ops \cap Op, p \in Person : Begin(r, op, p)
  BY <1>3, BeginKeeps
<1>4. CASE \E r \in Request : Handler(r)
  BY <1>4, HandlerKeeps
<1>5. CASE UNCHANGED vars
  BY <1>5, RestsKeep DEF vars, stores, ghosts
<1> QED BY <1>1, <1>2, <1>3, <1>4, <1>5 DEF Next

LEMMA AccountsImplies == AccountsInv => EndedHasACause
BY DEF AccountsInv, NoneEnded, Unexcused, EndedHasACause

\* A session that an answered logout, device revocation or deletion should have
\* ended is alive only for one of the reasons in why, for any number of requests,
\* sessions, passkeys and for any length of the index (auth.js, authRoutes.js).
THEOREM EndedHasACauseHolds == Spec => []EndedHasACause
<1>1. Init => AccountsInv
  BY AccountsStart
<1>2. AccountsInv /\ [Next]_vars => AccountsInv'
  BY AccountsNext
<1>3. AccountsInv => EndedHasACause
  BY AccountsImplies
<1> QED BY <1>1, <1>2, <1>3, PTL DEF Spec

\* The same where the account is one of the parts of MCAccounts.
COROLLARY EndedHasACauseHoldsThere == MCSpec => []EndedHasACause
<1>1. MCInit => AccountsInv
  BY AccountsStart DEF MCInit
<1>2. AccountsInv /\ [MCNext]_<<part, accounts, contacts, autoDelete, devices, notices>> => AccountsInv'
  <2>1. [MCNext]_<<part, accounts, contacts, autoDelete, devices, notices>> => [Next]_vars
    BY DEF MCNext, AccountsStep, ContactsStep, AutoDeleteStep, DevicesStep, NoticesStep, accounts, vars, stores, ghosts
  <2> QED BY <2>1, AccountsNext
<1>3. AccountsInv => EndedHasACause
  BY AccountsImplies
<1> QED BY <1>1, <1>2, <1>3, PTL DEF MCSpec
=============================================================================

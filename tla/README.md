# Renex in TLA+

Renex is an end-to-end encrypted messenger: a Svelte client (`frontend/src`)
that keeps its keys in sealed IndexedDB records, and a Cloudflare Worker
(`backend.js`, `src/`) with D1 (SQL), KV, and Durable Objects. This directory
holds TLA+ models of its core, what TLC checks of them, and the theorems that
TLAPS proves. Paths below are relative to the repository.

1. [The system](#the-system)
2. [What is modelled](#what-is-modelled)
3. [The runs](#the-runs)
4. [The parts](#the-parts): prekeys, v4 sessions, post-quantum rekey, master key,
   recovery, reading, groups, guests, servers, delivery, input, accounts, calls
5. [Disagreements between code and comments](#disagreements-between-code-and-comments)
6. [Proofs](#proofs)
7. [What is not modelled](#what-is-not-modelled)
8. [Plan](#plan)
9. [Running](#running)

## The system

### Components

| Component | Code | State | Operations | What is hard | What makes it correct |
|---|---|---|---|---|---|
| One-time prekeys, owner | `frontend/src/lib/pqxdhKeys.js`, `pqxdhPublish.js` | one sealed record with all private halves, a marker "published" | fill the pool, publish, top up, consume | read, await, write without a lock; several tabs | a key is used for one handshake, and held until then |
| Prekey server | `src/prekeyDO.js`, `src/routes/e2eRoutes.js` 665-803 | KV bundle, rows of `pqxdh_opk`, a window counter per requester, an alarm | upload, fetch a bundle, count | retries, lost answers, lagging clock, alarm | a key goes to one fetch; nobody draws more than the cap |
| Double ratchet | `frontend/src/lib/ratchet.js` | root, two chains, counters, skipped keys | next send key, key for a header | reordering, loss | both sides derive the same key, once |
| v4 session | `ratchetSession.js`, `hybridSession.js` | session record and handshake record per peer device, plaintext store | prime, encrypt, decrypt, reconcile, reset | two locks and one record; both sides begin; late, repeated and lost messages; crash | the pair converges, no key is used twice |
| Post-quantum rekey | `pqRatchet.js` | pending epochs on both sides | announce, activate, confirm | crossing messages, lost ciphertext | roots never diverge silently |
| Shadow ratchet | `ratchetShadow.js`, `sesame.js` | a second ratchet per peer device | shadow send, shadow receive | it shares the handshake record and the OPK with the real one | the real session is undisturbed |
| Chat pipeline | `chatPipeline.js` | caches, chains and epochs per conversation | send, decrypt, retry | several protocol versions, fallback | every message is readable or marked locked |
| Chat master key (CMK) | `cmk.js`, `cmkBundleSync.js`, `cmkRequestState.js`, `session.js`, `wrapVersion.js` | key, rotation map, request state | create, wrap, request, rotate | two devices create or rotate at once | the devices agree on the key of a rotation index |
| Group keys | `groupCrypto.js`, `src/routes/groupRoutes.js` | sender keys, archive, chain index, membership | create, distribute, rotate, request | member changes against distribution | a removed member cannot read on; no message key is used twice |
| Devices | `multidevice.js`, `deviceStore.js`, `e2eKeys.js` | device list and keys | add, remove, cache | stale lists | every device gets a copy or none does |
| Recovery, master key | `masterKey.js`, `recovery.js`, `src/routes/recoveryRoutes.js` | wrapped master key, recovery codes | set up, use, replace | single use, partial failure | a code works once; the key is never lost |
| Handle change, guest conversion | `handleMigration.js`, `guestConvert.js` | journal of the migration | rename, convert, resume | crash in the middle | all keys move, or none |
| Sessions and login | `src/auth.js`, `authRoutes.js`, `helpers/loginFinish.js`, `webauthnVerify.js`, `credentials.js` | KV sessions, challenges, credentials | register, log in, log out, revoke | challenge races, KV is eventually consistent | a challenge counts once; a revoked session is dead |
| Rate limiter | `src/rateLimiterDO.js` | a window counter, an alarm | decide, clean up | clock, alarm | at most `limit` per window |
| Chat delivery | `helpers/chatSend.js`, `chatRoutes.js`, `wsRoutes.js`, `ws.js`, `stores/chat.svelte.js` | messages, unread counters, sockets | send, list, push, read, delete | reconnect gaps, retries, guest quota | no message is lost or shown twice; quota holds |
| Invites and guests | `src/routes/inviteRoutes.js` | invite rows, guest sessions in D1 and KV | create, join, end, convert | concurrent joins, session ended during a join | single use; one living session per card |
| Contacts | `src/routes/contactRoutes.js` | two rows per pair | request, accept, remove, block | both ask at once | the two rows agree |
| Servers and permissions | `src/routes/serverRoutes.js`, `src/lib/*` | roles, channels, overrides | evaluate, change | precedence | nobody outranks their role |
| Voice calls | `src/routes/voiceRoutes.js`, `stores/voice.svelte.js`, `voiceRTC.js`, `voiceTimers.js` | call log in D1, busy state in KV, timers | ring, answer, decline, cancel, hang up | answer against cancel, double ring, expiry | both sides agree on the end of a call |
| Housekeeping | `src/cron.js`, `autoDeleteRoutes.js` | expiry times | expire, delete | runs next to everything | nothing alive is deleted |
| Small routes, UI, pulse, rollout, link safety | the rest | little | validation, rendering, heuristics | | |

### How they interact

The client talks to the Worker over HTTP and gets pushes over a WebSocket from
a Durable Object per user. A message to a peer goes through `chatPipeline.js`,
which tries v4 (`ratchetSession.js`) and falls back to the older CMK protocol. A
v4 session needs a handshake (`hybridSession.js`), which fetches the peer's
prekey bundle; the server's `PrekeyDO` takes one OPK from the table for it. The
peer's client, when the first message arrives, consumes the private half of that
OPK and builds its own side. Concurrency inside a client is the interleaving of
asynchronous functions at each `await` (and of several tabs that share
IndexedDB); some of it is under named in-memory locks. Concurrency in the server
is that of requests, with Durable Objects as the only serialised parts.

## What is modelled

| Modules | Model | Proofs |
|---|---|---|
| `OneTimePrekeys`; `PrekeyPool` | the OPKs of one device from generation to consumption (client, routes, `PrekeyDO`); the abstract pool they implement | `PrekeysAndGuests_proofs` |
| `DoubleRatchet` | `ratchet.js` as operators on a state record, with symbolic keys; no state of its own | lemmas in `V4Session_proofs` |
| `V4Session` | two devices with `ratchetSession.js`, `hybridSession.js`, the v4 branch of `chatPipeline.js` and the handshakes of `ratchetShadow.js` | `V4Session_proofs` |
| `PqRekey` | `pqRatchet.js` on an established session | `V4Session_proofs` |
| `CmkExchange` | the master key (CMK) of a direct chat: creation, wraps, rotation, mirror, backup | `Keys_proofs` |
| `Recovery` | recovery phrase, salt, bundle and its sync | `Keys_proofs` |
| `Reading` | one message on two pages: the ladder, edits, reactions | `Keys_proofs` |
| `GroupKeys`, `GroupChain`, `GroupMembers` | a group's sender keys, the message keys of one member, the member rows | `Groups_proofs` |
| `GuestInvite`, `GuestQuota`, `HandleChange` | an invite's life, a guest's message limit, the conversion of a guest into an account | `PrekeysAndGuests_proofs` |
| `Servers`, `ServerView`, `ChannelKeys`, `Contents` | a server's members, roles, rights and readers; what an app shows of servers; the sender keys of a channel; files and rows | `Servers_proofs` |
| `ChatSync`, `WsLink`, `Composer` | the open chat against the server's rows; the socket; the input | `Delivery_proofs` |
| `Accounts`, `Contacts`, `AutoDelete`, `Devices`, `Push` | passkeys and sessions; contact rows; the deletion setting; devices and their index; endpoints and mutes | `Accounts_proofs` (sessions, contacts, auto-delete) |
| `VoiceCall`, `VoiceIce` | calls between ring and end; the candidates of a call | `VoiceCall_proofs` |

An `MC...` module instantiates the modules of one line, or of lines that
belong together, for TLC. Where it joins several, a variable `part`, which the
initial state fixes, says which of them a behaviour is about, and the others
rest: they share no state in the code either, or each takes the other's part as
given (`ChatSync` takes drops of the socket as given and `WsLink` makes them).

`PROJECT.json` lists the components, the runs, the hazards with the line where
each bites and the properties that would notice it, and a map from every
definition to the lines of code it stands for. An operator whose name has an
underscore (`Absent_Unusable`) is a *slip*: a plausible bug, which stands
before the definition it would replace and is used only to see that a property
notices it.

A request or a function of a client is one step from one `await` to the next,
or from one access to a store to the next when others can come between them.
A request, its answer, a push or a write may fail, and a page may be closed,
where the code goes on afterwards, within a budget that each module names.
Failures that a model leaves out are named with its bounds below: it says
nothing of them. Where the code lets
something go wrong in ways that are known by now, a property names those
*causes*: it says that nothing goes wrong in any other way, and the state
remembers in variables such as `why`, `blame` or `excused` that a cause
occurred. A cause is always an event at a named line of the code, never a
description of the bad state itself.

## The runs

| Run | States | Question | Properties |
|---|---|---|---|
| `prekeys` | 60,056 | two requesters, three fetches, overlapping writes, lost answers: does a key serve twice, and is its private half there? | `TypeOK`, `HandedOutOnce`, `RecordHasACause`, `TombstonePermanent`, `ImplementsPool` |
| `prekeys_cap` | 58,017 | a lagging clock and the alarm that deletes counters: does the cap hold in every window? | `CapPerWindow` |
| `v4` | 2,080,000 | two devices with late, repeated or lost messages, a crash, a reset, a shadow: what locks a pair, is a key used twice? | `StuckHasACause`, `KeysUsedOnce` |
| `rekey` | 384,000 | seven messages, two epochs: do the roots diverge, what stays locked? | `MixedOnceAndAlike`, `UnreadHasACause` |
| `keys` | 1,700,000 | a chat's master key, recovery, one message on two pages | `RemovedKeyHasACause`, `SentStaysReadable`, `RecoveryInOrder`, `ReadInOrder` |
| `groups` | 1,900,000 | sender keys, message keys, member rows | `FormerMemberCannotRead`, `WrongKeyHasACause`, `ReuseHasACause`, `AdminUnlessOverlap` |
| `guests` | 3,810,000 | invites, the quota, the conversion | `InvitesEnd`, `OvershootBounded`, `KeysFollowTheName` |
| `backend` | 1,120,000 | a server and its app, channel keys, contents | `OneOwnerUnlessOverlap`, `OutMeansOut`, `ReadersAgree`, `NoLiftToOwnRank`, `ViewInOrder`, `GoneCannotRead`, `ContentsAgree` |
| `delivery` | 1,240,000 | the open chat, the socket, the input | `NoSilentLoss`, `ViewHasACause`, `ComesBack`, `TypingInOrder` |
| `accounts` | 2,340,000 | an account, contacts, auto-delete, devices, notifications | `EndedHasACause`, `HandleIsOneOwners`, `ContactsInOrder`, `AutoDeleteInOrder`, `DevicesInOrder`, `NoticesInOrder` |
| `calls` | 527,519 | one call with one fault; the candidates of a good one | `BusySlotsFollowTheLog`, `CallsComeUpOrEnd` |
| `contacts_consent` | | a counterexample, see [below](#disagreements-between-code-and-comments) | `AcceptedByBoth` |

Numbers of more than six digits are rounded. `CHECK_DEADLOCK FALSE` everywhere:
the budgets let every behaviour end, and the real system may be idle.

**Fairness** is assumed in two runs. `delivery`: weak fairness of the socket's
steps (`Settles`, `Beats`: a request is answered, a timer fires, the browser
tells every socket's end) for `ComesBack`. `calls`: weak fairness of `Progress`
(functions in progress go on, the timers for no answer and for the screen fire,
the browser finds out that a connection has no other end) for
`CallsComeUpOrEnd`. That a user does something, that a push arrives or that a
request succeeds is assumed nowhere. Every other property is a safety property;
"can never be read again" is said of a state, by its own records, and not as an
eventuality.

**Symmetry** is used where two of a kind are interchangeable (`Alike`): a
group's two later members, keys, requests, calls, servers. Not in `v4`, where
the tie-break orders the devices, nor beside a liveness property.

## The parts

Each part says what its state and actions are, what the models found to happen,
and how far the bounds reach. What is listed as happening is what the causes in
the properties stand for, unless it is said to be an observation only.

### One-time prekeys

**State.** `priv` is the key set of the record `pqxdh:opks`; `row` the rows of
the table `pqxdh_opk` (absent, free, consumed); `bundle` the existence of the KV
entry; `caps` and `alarm` the storage of the `PrekeyDO`; `marker` the record
`pqxdh:published`. `pub[t]` and `cons[r]` hold what a function in progress has
read: the code awaits between `idbGet` and `idbSet`, so each read-modify-write
is two actions. `got`, `win`, `accepts` and
`clobbered` are histories.

**Actions.** `PoolRead`/`PoolWrite` = `ensureOpkPool`; `Publish` = the first
upload of `publishPqxdhBundleIfNeeded`; `CountOpks`, `TopUpRead`, `TopUpWrite`,
`TopUpSend` = its second half with `topUpOpks`; `ConsumeRead`/`ConsumeWrite` =
`consumeForResponder`; `FetchBundle` = the route `/e2e/pqxdh/bundle` with
`PrekeyDO.fetch`; `Alarm` = its `alarm()`. An upload may be refused, be carried
out and its answer lost, or store the bundle and fail on the D1 batch.
`FetchBundle` may fail after the row was marked (`SpkOnly` with a consumed row).

**The owner's record.** `RecordHasACause`: the private half of a key that was
handed out is there until its handshake is accepted, and gone from then on. The
cause is in `clobbered`: a step wrote the record it had read over what another had
put into it or taken from it since, so that a private half is lost before its
handshake comes, or is back after it.

**Refinement.** `PrekeyPool` is the service without its parts: keys are offered
once, leave the pool for good when they are given out, and a fetch is answered
once, with a key or without. `ImplementsPool` maps the free rows to its `free`
and the consumed rows to its `spent`; everything the client does to its own
record is a stutter.

**Abstractions.** Keys are numbered in the order they are generated. Which free
row a fetch gets is left open (the code takes the oldest). The route's checks of
identity and its per-minute limits are left out: a fetch here is one that passed.
The consume and the alarm that is set right after it are one step. Rotation of
the signed prekeys is called by nothing, so the fingerprint in the marker never
changes.

**Bounds.** `MaxOpk` keys, `MaxNow` ticks, `MaxAccepts` acceptances per
handshake, one publishing tab. The real sizes (pool 100, low water 20, cap 8 per
hour) become 2 or 3, 1, and 1; what matters is that the pool runs empty, is
refilled, and that a requester reaches its cap and a new window.

`CapPerWindow` assumes that `setAlarm` succeeds after a draw
(`AlarmFails = FALSE`). The code swallows its failure; then an older alarm can
delete a counter of the current window and the cap is exceeded.

### v4 sessions

**State.** Per device: `rec` (session record), `hyb` (handshake record), `texts`
(plaintext store), `shown` (decrypted, not stored yet), `op` (the function that
holds the lock `sess:peer:dev`, and the record it loaded), `prime` (the two
primings, `primePair` and `primeRatchetSession`, which run under locks of their
own), `inflight` (the map of running fetches), `reset`, `outbox`, `shadow` and
`spent` (the shadow's handshake and the OPKs it consumed). Shared: `log` (the
server's messages; the time stamp of a message is its position) and `hs` (the
handshakes begun). `begun` and `accepts` are histories.

**Actions.** `PrimeBegin`, `PrimeFetched`/`PrimeFailed`, `PrimeSave` =
`primePair`, `primeRatchetSession` with `ensureHybridSession`; `EncryptBegin`,
`EncryptEnd`, `Post` = `_encryptForDevice` and the POST of `sendEncryptedDm`;
`DecryptBegin`, `DecryptRead`, `DecryptConsume`, `DecryptGiveUp`, `AcceptSave`,
`FirstRead`, `StoreText` = `decryptIncomingMessage` and `ratchetDecrypt` with
its reconciliation and `acceptHybridSession`; `ResetBegin`, `ResetEnd` =
`resetV4Session`; `Crash` = the page is closed, and what is in IndexedDB stays.

**Messages** are in `log` for ever, and `DecryptBegin` takes any of them at any
time and again: that covers pushes, history sweeps, reordering, duplication, and
(when it never happens) loss. A POST that fails loses the message for v4.

**Symbolic cryptography.** A root key is the sequence of the secrets mixed into
it; two are equal exactly when they were derived from equal inputs. A message
opens when the key derived for it is the key it was encrypted under.

**What happens.** A pair is *stuck* when nothing is going on and no message, old
or yet to be written, by either side, can ever be read. `StuckHasACause` is the
summary of the protocol: the only stuck states are those where both are
responders, or where one side lost a session whose OPK it consumed, had its OPK
taken by the shadow, accepted one handshake twice, or began one handshake
twice. Each of these happens, the first two without a reset or a crash. The
mutants show that without the handshake header on every message there would be
others. `KeysUsedOnce` holds through all of it.

**Bounds.** Two handshakes; three messages with any supply of OPKs, or two with
one reset and one crash, or two beside a shadow. Two handshakes are what a
collision needs; the third message is one that was encrypted before and posted
after the sides converged. `MaxSkip` is as large as the number of messages, so
the limit of 256 skipped keys is reached only in `rekey`. One device per user, no
fan-out; the signature is logged and not enforced by the code, and left out.
`SKIPPED_CAP`, which trims old skipped keys, is not modelled.

### Post-quantum rekey

The state machine of `pqRatchet.js` on one session: the initiator announces an
epoch with an ML-KEM ciphertext, its next DH step mixes the secret, the
responder does the same when it meets that step's public key, the echo confirms.
`MixedOnceAndAlike`: no secret is mixed twice, or by one side only, or
differently. `UnreadHasACause`: a message stays locked only when more messages
of a chain were lost than may be skipped (`TooManyLost`), or because an
activation it depends on was refused (`EpochBarred`): a replaced KEM identity
(`mix_mismatch`) or a ciphertext that never came (`missing_ct`), both of which
lock the session for good. The carriers of a ciphertext are counted when they
are encrypted (`ratchetSession.js:438`), although `pqRatchet.js:141-144` says
when they are sent; so failed POSTs use up the budget.

Bounds: `MaxSkip` 1, `CtBudget` 2 (for 256 and 32), two epochs, two KEM
identities, seven messages, the fewest in which the responder activates two
epochs. When a rekey is due (50 messages or 7 days) is left open.

### The master key of a chat

`CmkExchange` has per device an active key and the map from the rotation index
to its key; at the server one wrapped key per device and one backup per user;
and the functions in progress between their awaits: first sends that make a key,
requests and answers, the rotation after a removed device, its mirror on the
other side, the counter rotation, the restore at start.

* `RemovedKeyHasACause`. After a device was removed, others go on with a key it
  has: the remover's other devices skip the rotation; contacts whose handle
  sorts last are not told; devices that were away miss the event; the mirror
  gives up after some 32 s, and may mirror a wrap from before; closing the page
  loses the rotation; of two overlapping rotations the older one's key may be
  made active last (`rotateCMKForPeer`, `cmk.js:416-462`, has no lock).
* `SentStaysReadable`. A device can read what it sent, unless overlapping
  rotations took one index, a first send used the old key under the new index
  (`chatPipeline.js:791`), the boot's map overwrote a newer one
  (`cmkBundleSync.js:277`), or two creations overlapped (`createAndStoreCMK`
  has no single flight).

Bounds: two devices and one, either user first; three acts of users or the
network, one pending request, indices up to 3. A failing GET of the rotation
index (which counts as index 0) is not modelled, and reading and appending the
index are one step.

### Recovery

The setup writes the salt, an *empty* bundle, then shows the phrase; every device
syncs the keys it holds over the bundle, debounced and single-flight. A device
holds one key in use per chat and, for a chat of two, the map of its keys; a
restore *skips* a chat that has a key in use (`Skipped`, `cmkBundleSync.js:211`,
`groupCrypto.js:527`) and *replaces* a map (`Replaced`, line 273), and the next sync
writes what came of it.
`RecoveryInOrder`: the phrase the user has seen opens the bundle, the bundle
holds all keys of every device at rest (`KeysAreInTheBundle`), and a key that was in it
leaves it only for a cause (`NoKeyIsForgotten`). Causes: a bundle GET that failed and
counts as no bundle (the sync goes on and overwrites); two devices whose writes cross
(docs/RECOVERY.md §7 has "Last-write-wins ist ok" for it), or a sync that
collected its keys before its device read the bundle again; a timer that ends
during a sync; failed PUTs, which are not retried; a device whose keys, or the maps
it got with the phrase, no sync follows; two devices in setup, each
showing its phrase; a setup broken off after the salt, which leaves a dialog
that asks for a phrase never shown; a device that outlives an erasure. And a
device gives a key up (`gone`): a group's when it is renewed or left, one whose chat
gets another without its place in the map, what only a replaced map had, and a
key of the bundle for a chat in which the device uses another: of two devices that
began a chat each for itself, the one that syncs last decides what a new device
gets. Bounds: two devices, three keys (of one chat of two, of one group, or of a chat
each), two setups, one or two faults (`MCLimits`).

### Reading

`Reading` is one message on two pages. `ReadInOrder`: what is shown is the
server's text and reactions, and the message is opened wherever its key is.
Causes: an edit of a v4 message never enters the plaintext store, so the
original is back after reopening; a decrypt in flight patches the old text over
an edit; edits that cross are ordered by arrival; a refresh renews only
reactions, and keeps one whose last user withdrew it; a chat reopened within 1.5
s is not loaded; after `cmk_unavailable` a key that comes later is never tried;
the end of the ladder overwrites what is shown; a group edit in another hour
than the message shows as tampered. `why`, `stuck` and `other` record such
causes, page by page, and forget them when an edit reaches a page that nothing
else is on its way to, or a list shows what the server has. Bounds: two pages, a
ladder of one attempt, two edits, two reactions, three views, one failure.

### Groups

`GroupKeys` has the sender keys as each device holds them, the requests, pushes
and posts on their way; `GroupChain` the counters of message keys, read and
written apart; `GroupMembers` the rows, statement by statement.

* `FormerMemberCannotRead`: whoever is gone, and of whose departure a member was
  told, cannot read what that member sends from then on.
* `WrongKeyHasACause`: a stored peer key that is not the sender's is never asked
  for again; so each way to lose a key locks the sender's messages for good:
  devices that were away, a failed list of members (no rotation, or a
  distribution to nobody), an answer to `request_gsk` without a key (makes a new
  one), overlapping rotations, a device removed and back.
* `ReuseHasACause`: two messages get one key only if two devices or two tabs of a
  member overlapped. That it happens at all contradicts `groupCrypto.js:411`
  (`KeyPerMessage`).
* `AdminUnlessOverlap`: concurrent departures can leave a group without an admin.

Also seen: a departure is pushed to the remaining members only, so the leaver's
other devices keep all keys; the copy of a key in KV never expires; the limit of
members can be overshot; several paths leave the stored list as it was
(`ListHasACause`). Bounds: three members, one with two devices, three acts and
one pending request; two devices and four steps; three requests.

### Guests

`GuestInvite`: `InvitesEnd` says that a guest whose session was ended or
converted is never left among the members, whatever overlaps; that a card for a
direct chat has one usable session, and that every wrong code counts, both
unless two requests overlapped (`raced`): two guests on one invite, two
re-entries, a lookup that refills KV after a kill or a conversion, two wrong
codes, a slow request that unlocks a card again (`inviteRoutes.js:47`). A guest
in `broken` is excepted from the first two: the join broke off between membership,
session and mark; the end did (`_killGuestSessionRow`, 123-154: the row's end,
the copy in KV, then membership and contacts, with a failure between any two); a
re-entry could not look up or end the other sessions and went on without
(887-899); or the conversion could not delete the cached session. So a
single-use invite can be used twice (`ConsumerInviteOnce`, from
`inviteRoutes.js:730`). Observed: `join-auth` ignores `__used__` and the
inviter's membership; a conversion ignores `expires_at`; a cleanup that breaks
off leaves the contact rows for the next.

`GuestQuota`: the limit is checked before a message is stored and counted after;
`OvershootBounded` says by how much it can be exceeded. CMK control messages are
not checked but raise the counter (`chatSend.js:76`, `:649`).

`HandleChange`: a guest becomes an account, and both browsers rename the keys
they keep by handle. `KeysFollowTheName` fails only where: the boot path hands
over the token instead of the guest's handle (`App.svelte:303`) and so renames
nothing; the answer is lost or the page closed in between; the new account's
device is not published yet, so that a wrap or sender key made meanwhile cannot
be opened; an account that needs a key before the renaming makes one and the
renaming deletes the old; a network error marks the effect as tried; the rotation
map moves to the new id of the chat while messages keep the old. The other side
renames when the event of the conversion reaches an open page, or when its list of
contacts loads: an event that is lost (socket down, or `pushToUserDO` failing, which
`inviteRoutes.js:1259-1266` swallows) or a list that fails leaves its keys under the
old name (`missed`, `unloaded`) until the next load of the list, which a start, a
return to the foreground or another event about contacts makes and a reconnect does
not; a group has no such second chance.

Bounds: one invite of each kind, two guests, five requests or time limits; four
messages and one control message, two at once, limit 1; one closing, lost answer or
push, failed check or load (`MaxTrips` 1). A conversion that breaks off between its
own writes is in `GuestInvite` only: `HandleChange` begins where the contacts have
moved.

### Servers

`Servers`: a request first reads and decides (`Ask`), then writes its batch, then
deletes the stored recipient list (`Purge`, or `PurgeFails`, which is swallowed); others
run in between. A member who is not privileged is answered from a channel list in KV
if there is one (`listed`, `serverRoutes.js:218-227`), which is stored without waiting
(`ListPut`), ends after half a minute and is deleted by no change. Permission
words are sets of names; ranks are compared as in `permissions.js`, strictly and
as 32-bit numbers.

* `OneOwnerUnlessOverlap`, `OutMeansOut`: owner, bans, rows of members who left
  and limits are right unless a transfer, departure, removal, join, assignment
  or override wrote on checks that no longer held, or a closed server's channel
  kept its overrides (nothing deletes them).
* `ReadersAgree`: `channelAccess.js`, `permissions.js` and the recipient list
  decide alike; the stored recipient list is right when nothing is under way, except
  after a transfer, which does not delete it, a list read before a purge and stored
  after, and a purge that failed; and whoever lists a channel may read it, except
  while a channel list answers that was read before the member's access changed
  (`outdated`; "max. ~30s Lag", line 222).
* `NoLiftToOwnRank`: a request whose checks hold lifts nobody to its maker's
  rank. Observed: a position of 2^31 or more counts as negative
  (`permissions.js:129`); the DELETE of a member's override needs no rank, its
  POST does; deleting a role leaves its overrides and invites.

`ServerView` (`ViewInOrder`): an answer is shown for whichever server is chosen
by then; a failed load of a server left meanwhile blanks the chosen one; `leave`
names one server and leaves another; settings windows write old values, or a
whole bitfield from an empty or another channel's list.
`ChannelKeys` (`GoneCannotRead`): channels are known only from servers opened
since the start, the app may close during the delay, a failed fetch is not
retried, members who are away are not told.
`Contents` (`ContentsAgree`): requests that break off or overlap leave files
without a row or rows without a file. Observed: closing a server deletes only
its own row (the comment says CASCADE, `conversations.server_id` has no foreign
key), and channels accept no attachments, as `uploadRoutes.js` asks
`conversation_members`.

Bounds: three accounts, three roles, three overlapping requests about
membership or two of any kind, positions 1, 2, 8 with `Width` 8 for 2^31; two
servers, two channels and two calls; two departures; two requests with three
operations.

### Delivery

`ChatSync`: the server's insert, push and count of a message are three calls; the
client merges pushes with the answers of `/chat/list` and `/chat/unread`.
`NoSilentLoss`: when nothing is under way, a message of the peer that the user
has never seen is counted at the server, so that a reload shows the badge,
unless a `/chat/list` reset the counter without it (`chatRoutes.js:200`: rows
and counter are two statements) or its answer was not used. `ViewHasACause`: the
open chat shows its last page and nothing else, except for: a push lost while the
socket was down (nothing is fetched again on reconnect); an answer that came
for a chat left meanwhile (`chat.svelte.js:360`); a failed delete, which puts
back the old list; a group message in the open chat with its sender; a gap of
more than a page. One id can be in the list twice (`NoIdTwice`), which the
comment of `receiveMessage` excludes.
`WsLink`: `ComesBack` says that the socket comes back however its handlers
overlap. Two sockets at once do happen (`OneSocket`), and a conversion during a
ticket leaves one under the old handle (`HearsItsName`).

Bounds: two messages with pages of one, four acts, up to five sockets and five
faults.

### The input

`Composer`: the input stays mounted when another chat is chosen and reads the
draft only when it is mounted. So the text typed for A stays and Enter sends it
to B; A's draft may be sent again later; typing overwrites B's stored draft; an
edit left open becomes the next chat's text; a caption is read after the upload,
together with the chat, so that words go twice, words typed since are cleared,
or the file goes to the chat chosen meanwhile. What is typed while a caption is
on its way is saved with the caption: when the chat is closed before the answer,
the draft brings the caption back and it may be sent again. `TypingInOrder` says
that apart from these what is typed is kept until it is sent, once and where it
belongs; the words of an edit, which a reply leaves in the input, may be sent
as a message as often as one likes.
Bounds (`InputLimits`): up to two words, three moves, two sends, two files, two
replies or edits, one failure.

### Accounts

`Accounts`: one handle in a store that is not atomic over two accesses.
`EndedHasACause`: a session that was ended works again only because a refresh
put it back (`auth.js:94`), the index lost it (`auth.js:267`, or its limit of 20)
or a revocation failed half-way. `HandleIsOneOwners`: passkeys and data of two
people mix only through a deletion that broke off or took the lock late
(`authRoutes.js:678`), or a login's write of an old copy (`loginFinish.js:240`).
`Contacts`: the two rows agree and by consent, short of overlapping changes; a list
shows the row, short of an old copy behind a version token that expired and began
again, a change that did not push, a push, an answer or a load that was lost (a push
reaches no client whose socket is down, and only a start or a return to the
foreground loads the list again, `App.svelte:1505-1512`), and a change that broke off.
`AutoDelete`: a proposal over a proposal loses the agreed value; an answer
accepts whatever is proposed by then; a load of the setting shows what it read over
a notice that came meanwhile (`autoDelete.svelte.js:45-69`), and a load that fails
leaves what was shown; a request that breaks off after its write tells nobody; a
sweep deletes files of rows it then exempts, and passes over deletes that fail; rows
without an attachment type are never cleaned.
`Devices`: overlapping derivations of the index; a heartbeat that is not sent
again; the stuck sweep, which looks at the first registration; a removed device
with an upload under way, or that registers again.
`Push`: an endpoint belongs to whoever registered it last; an expired mute's
delete takes a newer one; another page's mute is seen after a reload, and so is one's
own when the answer to it is lost (`notifications.svelte.js:82`). Levels are the
code's four, and a message mentions one, everyone or nobody (one of a direct chat
counts as a mention). Nothing calls `/push/unsubscribe`.

Bounds: two people and two requests with the families of `MCBounds`; two users
with two changes and up to three losses or returns; a setting changed up to three
times, two loads, two sweeps, one failure; two devices and two acts, in which a
failing delete of the sweep and a retried upload are left out; two browsers of one
endpoint each, with one failure.

### Calls

`VoiceCall`: the routes with the call log in D1 and the busy slots in KV, each
read and each group of writes a step of its own, and per client the functions in
progress, whose awaits take seconds. Any read or write may fail, and the routes go
on as they do: a failed read finds no row, a failed row of the log is ignored, of two
slots one may be put or deleted without the other (`clearVoiceState`, 104-109).
`BusySlotsFollowTheLog`: nobody's slot names a call that is over, unless a request is
between its two writes; the slot's delete failed (`stuck`); a
`startCall` that went on after its call was ended rang a newer call's id again
(`overtaken`); or the call was declined by a request that could not read its row, or
answered when it was over by an answer that did not reach the row (`astray`).
Seen: the slot's TTL is not renewed, contrary to `voiceRoutes.js:53`;
an answer's UPDATE revives a cancelled call; a second ring declines the call
itself; the microphone can stay open (`MicClosedWhenIdle`). That the microphone's
prompt is answered is assumed.

`VoiceIce` follows the candidates of a call that goes well through their three
buffers. Its steps run in `calls`; `NoCandidateLeftBehind`, which says that
none stays in a buffer, is a definition that the configuration does not list.
Losses are left out of it.

Bounds: two users, one call with one fault, one request at a time between reading a
call's end and writing it (`MaxEnders`; with two and without the liveness property
the safety property was checked too). The voice rooms are not used by the client and
not modelled.

## Disagreements between code and comments

**`AcceptedByBoth`** (run `contacts_consent`). `contactRoutes.js:162`: the guard
asks whether the target has a pending request *to me*. It reads the status of the
target's row and not its direction, so a user's own second request finds the
row the first one made, and both rows become `accepted` although the other
never answered.

These are seen in the models too. Each is a definition that no configuration
lists, because the code does not satisfy it; naming it as an INVARIANT (or
PROPERTY) in the configuration of its module shows the counterexample.

* `V4Session!NeverStuck`. `ratchetSession.js:604-605`: "Konvergenz garantiert".
  The device with the lower key primes: no session, the fetch is awaited.
  Meanwhile the peer's first message arrives, its handshake is accepted under
  another lock and its OPK consumed. Then `primePair` saves its initiator record
  over the accepted one (line 392).
* `V4Session!NeverBothResponders`. `ratchetSession.js:617-620`: the recency gate
  prevents it, "ein ECHTES Peer-Reinit ist immer neuer". A message encrypted
  with the old handshake and posted late has a newer time stamp too.
* `V4Session!HandshakeBegunOnce` with a reset. `hybridSession.js:51-55`: only
  after this deletion the next prime makes a fresh handshake. The session record
  is deleted first, and a send in between primes with the old handshake.
* `V4Session!KeepsLowerInitiator`. `hybridSession.js:101`: the lower initiator
  key wins. For an accepted handshake the code decides the other way round.
* `V4Session!OwnHandshake`. `ratchetSession.js:14-16`: the shadow has its own
  handshake. It shares the record, and the OPK.
* `OneTimePrekeys!ConsumedStaysConsumed`. `pqxdhKeys.js:138`: one-time.
  Overlapping writes bring a deleted private half back. `HandedOutOnce` still
  holds: the server's tombstone keeps a second handshake from using it.
* `OneTimePrekeys!HandedIsHeld`. `pqxdhKeys.js:93-94`: private halves stay while
  a handshake may be under way. A consume that read the record before a top-up
  wrote it deletes the new ones.
* `PqRekey!BudgetReachesServer`, `GroupChain!KeyPerMessage`,
  `ChatSync!NoIdTwice`, `WsLink!OneSocket`, `GuestInvite!ConsumerInviteOnce`,
  `Accounts!UsedSessionLasts`, `MCKeys!RemovedKeyIsNeverUsed`: see the parts.

## Proofs

All proofs hold for every value of the constants under the assumptions named in
the modules (`PrekeyAssumption`, `DevAssumption`, `BoundsAssumption`, ...), which
TLC evaluates in the runs: the bounds are any natural numbers, the sets of
users, devices, keys or requests any sets, finite where a number of their members
is compared with a limit. Every inductive invariant was first checked by TLC.

| Theorem | Property | Module |
|---|---|---|
| `TypeCorrect`, `HandedOutOnceHolds`, `RecordHolds` | `TypeOK`, `HandedOutOnce`, `RecordHasACause` | `PrekeysAndGuests_proofs` |
| `TombstoneHolds`, `ImplementsPoolHolds` | `TombstonePermanent`, the refinement `ImplementsPool` | |
| `CapHolds` (if `AlarmFails` is FALSE) | `CapPerWindow` | |
| `KeysUsedOnceHolds` | `KeysUsedOnce` | `V4Session_proofs` |
| `MixedOnceAndAlikeHolds` | `MixedOnceAndAlike` | `V4Session_proofs` |
| `RemovedKeyHolds`, `SentReadableHolds` | `RemovedKeyHasACause`, `SentStaysReadable` | `Keys_proofs` |
| `RecoveryInOrderHolds`, `ReadInOrderHolds` | `RecoveryInOrder`, `ReadInOrder` | |
| `FormerMemberHolds`, `WrongKeyHolds` | `FormerMemberCannotRead`, `WrongKeyHasACause` | `Groups_proofs` |
| `ReuseHolds`, `AdminHolds` | `ReuseHasACause`, `AdminUnlessOverlap` | |
| `OneOwnerHolds`, `OutMeansOutHolds`, `ReadersAgreeHolds` | `OneOwnerUnlessOverlap`, `OutMeansOut`, `ReadersAgree` | `Servers_proofs` |
| `NoLiftHolds` | the action property `NoLiftToOwnRank` | |
| `GoneCannotReadHolds`, `ContentsAgreeHolds` | `GoneCannotRead`, `ContentsAgree` | |
| `NoSilentLossHolds`, `ViewHolds` | `NoSilentLoss`, `ViewHasACause` | `Delivery_proofs` |
| `TypingInOrderHolds` | `TypingInOrder` | |
| `BusySlotsHolds` | `BusySlotsFollowTheLog` | `VoiceCall_proofs` |
| `OvershootHolds`, `NoIncrementLostHolds` | `OvershootBounded`; the counter is what ran through | `PrekeysAndGuests_proofs` |
| `InvitesEndHolds`, `KeysFollowTheNameHolds` | `InvitesEnd`, `KeysFollowTheName` | |
| `EndedHasACauseHolds` | `EndedHasACause` | `Accounts_proofs` |
| `ContactsInOrderHolds`, `AutoDeleteInOrderHolds` | `ContactsInOrder`, `AutoDeleteInOrder` | |

**Prekeys.** `HandedOutOnce` is not inductive: a draw takes a *free* row, and one
needs that a key handed out before is not free (`HandedIsConsumed`), which
uploads preserve because of INSERT OR IGNORE (`UploadKeeps`).
`RecordHasACause` needs `Held`, which speaks of every key that was generated and
not only of those handed out: while a tab is still to store it, it is in no row and
in no other hand (`Private`); from then on it is in the record until it is spent, or
clobbered (`Settled`). `ImplementsPoolHolds`
shows step by step that an upload offers keys of which there is no row
(`UploadOffers`) and that marking a row spends its key (`MarkSpends`).
`CapHolds` needs `CapInv`: the stored counter bounds what its requester drew in
its window, and nothing was drawn in a later one (`Counted`); when there is no
counter, all windows with draws are over for any reading of the clock
(`Forgotten`), because the pending alarm lies two windows after every draw
(`AlarmLate`).

**v4 sessions.** The lemmas `SkipWF`, `StepWF`, `ReceiveWF` say of the ratchet's
operators that they keep a state well formed (`WF`: a chain begins with its
handshake and mixes only key pairs that exist; skipped keys lie below the
counter and have one public key per chain) and a key `Gone` that was used: it is
not cached, lies behind the receiving counter, and its chain is none the root
can still derive. The invariant adds `Apart` (the two devices' sending chains
are disjoint, and every key that was sent is behind the counter of each living
copy of its session, the one a function in progress holds included) and `Once`
(a key that was read is gone for every record of a handshake accepted at most
once). A fresh key pair makes a fresh chain: that is where cryptography enters,
as equality of symbolic terms. The session lock is what `Apart` rests on: a
function that holds it has the only copy that sends.

**Master key.** `KInv` follows each device that is not excused (`Good`): it can
read what it sent, has no session key but the map's for the index it sends
under, its active key is the map's last or about to become it, and if a removed
device has that key, a rotation is to come: in its inbox, in a function in
progress, or at the wrap it will mirror. Least indices come from the
well-foundedness of `<`.

**Recovery.** `RecoveryInv`: until its first bundle is stored a setup is one
device's, and no key of it exists (`Unseen`); unless two setups overlapped, the
salt is the only setup's since the account was last erased, so its phrase was
shown, or is about to be, or the setup was broken off (`OneSetup`,
`PhraseKnown`); what a device holds is in the bundle or due for it, and a sync
under way holds what its device held when it began, or the timer runs again
(`Written`); a device that has read the bundle holds all of it but what it has
given up or passed over, and so does its sync unless another bundle came between
(`Taken`; `TakingOver` says so of one restore). In every chat one key is in use.

**Reading.** `ReadInv` speaks of each page apart. While no page is still to be
told of an edit, everything at a page without an excuse is of the text of the
row: what it shows and keeps, what its lists, attempts and answers bring; or the
event that brings the text waits there, with the key to read it (`EditGood`). A
page that is locked is being tried, or has a cause (`LockPage`). What a page shows
of the reactions, and what its requests bring, is what the server has, or the
request that stored the last of them is still to send it (`ReactPage`).

**Groups.** Rows (`RowInv`): a departure that nothing overlapped is alone, and
its own statements say what holds between them. Counters (`ChainInv`): a key that
is not marked has one holder, is set once before use, and its counter is ahead
of all messages. Sender keys (`KInv`, `PInv`): whoever was sent a key in use is a
member, or its owner is to renew it or could not be told; a stored key is its
owner's, or another is coming, or went astray.

**Servers.** A request that has read holds what its checks said unless a cause
was recorded; owners, counts and rows follow (`OneOwner`, `JoinsCounted`,
`RowsOfMembers`, `OverridesOfMembers`). `Fresh`: a stored recipient list is
right, or a purge is to come, or there is a cause. A channel list that says yes,
stored or about to be, is right or its member is `outdated` (`ListsKnown`).
`NoLiftHolds` needs that a finite set of positions has a greatest one and that
positions below 2^31 are read as they are. `ChannelInv` (sender keys of a
channel): a key is one account's own, also while its post is under way; and
unless a cause was recorded, its owner is about to ask or to make another, or
whoever holds it is a viewer or a departure she has yet to act on.

**Contents.** `ContentInv`: keys of icons and of attachments are apart (`Apart`),
and a file is one message's (`Once`), so that no request deletes another's. An icon
that is about to be deleted is not the one named while the server is open
(`Icons`). A file that is not named is about to be, or about to be deleted, or
blamed (`Files`); of a message without its file or its conversation the same
holds (`Rows`). `Deletes` says what a request that deletes has listed: without it,
rows could go before their files.

**Delivery.** Both properties speak of states at rest; the invariant says what
stands for them meanwhile. What the counter lost is in an answer that is on its
way back (`Counted`): the rows are read before the counter is deleted, and what
came between is marked. A stored message of the open chat that is not shown
(`Complete`) is lost, or too old, or its push or the answer to its author is to
come, or it is being deleted, or the chat was just chosen and the list is to
come. `Placed` says of the list, and of the one kept for a rollback, where its
entries may come from. That a full page stays full needs that ids are handed
out in order and rows are not written again (`AboutGrows`).

**The input.** `InputInv` says where a word is. One typed for a new message is in
the draft shown, in that of another chat, on its way, or sent (`Kept`); what the
input shows does not count. While a message is on its way, only it may be given
back by the input (`Waiting`), whose one request it is (`OneAsk`), and the answer
clears it (`Single`). `InputAssumption` says that the value for "no chat" is no
chat. Of the bounds the proof uses only that they are numbers.

**Calls.** A call's row is written once, by the `startCall` that dialled it, so a
call that is over is not rung again; only its parties' slots can name it, and
whoever ends it clears both or leaves a cause, as does an answer that put both slots
when the call had ended and whose UPDATE is to come. TLC runs one call with one
fault, the theorem holds for any number of both, and of requests at once.

**Guest quota.** Messages stored are too weak a set: one that passed the check
will be stored whatever the counter says by then. `Bounded` speaks of all that
were accepted, in flight or done.

**Invites.** `InviteInv` relates the rows to the requests in progress. Whatever
overlaps, a member has a living session or her join is about to store one
(`InsideAlive`) or is being put out, or is `broken`, and all who redeem have read
this card (`Reads`). Until two
requests overlap, at most one redeems, the count it read is the card's, and only
living sessions are cached or about to be. For a direct chat, moreover, a card
that is still free has let in nobody but the guest whose join is about to mark
it (`Unused`, `FirstIn`), and two sessions live only while a re-entry is about
to relieve the other (`OneAlive`). `GuestsAssumption` says that the account that
takes an invite is no guest.

**The conversion.** `HandleInv`: a key or map left under the guest's name after
the conversion has a cause, or the answer that starts the renaming, or the
renaming itself, is under way (`Renaming`; at the other side the event is, or the
renaming is, `Following`); there
is one key until one is made too early (`OneKey`); and whoever was refused a key,
or is about to be, was refused by a side that has none under either name and can
get none, because no wrap is left from which it could (`Refusals`).

**The rekey.** `RekeyInv`: the two roots are one line (`OneLine`). Whoever stepped
last is ahead by its own step, with at most one secret mixed in before it, and
only the initiator mixes there; the other's root is a beginning of it (`Ahead`).
What was stored was sent on a root that its sender had (`SentOnRoot`), so a
message that makes the side behind step can only be of the root the other is at
(`StepsOntoTheOther`): what the hook mixed in is what the other had mixed in, or
the keys would differ. Each epoch then has its one secret (`OneEach`).
`RekeyAssumption` says that the bounds are numbers.

**Contacts.** `ContactsInOrder` speaks of rows at rest, and the rows of two users
are one-sided between the two statements of a change. `ContactsInv` says what holds
then, as long as no change crossed another: either the rows agree with each other
and with who asked, or some call is between its statements whose second one makes
them agree if it meets what the first left (`Mends`); what each request saw of the
rows is what its branch needs (`SawRight`). A first write may meet the halves of
another request only if it has read them, and then that other one still mends. For
the lists: a client without a reason in `blind` shows the row, or a load is due, or
a change is under way that makes one due, or its only load brings the row
(`Settled`); a copy with the current version is right (`CopyRight`), because a
version that is not an expired one is the last that was written (`Versioned`).
`MCAccountsAssumption` says that there are two users and that `Nobody` is none of
the values that calls hold.

**Auto-delete.** `AutoDeleteInv`: until two requests overlap there is one, and
what it read is the row (`CallsRight`); what was told to a screen, or is on its
way to it, is of the row, or an older one with a newer behind it (`CopyComes`),
and what a load has read is the row; and a sweep under way goes by the setting
it read, unless that was changed since (`SweepRight`). `AutoDeleteAssumption`
says that a conversation has two sides.

**Sessions.** `EndedHasACause` speaks of sessions whose end was answered; a request
that ends some takes several steps to that. `Unexcused` says that a session lives
without a reason in `why`, and `AccountsInv` that no unexcused one is among those
that were ended, nor among those a request in progress has dealt with (`Over`),
and that each one handed out is in the index (`AllListed`), which is where a
revocation finds it (`Killing`). No step makes a session unexcused that a client
has: a refresh that puts one back leaves a reason. The index is a sequence of which
a request writes back a filtered copy; that the recursion of the filter
(`Without`) keeps all others is shown through least indices (`FilterExists`,
`WithoutKeeps`). `AccountsAssumption` says that the two sessions of the beginning
fit into the index, `NoneAssumption` that an absent entry is no entry.

**What the attempts showed.** Invariants that TLC had found to hold turned out
false for larger constants, and were corrected by a cause or a condition that
the code justifies: the overrides of a closed server's channel in `OutMeansOut`,
positions beyond 32 bits in `NoLiftToOwnRank`, a mirrored wrap with a key that
the removed device has, and the older of two overlapping rotations being made
active last, in `RemovedKeyHasACause`. In `RecoveryInOrder` the model itself was wrong:
it judged a sync by what its device had read when it was stored, and not when
its keys were collected. And `SentOnce`, a part of `TypingInOrder`, was false with
one more move between chats: the caption in the draft, above, and the words of
edits had been overlooked. Two parts of `ReadInOrder` were false with one more
list, edit or reaction: lists that cross, and an excuse forgotten while an older
text was still on its way. `AutoDelete` forgot too early that a setting had been
changed during a sweep: with three changes and two sweeps its files and messages
came apart without a reason. And `StuckHasACause` holds only while `MaxSkip` is as
large as the number of messages: with a smaller one TLC finds a session that
stands still because a gap is too long to skip, which the code refuses for good.

**Only model-checked.** Liveness (`ComesBack`, `CallsComeUpOrEnd`) and anything
with ENABLED is beyond the prover. Not proved yet: `StuckHasACause`, whose
`Stuck` speaks of all messages that could ever be written; `UnreadHasACause`, for
the same reason; `ViewInOrder`; and of the run `accounts` `HandleIsOneOwners`,
`DevicesInOrder` and `NoticesInOrder`.

## What is not modelled

* PQXDH key agreement: pure cryptography, taken as symbolic by `V4Session`.
* Rate limiter: the decision is that of `PrekeyDO`'s cap, modelled there. The
  limits of routes are left out everywhere: a request here is one that passed.
* The v2/v3 branches of the chat pipeline, the formats of wraps and signatures,
  the list of devices in `sesame.js` and the fan-out to several devices of one
  user (the sessions do not touch each other).
* Small routes, version check, rollout, link safety, pulse heuristics,
  translations, Svelte components other than those named above, static pages.
* Hazards left out of the list in `PROJECT.json`, which has the forty that say
  most: the failure of `setAlarm` (excluded by an assumption of `CapPerWindow`); a
  page closed between ratchet and plaintext store (the text is lost by design of
  the ratchet); a service worker's icon counter; and second instances of listed
  ones that the same properties notice (overlapping setups of recovery, an
  expired mute deleted by key, a device limit read before it is written, and
  others).

## Plan

1. Proofs: `DevicesInOrder` and `NoticesInOrder`, then `ViewInOrder`.
2. Model: WebAuthn sign-in with its challenges, the rest of `inviteRoutes.js`
   (listing, info, warnings), voice rooms if the client begins to use them.
3. `SecureChannel`, an abstract two-party channel, with `V4Session` shown to
   implement its safety part.

## Running

    tlc -workers 2 -config MCV4Session.cfg MCV4Session
    tlapm V4Session_proofs.tla

A run takes between four seconds and three minutes on two cores; each proof
module between twenty seconds and some minutes.

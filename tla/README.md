# A TLA+ model of fastmessage

fastmessage is an end-to-end encrypted messenger: a Fastify server over SQLite
(`server/`), a React client that keeps its keys and messages in IndexedDB
(`web/`), a wrapper around the Olm and Megolm library (`packages/crypto`) and
shared wire schemas (`packages/shared`). The modules here are translated from
that source. TLC checks them on small instances, and the TLA+ proof system
proves the main properties for every value of the constants. `PROJECT.json`
lists runs, theorems, hazards and the source lines of every definition.

## Inventory

| Component | State | Operations | What makes it correct |
|---|---|---|---|
| Account lockdown (`security.ts`) | one `account_security` row per account: failures, last failure, level, deadline, tamper score | `recordFailure`, `recordSuccess`, `registerTamper`, `lockState`, `unlock` | guessing is bounded, cool-offs only grow, a hard lock revokes sessions and stays |
| Login, sessions, linking (`routes/auth.ts`, `tokens.ts`, `routes/devices.ts`, `links.ts`) | session tokens in SQLite, link codes in memory | register, login, logout, mint and redeem a code | nobody gets in while the account is locked |
| Mailbox, hub, gateway (`repo.ts`, `hub.ts`, `ws.ts`, `deliver.ts`) | message rows, live sockets per device | enqueue, push to live sockets, drain, ack-delete, close | a row is deleted only for a message its device has taken |
| Client identity, boot and logout (`messaging.ts`, `db.ts`) | identity, pickle key and account in IndexedDB and in memory, sockets, the reconnect timer | register, login, link, boot, logout | a browser holds the keys of the device it is signed in as, and nothing of it after a logout |
| Client connection and receive loop (`messaging.ts`) | the socket, the reconnect timer, Olm sessions in memory and saved | connect, reconnect, ack, decrypt, save | every message is processed, once |
| Client conversations (`messaging.ts`, `db.ts`) | `messages` and `conversations` tables, the conversations on screen | append, send, update a status, boot | screen and tables agree, outcomes are right |
| Key directory (`publish.ts`, `routes/keys.ts`, `repo.ts`) | devices, one-time keys, fallback keys | publish, claim, replenish | a one-time key is given to one peer, and its private half exists |
| Olm sessions in the client (`messaging.ts`, `packages/crypto`) | an account with a limited number of private keys; several sessions per peer device | create outbound, create inbound, encrypt, decrypt | whatever a peer sends can be decrypted |
| Group ratchet (`messaging.ts`, `packages/crypto`) | outbound session per group with the devices that have its key; inbound sessions; a buffer | rotate, distribute, encrypt, decrypt, buffer, flush | former members cannot read, members can, a ratchet key encrypts one message |
| Group membership (`routes/groups.ts`, `repo.ts`) | groups and members | create, add, remove | only members change it |
| Calls (`calls.ts`) | status, peer connection, offer, pending candidates | start, accept, reject, hang up, signals, the 1200 ms timer | both ends agree on the call, resources are released |
| Push, attachments, rate limiter, TURN, schemas, user interface, start-up, scripts | little or none | | see *Not modelled* |

The parts meet in four ways. A **login** goes through the lockdown, publishes
device keys and issues a token. The **token** opens a WebSocket, which registers
a sink in the hub and drains the mailbox. A **message** is encrypted per device
with Olm, sent as a frame, enqueued, pushed, acked, decrypted, routed by its
kind and appended to a conversation. **Room keys and call signals** are such
messages too, so groups and calls inherit the ordering and losses of the
mailbox.

What is hard here:

* JavaScript interleaves at every `await`. On the server the only one inside a
  state change is the verification of a password; the client awaits IndexedDB
  and `fetch` in nearly every function, and uses what it read before.
* Connections break without both ends noticing, and a client has one socket
  while the server may still hold its previous one.
* The client acks first, then decrypts, then saves the ratchet, then the
  record. A page may die in between at any point.
* Two devices may open sessions to each other at once, and one device handles
  several first messages at once while it saves its account as a whole.
* A logout, a call or a send goes on after its `await` with whatever the user
  has done meanwhile: logged in again, hung up, changed the group.
* The lock is escalated from two sides (failures and tampering) which do not
  know of each other.

`PROJECT.json` lists these as hazards with their lines and the properties that
would catch each one going wrong.

## Modules

| Module | Models |
|---|---|
| `Lockdown` | the lockdown of one account, with login, sessions, link codes, WebSockets, crash and restart |
| `LockdownProofs` | its theorems |
| `StoreForward` | abstract: accepted messages are delivered once, and lost only by a device that has failed |
| `Mailbox` | server mailbox, hub, gateway, network and the client's connection and receive loop, for one device |
| `MailboxProofs` | its theorems, with the refinement of `StoreForward` |
| `Conversation` | one direct conversation in the client: tables, screen, appends, sends to every device of the peer, status updates, reloads |
| `ConversationProofs` | its theorems |
| `MessageLog` | abstract: what reaches the recipient is on record at the sender, comes once, and outcomes are final |
| `DirectMessage` | composition: `Conversation` at the sender, the sender's connection, `Mailbox`, `Conversation` at the recipient |
| `DirectMessageProofs` | its theorems, with the refinement of its three components and of `MessageLog` |
| `KeyDirectory` | the one-time keys of one device, its account and Olm sessions in memory and on disk, and the peers that write to it |
| `KeyDirectoryProofs` | its theorems |
| `GroupAudience` | abstract: a message is addressed once, to the members of that moment, and read only by them |
| `Groups` | one group: the member list, the outbound session of one sender, the inbound sessions of the receivers |
| `GroupsProofs` | its theorems, with the refinement of `GroupAudience` |
| `Calls` | the call managers of several devices and the signals between them |
| `CallsProofs` | its theorems |
| `Identity` | a browser from login to logout: tokens, IndexedDB, page, sockets and timer |
| `IdentityProofs` | its theorems |
| `MCLockdown`, `MCConversation`, `MCDirectMessage`, `MCKeyDirectory`, `MCGroups`, `MCCalls`, `MCIdentity` | symmetry, the cool-off curve of the code, and which device belongs to whom |

### Lockdown

One account is modelled: accounts share no state. `row` is the database row and
each function of `security.ts` is an operator from rows to rows
(`RecordFailure`, `RecordSuccess`, `RegisterTamper`), applied by the requests
that call it. A handler runs to its next `await` without interruption and
`better-sqlite3` is synchronous, so a login is two actions: `LoginStart` reads
the lock and goes on to verify the password, and `LoginFails` or
`LoginSucceeds` happens later, after any number of other steps. `Slots` says
how many requests can be between the two. `CrashWhileLocking` is the process
dying between the revocation of the sessions and the save of the row, the one
place where two writes of a handler are not in a transaction and the order
matters. `Tick` advances the clock; a verification takes at most `VerifyTime`,
which is no longer than the failure window (argon2 takes a fraction of a second,
the window is 15 minutes).

The cool-off `30 s * 2^k`, capped at `k = 10`, is a constant function `CoolOff`
on `0..MaxDoublings`; the model assumes that it never decreases, and the run
takes powers of two.

### Mailbox

`mailbox` is the `messages` table for the device, `sinks` the hub's set,
`up[sk]` the acks on their way on each socket, `sock`, `opened` and `down` the
client's connection with the frames in flight, `due` the reconnect timer (or
`boot`). Handling of a message is three actions, one per stretch between awaits:
`HandleIncoming` acks and decrypts, `SaveRatchet` is the completed save of the
Olm session, `PutMessage` that of the record. The ratchet is external: what the
model uses of it is that a session decrypts each message once (`Fresh`), which
is also what keeps a redelivered message from being shown twice. Either end may
notice a broken connection first (`ServerNotices`, `ServerDrops`,
`ClientNotices`, `ClientDrops`); a closed socket loses its frames both ways.
Frames are sets: handlers of successive frames interleave at their awaits, so
no property can rely on their order.

Losing a message to a crash of the page between ack and record is what the code
does, so `StoreForward` has losses, but only after a failure (`failures`, which
the refinement maps to `crashes`). The loss may show later than the crash: an
ack that was on its way deletes the row afterwards.

### Conversation

`table` and `listed` are IndexedDB, `view` and `known` the state the page shows.
`persistAndAppend` is `StartAppend` (up to `await putMessage`) and
`FinishAppend`, which reads the conversation after the await.
`updateMessageStatus` is `StartUpdate`, which keeps the conversation it read in
`snapshot`, and `FinishUpdate`, which shows that snapshot. If another append or
update completed in between, what it showed is gone from the screen; the model
records this as `gap`. `Boot` is a reload at any point: requests to IndexedDB
that were under way may or may not have been committed, and only listed
conversations are shown. `SendAttachment` and `Uploaded` put the upload of a file
in front of the append; `RouteOlmContent` is what a message of another device,
or a carbon of an own one, does to the conversation.

`sendDmContent` serves the devices of the peer one after the other:
`SendOlmContent` is one turn of its loop (`served`), in which `sendFrame` writes
the frame or, with the socket closed, drops it (`handed` has what was written).
`Sent` is the loop run to its end, `SendThrows` a request in it that fails or a
device without keys, before all are served; what the first devices got stays
sent. `sendCarbon` swallows its errors and decides nothing.

### DirectMessage

Each of the three components is an instance of its module, and no action of
theirs is written again: a step of the composition is a step of one of them
beside stuttering of the others, or a step two take together. `SendOlmContent`
with an open connection puts the frame on `wire`; `ServerReceives` takes it from
there into `Path!SendEnvelope`; a message `Path` has in `routing` is what
`Route` hands to `persistAndAppend`, and `Append` is the completion of its put,
which is `PutMessage` in one module and `FinishAppend` in the other;
`RecipientReboots` is `Crash` in one and `Boot` in the other. The page believes
in its socket (`open`) longer than the connection lives (`uplink`). When a
connection ends, any subset of the frames written to it may still arrive, which
allows more than TCP does. The user writes to any number of devices, and
`Watched` is an arbitrary one of them; what is sent to the others leaves the
model. The sender of the composition receives nothing and the recipient sends
nothing: both directions in one page are in `Conversation`.

### KeyDirectory

`rows` and `claimed` are the `one_time_keys` table; a key is its id and the run
of the page that generated it (`life`), because a device that dies before it has
saved its account counts the same ids again and `INSERT OR IGNORE` then keeps
the old row. `account`, `list`, `cur` are the device's memory, `kept`,
`listKept`, `curKept` what IndexedDB has of it. A session is named after the key
that opened it, `Own` is the one the device opens itself. `task[p]` says how far
`decryptOlm` has come with a first message of `p`: `SaveSessions`, `SaveAccount`
with the generation of a batch, `Replenish` (which the server gets or not,
because the code swallows the error) and `SaveAgain`. Handlers of different
peers overlap, and each saves the account with everything the others have used
up. `Crash` is a page that dies between any two of these.

An Olm account holds a limited number of private keys (`Limit`), and generating
more discards the oldest (`Newest`), whether they are still in the directory or
not. `replenishKeys` generates its batch for every first message and never asks
how many the account holds, so this happens in the ordinary course of things:
the account starts with 20 keys (`INITIAL_ONE_TIME_KEYS`), every first message
uses up one at most and adds 5 (`REPLENISH_BATCH`), and libolm keeps 100. After
some 20 first messages the server gives out keys whose private halves are gone,
and a first message on one of them cannot be decrypted. `orphans` records the
keys that have become useless, by a crash or in this way: neither the account
nor a session has their private half. A page that reloads before the account
was saved may have a discarded key again.

### Groups

A session is named after the send that created it, and each send that loads or
creates a session makes an `OutboundGroup` object of its own (`ring`): two sends
that find none in memory unpickle the same row twice. `Fetch` reads the member
list, `EnsureInMemory`, `StartLoad` and `FinishLoad` are `ensureGroupSession`
with and without an object in the map, `StartGive` and `FinishGive` export the
key to one device and, after the awaits of `sendOlmContent`, mark it as served;
`Encrypt` is everything from the encryption to the start of the save, which no
await interrupts. At a receiver, `ReceiveKey`, `RouteKey` and `SaveKey` are the
stretches between the awaits of a room key's handler, `HandleGroupMessage`
buffers what cannot be decrypted yet, `FlushPending` decrypts the buffer, and
what is left of it is lost when one message of it throws.

`online` says whether `sendFrame` writes to a connection (`WriteKey`,
`WriteMessage`) or its frames are dropped, silently or with a connection that
is already dead. A page starts without a connection, at its first boot as at
any reload (`SenderReloads`): `boot` is ready before it connects, and messages
can be sent until `onopen`. A dropped room key counts as delivered all the same,
which `keyLost` and `msgLost` record. `forked` records that a ratchet is in use
that is older than the last one used: two sends that both unpickle the row, or
a page that dies before `saveGroupOut` is done.
`GroupAudience` knows neither keys nor sessions: the refinement maps the member
list read by a send to the audience of its message.

### Calls

Each run of `startCall` or `accept` is an attempt with a stage per await, and
names the stream and the connection it makes. The code compares no call ids, so
signals carry none that matter; they are a set and may be received in any order
or never. `Catch` is the catch block of both functions, `EndLocal` the end of a
call with its cleanup and timer. `strayed` records the attempts that were
overtaken by a hangup, a failure or a second click: their awaits go on against
the manager of another call, and the properties say what holds of all others.
What the browser decides is external: two connections connect if their
descriptions match, and one whose other end is gone fails.

### Identity

A registration, a login or a link is a number; token, account and pickle key of
it carry the same number. `kv` has the three rows of the key-value store, which
`StoreIdentity`, `StorePickleKey` and `SaveAccount` write one after the other;
`pickles` and `groups` the pickle keys that the stored Olm sessions and the
stored group sessions of others need. `Boot` is "stuck" when the account or one
of them cannot be unpickled (`OneKey`): `boot` then throws, in `loadSessions` or
`loadGroupInSessions`, and the splash screen stays. A logout is `Logout`,
`Revoke` and `Forget`, one per stretch between awaits, and may run twice at
once. `tasks` are sends and receives that wait meanwhile: a send for a claimed
key (`FinishClaim`), a receive for the upload of new one-time keys
(`FinishUpload`), or until it goes on to a room key (`FinishRoute`). `logout`
clears the account but not `this.pickleKey` (`key`), so that a receive which it
overtook still puts a group row, pickled with the old key, into the cleared
store; nothing removes it before the next logout, and the boot after the next
login throws on it.

`leftover`, `overlap` and `mishap` record the situations the properties have to
except. `leftover`: a login found an account or sessions stored, of an expired
identity, or put by such a late task. `overlap`: a login or a reconnect came
while a logout was under way, or a login while the timer ran or an old socket
had not closed. `mishap`: a request failed after the server had acted, or a
reload interrupted a login or a logout. The code gets all three wrong.

## Runs

| Run | Expected | What it shows |
|---|---|---|
| `lockdown` | pass | Parallel guessing is bounded, deadlines are well formed and cool-offs never shortened, either escalation revokes all sessions also across a crash, a sealed account stays sealed, no single step opens a hard lock |
| `lockdown_reopen` | violation | A hard lock can end without the two keys (below) |
| `lockdown_revoke` | violation | A session can exist under a hard lock (below) |
| `mailbox` | pass | No reprocessing after a save, no row that waits beside a live connection, refinement of `StoreForward`; every accepted message is delivered or lost to a crash, and leaves the mailbox |
| `conversation` | pass | Screen and tables agree except where an update was overtaken; stored outcomes stay, and are true of all devices of the recipient |
| `direct` | pass | What was written is on its way to the recipient's screen, or there, until the sender is disconnected or the recipient's page dies; refinement of `MessageLog` with every failure |
| `conversation_sent` | violation | "sent" does not mean handed to the network (below) |
| `keys` | pass | No key serves two peers, the directory and the account agree across reused ids, every session in use can be read, except for keys orphaned by a crash in one of two windows or by the limit of the account |
| `groups` | pass | Nobody outside the list a message was sent to gets a key for it; receivers that stay up can read it unless a frame of it was dropped; no ratchet key is used twice, also after a reload of the sender, unless its page died before the save or two sends unpickled the row; refinement of `GroupAudience` |
| `groups_live` | pass | Every message sent is in the end read by every device it was sent to, unless a frame of it was dropped before the first connection opened |
| `calls` | pass | A ringing device has an offer, microphone and screen agree, and dead calls leave the screen, as long as no attempt is overtaken |
| `identity` | pass | Whose keys a browser holds, how many sockets it has and which tokens are left, across logins, reloads, expiry and logouts that overlap sends, receives, reconnects and logins |

### Bounds, and why they are enough

* `lockdown`: three concurrent logins, two tokens, one code, soft lock after 2
  failures, hard lock after 4, window of 2 ticks, 2 doublings, clock to 5,
  tamper score to 5. Both escalations, an expired soft lock with level 1 on
  record, a restarted failure window, a capped exponent and a login overtaken
  by a hard lock all occur. The thresholds keep the order of the code's 5 and
  10; three slots let two late logins follow a third. `MaxTime` and `MaxTamper`
  are bounds of the model.
* `mailbox`: two messages, two socket identities (the current one and one the
  server has not given up), two broken connections or restarts, two crashes.
  A socket identity is reused once the server has closed it. Two messages are
  enough for one to be drained while the other is pushed; they meet nowhere
  else. No symmetry, because the run checks liveness as well.
* `conversation`: two own and two received messages, two devices, two reloads,
  one closed socket: two overlapping updates, an append in between, and a reload
  or a failure in every stage, the one between two devices included. Messages and
  devices are interchangeable, so symmetry is used, as in the other safety runs.
* `direct`: one message, two devices of which one is watched, two sockets of the
  recipient, one reload, one noticed and one unnoticed end of the sender's
  connection, two of the recipient's, two reloads of the recipient. Messages share
  the screens and the connections only; overlap of several on one screen is in
  `conversation`, on one connection in `mailbox`, and the theorems are for any
  number.
* `keys`: two peers, two initial keys and batches of two in an account of two,
  three messages, one crash. The first replenishment already discards a key that
  the directory has or the other peer holds, as the code's do after some twenty
  first messages. Where both keys are claimed, a peer starts from the fallback
  key; two first messages overlap while the device opens a session itself. The
  crash comes at every point of the four saves, and reused ids follow it. That
  both peers start from the fallback key does not happen with so few messages;
  the theorems cover it, being for any peers, messages and sizes of the account,
  its first keys and its batches (no larger than the account).
* `groups`: the sender and one receiver, two messages, two changes of the
  group, a connection that is not open yet and breaks once, a reload of each
  page: two overlapping sends with and without a rotation between them, two
  copies of one ratchet, a key ahead of and behind its message, a key or a
  message dropped before the connection opens, after it broke and after a
  reload. `groups_live` has two receivers, and no fault but the frames dropped
  before the first connection: one send serves a device while the other serves
  the next.
* `calls`: a caller, a callee with two devices, three attempts, one click on
  hang up: two calls in a row or one call accepted twice, on one or two
  devices, with busy replies and failures at any stage. `Callers` bounds who
  starts calls; the theorems have no such bound.
* `identity`: two logins, two reloads, three sockets, two clicks on Sign out,
  one send or receive waiting at a time: the second login overlaps everything
  that can be left of the first, and a reload follows it. Further sockets only
  repeat what the second and third do; tasks that wait together (`MaxTasks`)
  write to different tables, and the theorems allow any number of them.

Deadlock is checked for the lockdown (somebody can always try to log in). It is
switched off in the other runs: a user who writes, calls and logs in a bounded
number of times may stop, and all that was under way may have ended.

### Fairness

`mailbox` assumes weak fairness of what a running page, server and network
do by themselves: frames that can be received are received and handled, acks
are processed, both ends notice a closed connection, the gateway accepts a
connection, a due reconnect connects, and saves complete. `scheduleReconnect`
runs on every close as long as the page is logged in, which is what justifies
`WF(Connect)`. Nothing is assumed of the environment: connections break and
pages crash a bounded number of times, but need not. Neither the server nor
the client sends heartbeats of its own; that a half-open connection is noticed
is left to TCP, and is the weakest of these assumptions.

`groups_live` assumes weak fairness of each receiver's page: what reaches it is
handled and its saves complete. The sender need not send. `calls` assumes that a
connection whose other end is gone, or has another description, fails in the end
(browsers check the consent of the other end every few seconds); no signal need
arrive and no user need click.

## Where code and documents disagree

1. **A hard lock can be undone without the two keys** (`lockdown_reopen`).
   `recordFailure` sets level 1 whenever the failures are between the
   thresholds, whatever the level was (`security.ts:117`). If failed unlock
   attempts raise the tamper score to the hard threshold while a wrong password
   is being verified, counting that failure turns the hard lock into a soft one,
   which expires. README.md:182: "A hard-locked account can only be reopened
   with **two keys held by two people**". `HardLockNeverOpens` says what does
   hold: even then a cool-off is running.
2. **Sessions exist under a hard lock** (`lockdown_revoke`). A login whose
   password was being verified when the lock fell gets its token
   (`routes/auth.ts:82`), and a link code minted earlier is still redeemed.
   `security.ts:115` says "revoke everything on hard lock". `HardLockRevokes`
   and `SealedUntilUnlock` say what does hold: the lock itself leaves no
   session, and once nothing is pending nothing new appears.
3. **"Sent" is not sent** (`conversation_sent`). `sendFrame` drops a frame when
   the socket is not open and the message is then marked as sent.
   `routes/messages.ts:15` describes "REST send (fallback for when the WebSocket
   is unavailable)", which the client never uses; nor does it read the server's
   `sent` frame.

The models also describe defects that contradict no document; the properties
except exactly these, and say that there are no others.

* `KeyDirectory`: `replenishKeys` makes an account discard private keys that the
  server still gives out (`messaging.ts:345`); uploads come before the save of
  the account (`:347`), and two overlapping first messages can lose a key in a
  crash (`:780`). These are the three windows of `OrphansOnlyInWindow`.
* `Groups`: a room key that `sendFrame` drops is marked as delivered
  (`:388`, `:716`), so that its device can read no message of the session
  (`Dropped`). Two sends that unpickle the stored row at once, or a page that
  dies before `saveGroupOut` is done, use a key of the ratchet twice (`forked`).
* `Identity`: logins over what an expired identity, or a task overtaken by a
  logout, has left in the tables (`leftover`), and reconnects or logins during a
  logout (`overlap`). An interrupted login leaves its token valid (`mishap`).
* `Calls`: an attempt that was overtaken in its awaits goes on (`strayed`).

`Conversation` has two more:
overlapping status updates remove messages from the screen and can leave one at
"sending" in the table for good, and a conversation that begins with a received
message is never entered in the conversations table, so that it disappears at
the next reload while its messages stay stored. `CompleteWithoutGap` says that
these two are the only ways in which screen and table come apart.

## Proofs

All proofs are for arbitrary constants under the named assumptions of the
modules: thresholds in order, a nondecreasing cool-off curve, a verification no
longer than the failure window, finitely many request slots; own and received
messages distinct; the sender of a group one of its users; the watched device
one of the recipient's, who has at least one; an account with room for its
first keys and for one batch; `None` and
`NoSocket` outside the sets they stand beside; bounds natural numbers.

**Lockdown.** Types, and that a hard lock revokes, holds and stays sealed, need
only the type invariant: they are about one step at a time. `FailuresBelowHard`,
`CoolOffWellFormed` (together `RowWellFormed`) and `CoolOffNeverShortened` need a strengthening. A failure
can restart the counter when the window has passed, and would then set a shorter
cool-off than the one on record, unless that one has run out by then. `IInv`
therefore records how long a verification may have been under way
(`VerifyInTime`), where the deadline on record comes from (`CoolOffOrigin`: an
extension by tampering, or the failure counted last) and that a login admitted
after the last failure was admitted because that deadline had run out
(`LateLogins`). `ParallelGuesses` counts: the failures and the requests in
flight change together, and new requests are admitted only below the threshold.

**Mailbox.** `IInv` adds to the types who may hold a message (`Custody`: a record
is saved after its ratchet, the ratchet after decryption) and, until the first
crash, that acks are honest (`HonestAcks`: whatever is acked has been taken by
the page, and whatever is not taken still has its row), from which it follows
that without a crash nothing is lost (`NoneLost`, which no run checks by itself).
`RowsOnTheWay` is a part of `IInv`: while the client's socket is in the hub,
every row is in a frame to it or named in an ack from it, so that no row waits for a
reconnect that need not come. The refinement maps
`pending` to accepted messages neither stored nor lost; most steps are stutters,
`SendEnvelope` is `Accept`, `PutMessage` is `Deliver`, and `Crash`, or an ack
that takes effect after a crash, is `Fail`.

**Conversation.** `IInv` relates the stage of each function to the table
(`Progress`) and the snapshots of updates under way to table and screen
(`SnapshotsStored`, `SnapshotsCurrent`): without them nothing is known of what
`FinishUpdate` will show. For `OutcomeTold`, `Outcomes` says of each snapshot under
way what its table will say when it is stored: "sent" that all devices were
served, "failed" that one was not and, since its send has ended, never will be.

**DirectMessage.** Every step of the composition is a step of each component or
a stutter of it (`Components`), so the inductive invariants of `Conversation`, at
both ends, and of `Mailbox` carry over by the theorems about them and are not
proved again. What is new is how the components are connected: a frame on the
wire or at the server was written, to a served device, for a message on record
(`Carried`); until the sender is disconnected nothing written is lost before the
server (`Reliable`); the recipient's table is what its device has stored, and its
screen has no gap until it reloads (`Linked`). `WrittenReachesScreen` chains
`Reliable`, `HonestAcks` of `Mailbox` and `CompleteWithoutGap` of the recipient. The
refinement of `MessageLog` maps `outbox` to the sender's table and `inbox` to what
the recipient has stored; that `Receive` finds its message on record rests on
`Carried`, that outcomes are final on `TableMoves`. The proof names each component
twice, by its module and by the module of its proofs; three lemmas (`SamePath`,
`SameSender`, `SameRecipient`) say that both names mean the same.

**KeyDirectory.** `Distinct` needs that what peers hold is claimed and of one
peer (`Sharing`), and `TypeCorrect` that a peer opens one session and a handler
at work has put it into the list (`OneOpened`). `Backing` rests on `Numbered` (no
key is of a later run of the page than the present one, and those of the present
run have ids below the account's counter, so that new keys never clash with
them) and `Uploading` (a batch on its way to the directory is in the account and
new there, as far as it has not been discarded since). `Working` adds that a session a peer has opened is in the device's
list, or can still be started with a private key of the account, unless it is
orphaned (`Startable`), and that what the device has answered, or a peer takes
for established, is on its disk (`Established`). `Recovery` is about what
survives a crash: the private half of a published key is in memory
(`InMemory`), and on disk except in the two windows (`Recoverable`). That the
account discards nothing unless a batch exceeds its room is a count
(`Countable`, `NewestKept`): the third window needs it.

**Groups.** A session is used only with the member list it was created for
(`Sessions`, with `Proper` for rings in memory, on their way to disk and on
disk); with what was encrypted, exported and is held (`Encrypted`, `Gifts`,
`Held`) this gives `KeysInside`. `IndexFresh` says that unless the ratchet is `forked` the
objects in use, one for each session, and the last row on its way to disk, or
there, are ahead of every message sent (`Unrepeated`), which a reload preserves.
`Reading` needs that keys are handed out before the first message, at index 0
(`FromStart`: a ring whose index is positive has served its whole list) and that
a device that counts as served was given the key and keeps it (`Kept`): it is
on the wire, in a handler, in memory or on disk, or `sendFrame` has dropped it.
Neither depends on whether the sender is connected. The refinement maps `Fetch` to `Address`,
`HandleGroupMessage` and `FlushPending` to `Read`, and all else but the changes
of the member list to stutters.

**Calls.** `IInv` adds to the types that an attempt with a connection was begun
(`Begun`) and offers have a description (`Described`), which is all `Ringing`
needs. For the other two, `Clear` says in which stages an attempt can have a
stream or a connection at all, and `Calm` what an attempt nothing has overtaken
looks like in each of its stages: it has its device to itself, the device's
status fits it, and the device holds the stream and the connection it has made.

**Identity.** `OneSocket` follows from types, `Order` (a login is made on the
sign-in screen, a page that has not booted holds nothing) and `Single`: a socket that is
not closing is `this.socket` of a page that is signed in, not signing out and
not about to reconnect. `KeysOfDevice` needs that everything stored is of one
login, the one whose account is in memory if there is one (`Owned`), however far
the writes of a login have come: the account and the sessions of every kind
(`Stores`), and the keys they open with (`OpensWith`). Where nobody is signed in
and no login was begun, what is stored is of one earlier login or nothing, and
`leftover` is set if the next login finds any of it. `NoTokenLeft` adds where a valid token can be
(`Revocable`): it is that of the identity on the page, of the login that is
being stored, or of a stored identity that boot will find.

Only model-checked: the liveness properties (`EventuallyDelivered`,
`EventuallyRead`, `DeadCallsEnd`), which need fairness. All other properties of
the passing runs are stated by theorems. The inductive invariants of `Lockdown`,
`Mailbox`, `Conversation` and `Calls`, and the parts `Carried`, `Reliable` and
`Linked` of that of `DirectMessage`, were checked with TLC on instances like those
above before they were proved.

## Not modelled

* **Conversations and messages put after a logout's clear**, by a receive it has
  overtaken: they are not encrypted, stop no boot, and may be shown to the next
  user of the browser. **Outbound group sessions** left that way: boot does not
  read them; a send to the same group under another pickle key would throw.
* **Registration** beyond its result. A crash between `users.create` and
  `provisionAccount` leaves an account that can never lock.
* **REST send, drain and ack**, which the client does not call.
* **Several groups, several senders**: sessions of different groups or senders
  share no state. **Contacts' verification**: a set of fingerprints that nothing
  else reads.
* **Two tabs** of one browser, which share IndexedDB and overwrite each other's
  ratchets; one page per device is assumed.
* **Failures of IndexedDB**; a save either completes or dies with the page.
* **ICE candidates and muting** in `Calls`: they change what is heard, not who is
  in a call.
* **Push**: a wake-up changes no state. **Attachments**: immutable blobs under
  fresh names; `Conversation` has their upload. **Rate limiter**: appears as the
  number of request slots. **TURN**, **schemas**, **user interface**,
  **start-up**, **scripts**: no state of their own to speak of; screens that
  decide which operations can be called appear as guards.
* **Cryptography**: message keys are used once; that ciphertexts are secret is
  taken from the library.

## Plan

The plan's components and their composition for a direct message are built and
proved about. What would add most from here:

1. Registration in `Lockdown`: an account without a security row as a state.
2. Liveness of `KeyDirectory` and of the reconnect across logins of `Identity`,
   under the fairness of `mailbox`, and of `DirectMessage` from end to end.
3. A received message in `DirectMessage` that `KeyDirectory` cannot decrypt, as a
   step of its path.

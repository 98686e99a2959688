------------------------------ MODULE Identity ------------------------------
(***************************************************************************)
(* The identity of a browser from login to logout: what IndexedDB holds of *)
(* it, what the page has loaded, the tokens the server knows, and the      *)
(* sockets and the reconnect timer of the page (messaging.ts, db.ts,       *)
(* tokens.ts).                                                             *)
(*                                                                         *)
(* Every registration, login or link makes a new device: a token, an Olm   *)
(* account and a pickle key, here one number.  They are stored one by one, *)
(* cleared all at once, and read again at the next boot; a page may be     *)
(* reloaded between any two steps, a token may expire, and a logout, a     *)
(* send or a receive may still be waiting when the next login starts.      *)
(***************************************************************************)
EXTENDS Naturals, FiniteSets

CONSTANTS
  MaxLogins,    \* bound on registrations, logins and links
  MaxReloads,   \* bound on reloads of the page
  MaxSockets,   \* bound on the WebSockets it opens
  MaxTasks,     \* bound on the kinds of sends and receives that wait together
  Signouts      \* clicks on Sign out that can be under way together

ASSUME BoundAssumption ==
  MaxLogins \in Nat /\ MaxReloads \in Nat /\ MaxSockets \in Nat /\ MaxTasks \in Nat

None == 0
Logins == 1..MaxLogins

VARIABLES
  tokens, expired,    \* the tokens the server has; those past their time
  kv,         \* identity, pickleKey and account of the kv store
  pickles,    \* the pickle keys the stored Olm sessions were pickled with
  groups,     \* the same of the stored group sessions of others
  status, identity,   \* of the page
  account, key,       \* the account and the pickle key in memory
  sockets, socket,    \* the open WebSockets of the page; this.socket
  timer,      \* the reconnect timer runs
  stage,      \* where provision waits
  signout,    \* where each click on Sign out waits, with its token
  tasks,      \* what sends and receives have still to store
  last, reloads, opened,   \* logins, reloads and WebSockets so far
  leftover,   \* history: a login found an account or sessions stored
  overlap,    \* history: at a login or a reconnect a logout was under way, or
              \* at a login an old socket had not closed or the timer ran
  mishap      \* history: a request failed or a reload interrupted it

server == <<tokens, expired>>
disk == <<kv, pickles, groups>>
page == <<status, identity, account, key>>
net == <<sockets, socket, timer, opened>>
flows == <<stage, signout, tasks>>
history == <<leftover, overlap, mishap>>
vars == <<server, disk, page, net, flows, last, reloads, history>>

Empty == [identity |-> None, pickleKey |-> None, account |-> None]
Idle == [at |-> "idle", token |-> None]
Tasks == {"claim", "upload", "route"}

ServerTypes == tokens \subseteq Logins /\ expired \subseteq Logins

DiskTypes ==
  /\ kv \in [identity : 0..MaxLogins, pickleKey : 0..MaxLogins, account : 0..MaxLogins]
  /\ pickles \subseteq Logins /\ groups \subseteq Logins

\* A page that is signed in, and no other, knows its identity.
PageTypes ==
  /\ status \in {"loading", "loggedOut", "ready", "stuck"}
  /\ {identity, account, key} \subseteq 0..MaxLogins
  /\ status = "ready" <=> identity # None

\* Sockets are told apart by their numbers.
NetTypes ==
  /\ sockets \subseteq [id : 1..opened, token : Logins, st : {"connecting", "open", "closing"}]
  /\ opened \in 0..MaxSockets /\ socket \in 0..MaxSockets
  /\ \A s, t \in sockets : s.id = t.id => s = t

FlowTypes ==
  /\ stage \in {"idle", "call", "identity", "pickleKey", "account"}
  /\ signout \in [Signouts -> [at : {"idle", "revoke", "clear"}, token : 0..MaxLogins]]
  /\ tasks \subseteq Tasks
  /\ last \in 0..MaxLogins /\ reloads \in 0..MaxReloads

FlagTypes ==
  /\ timer \in BOOLEAN /\ leftover \in BOOLEAN /\ overlap \in BOOLEAN /\ mishap \in BOOLEAN

TypeOK == ServerTypes /\ DiskTypes /\ PageTypes /\ NetTypes /\ FlowTypes /\ FlagTypes

-----------------------------------------------------------------------------
(* Tokens and the socket.                                                  *)

Valid(n) == n \in tokens \ expired

SigningOut == \E c \in Signouts : signout[c].at # "idle"

\* connect: the new socket replaces this.socket.
Connect(n) ==
  /\ opened < MaxSockets
  /\ opened' = opened + 1
  /\ sockets' = sockets \union {[id |-> opened + 1, token |-> n, st |-> "connecting"]}
  /\ socket' = opened + 1

\* scheduleReconnect: one timer, and only while signed in.
ScheduleReconnect == timer' = (timer \/ status = "ready")

\* The gateway accepts a valid token.
Opens(s) ==
  /\ s \in sockets /\ s.st = "connecting" /\ Valid(s.token)
  /\ sockets' = (sockets \ {s}) \union {[s EXCEPT !.st = "open"]}
  /\ UNCHANGED <<server, disk, page, socket, timer, opened, flows, last, reloads, history>>

\* A socket is closed by the page, the network or the gateway.
Closes(s) ==
  /\ s \in sockets
  /\ sockets' = sockets \ {s}
  /\ ScheduleReconnect
  /\ UNCHANGED <<server, disk, page, socket, opened, flows, last, reloads, history>>

Reconnects ==
  /\ timer
  /\ timer' = FALSE
  /\ IF identity # None THEN Connect(identity) ELSE UNCHANGED <<sockets, socket, opened>>
  /\ overlap' = (overlap \/ SigningOut)
  /\ UNCHANGED <<server, disk, page, flows, last, reloads, leftover, mishap>>

Expires(n) ==
  /\ n \in tokens \ expired
  /\ expired' = expired \union {n}
  /\ UNCHANGED <<tokens, disk, page, net, flows, last, reloads, history>>

-----------------------------------------------------------------------------
(* Login.                                                                  *)

ShowsAuthScreen == status = "loggedOut"

Submit ==
  /\ ShowsAuthScreen /\ stage = "idle" /\ last < MaxLogins
  /\ last' = last + 1
  /\ stage' = "call"
  /\ overlap' = (overlap \/ SigningOut)
  /\ UNCHANGED <<server, disk, page, net, signout, tasks, reloads, leftover, mishap>>

Issued(n) == tokens' = tokens \union {n}
Revoked(n) == tokens' = tokens \ {n}

\* The server has issued the token, and the page has the response or not.
Served ==
  /\ stage = "call"
  /\ Issued(last)
  /\ \/ /\ stage' = "identity"
        /\ account' = last /\ key' = last
        /\ leftover' = (leftover \/ kv.account # None \/ pickles \union groups # {})
        /\ UNCHANGED mishap
     \/ stage' = "idle" /\ mishap' = TRUE /\ UNCHANGED <<account, key, leftover>>
  /\ UNCHANGED <<expired, disk, status, identity, net, signout, tasks, last, reloads, overlap>>

Refused ==
  /\ stage = "call"
  /\ stage' = "idle"
  /\ UNCHANGED <<server, disk, page, net, signout, tasks, last, reloads, history>>

StoreIdentity ==
  /\ stage = "identity"
  /\ kv' = [kv EXCEPT !.identity = last]
  /\ stage' = "pickleKey"
  /\ UNCHANGED <<server, pickles, groups, page, net, signout, tasks, last, reloads, history>>

StorePickleKey ==
  /\ stage = "pickleKey"
  /\ kv' = [kv EXCEPT !.pickleKey = last]
  /\ stage' = "account"
  /\ UNCHANGED <<server, pickles, groups, page, net, signout, tasks, last, reloads, history>>

\* saveAccount does nothing without an account; then the page is signed in.
SaveAccount ==
  /\ stage = "account"
  /\ kv' = IF account = None THEN kv ELSE [kv EXCEPT !.account = account]
  /\ stage' = "idle"
  /\ status' = "ready" /\ identity' = last
  /\ overlap' = (overlap \/ timer \/ sockets # {} \/ SigningOut)
  /\ Connect(last)
  /\ UNCHANGED <<server, pickles, groups, account, key, timer, signout, tasks, last, reloads, leftover, mishap>>

-----------------------------------------------------------------------------
(* Using the identity.                                                     *)

\* A send waits for a key (claim); a receive waits for the upload of new
\* one-time keys, or until it goes on to a room key (route).
StartTask(t) ==
  /\ status = "ready" /\ account # None /\ Cardinality(tasks) < MaxTasks
  /\ tasks' = tasks \union {t}
  /\ UNCHANGED <<server, disk, page, net, stage, signout, last, reloads, history>>

\* Rows are pickled with the key of now; they may replace older ones.
Put(rows) == \E gone \in SUBSET rows : rows' = (rows \ gone) \union {key}

\* The send opens a session with the account of now, or throws without one.
FinishClaim ==
  /\ "claim" \in tasks
  /\ tasks' = tasks \ {"claim"}
  /\ IF account # None THEN Put(pickles) ELSE UNCHANGED pickles
  /\ UNCHANGED <<server, kv, groups, page, net, stage, signout, last, reloads, history>>

\* replenishKeys saves the account, if there is one; what was decrypted before
\* may be a room key.
FinishUpload ==
  /\ "upload" \in tasks
  /\ \E more \in SUBSET {"route"} : tasks' = (tasks \ {"upload"}) \union more
  /\ kv' = IF account = None THEN kv ELSE [kv EXCEPT !.account = account]
  /\ UNCHANGED <<server, pickles, groups, page, net, stage, signout, last, reloads, history>>

\* A room key is stored, with an account or without.
FinishRoute ==
  /\ "route" \in tasks
  /\ tasks' = tasks \ {"route"}
  /\ Put(groups)
  /\ UNCHANGED <<server, kv, pickles, page, net, stage, signout, last, reloads, history>>

-----------------------------------------------------------------------------
(* Logout.  The button can be clicked again while the first click waits.   *)

ShowsSidebar == status = "ready"

\* Faulty variant: the socket stays open.
LogoutKeepsSocket(c) ==
  /\ ShowsSidebar /\ signout[c].at = "idle"
  /\ socket' = None
  /\ signout' = [signout EXCEPT ![c] = [at |-> "revoke", token |-> identity]]
  /\ UNCHANGED <<server, disk, page, sockets, timer, opened, stage, tasks, last, reloads, history>>

\* The socket stops delivering at once; its close event comes later.
Logout(c) ==
  /\ ShowsSidebar /\ signout[c].at = "idle"
  /\ sockets' = {IF s.id = socket THEN [s EXCEPT !.st = "closing"] ELSE s : s \in sockets}
  /\ socket' = None
  /\ signout' = [signout EXCEPT ![c] = [at |-> "revoke", token |-> identity]]
  /\ UNCHANGED <<server, disk, page, timer, opened, stage, tasks, last, reloads, history>>

ClearAll == kv' = Empty /\ pickles' = {} /\ groups' = {}

\* Faulty variant: the token is not revoked.
RevokeForgets(c) ==
  /\ signout[c].at = "revoke"
  /\ signout' = [signout EXCEPT ![c].at = "clear"]
  /\ ClearAll
  /\ UNCHANGED <<server, page, net, stage, tasks, last, reloads, history>>

\* The server has revoked the token, or cannot be reached; all stores are
\* cleared.
Revoke(c) ==
  /\ signout[c].at = "revoke"
  /\ \/ Revoked(signout[c].token) /\ UNCHANGED mishap
     \/ mishap' = TRUE /\ UNCHANGED tokens
  /\ signout' = [signout EXCEPT ![c].at = "clear"]
  /\ ClearAll
  /\ UNCHANGED <<expired, page, net, stage, tasks, last, reloads, leftover, overlap>>

\* Faulty variant: the identity stays in memory.
ForgetKeepsIdentity(c) ==
  /\ signout[c].at = "clear"
  /\ signout' = [signout EXCEPT ![c] = Idle]
  /\ account' = None /\ status' = "loggedOut"
  /\ UNCHANGED <<server, disk, identity, key, net, stage, tasks, last, reloads, history>>

\* The stores are clear: the page forgets the identity, but not its pickle key.
Forget(c) ==
  /\ signout[c].at = "clear"
  /\ signout' = [signout EXCEPT ![c] = Idle]
  /\ status' = "loggedOut" /\ identity' = None /\ account' = None
  /\ UNCHANGED <<server, disk, key, net, stage, tasks, last, reloads, history>>

-----------------------------------------------------------------------------
(* Reload and boot.                                                        *)

Reload ==
  /\ reloads < MaxReloads
  /\ reloads' = reloads + 1
  /\ status' = "loading" /\ identity' = None /\ account' = None /\ key' = None
  /\ sockets' = {} /\ socket' = None /\ timer' = FALSE
  /\ stage' = "idle" /\ tasks' = {} /\ signout' = [c \in Signouts |-> Idle]
  /\ mishap' = (mishap \/ stage # "idle" \/ SigningOut)
  /\ UNCHANGED <<server, disk, opened, last, leftover, overlap>>

\* Faulty variant: the identity alone counts.
StoredIdentityOnly == kv.identity # None /\ kv.identity \notin expired

\* boot takes the stored identity if all of it is there and not expired.
Stored == (\A k \in DOMAIN kv : kv[k] # None) /\ kv.identity \notin expired

\* Everything stored opens with the stored pickle key.
OneKey == {kv.account} \union pickles \union groups = {kv.pickleKey}

\* A pickle of another key throws, and the page stays at its splash screen.
Boot ==
  /\ status = "loading"
  /\ \/ /\ ~Stored
        /\ status' = "loggedOut"
        /\ UNCHANGED <<identity, account, key, sockets, socket, opened>>
     \/ /\ Stored /\ ~OneKey
        /\ status' = "stuck"
        /\ UNCHANGED <<identity, account, key, sockets, socket, opened>>
     \/ /\ Stored /\ OneKey
        /\ status' = "ready" /\ identity' = kv.identity
        /\ account' = kv.account /\ key' = kv.pickleKey
        /\ Connect(kv.identity)
  /\ UNCHANGED <<server, disk, timer, flows, last, reloads, history>>

-----------------------------------------------------------------------------
Init ==
  /\ tokens = {} /\ expired = {} /\ kv = Empty /\ pickles = {} /\ groups = {}
  /\ status = "loading" /\ identity = None /\ account = None /\ key = None
  /\ sockets = {} /\ socket = None /\ timer = FALSE /\ opened = 0
  /\ stage = "idle" /\ signout = [c \in Signouts |-> Idle] /\ tasks = {}
  /\ last = 0 /\ reloads = 0
  /\ leftover = FALSE /\ overlap = FALSE /\ mishap = FALSE

Next ==
  \/ \E s \in sockets : Opens(s) \/ Closes(s)
  \/ Reconnects \/ \E n \in tokens : Expires(n)
  \/ Submit \/ Served \/ Refused \/ StoreIdentity \/ StorePickleKey \/ SaveAccount
  \/ \E t \in Tasks : StartTask(t)
  \/ FinishClaim \/ FinishUpload \/ FinishRoute
  \/ \E c \in Signouts : Logout(c) \/ Revoke(c) \/ Forget(c)
  \/ Reload \/ Boot

Spec == Init /\ [][Next]_vars

-----------------------------------------------------------------------------
(* Properties.                                                             *)

\* A page that is signed in holds the keys of the device it is signed in as,
\* and boot can read all it finds, with two exceptions.  leftover: a login was
\* made over an account or sessions that were still stored, those of an expired
\* identity or what a send or a receive had put after a logout's clearAll.
\* overlap: a login or a reconnect came while a logout was under way, or a login
\* before the old socket was gone.
KeysOfDevice ==
  ~leftover /\ ~overlap =>
    /\ status # "stuck"
    /\ status = "ready" => account = identity

\* A page that is signed in has at most one WebSocket, and one that has signed
\* out has none, unless a reconnect came during a logout, or a login before the
\* old socket's close event or the reconnect it scheduled: frames are handled
\* once, and not after the logout.
OneSocket ==
  ~overlap =>
    Cardinality({s \in sockets : s.st # "closing"}) <= (IF status = "ready" THEN 1 ELSE 0)

\* After a logout no token of the browser is valid, unless the server could
\* not be reached, a page was reloaded half-way, or an identity was replaced.
NoTokenLeft ==
  /\ status = "loggedOut" /\ stage = "idle" /\ ~SigningOut
  /\ ~mishap /\ ~overlap /\ ~leftover
  => tokens \subseteq expired
=============================================================================

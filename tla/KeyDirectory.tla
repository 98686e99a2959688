---------------------------- MODULE KeyDirectory ----------------------------
(***************************************************************************)
(* The prekeys of one device and the Olm sessions they start: the key      *)
(* directory on the server (routes/keys.ts, repo.ts), the device's account *)
(* and sessions in memory and in IndexedDB, and the peers that write to it *)
(* (messaging.ts, crypto/src/index.ts).                                    *)
(*                                                                         *)
(* A peer claims a key for every message it sends, and uses it only if it  *)
(* has no session with the device yet.  The first message of a session     *)
(* makes the device use up the private half; it then saves the sessions,   *)
(* saves the account, uploads new keys and saves the account again, and    *)
(* may die between any two of these.  Key ids are counted in the account,  *)
(* so a device that dies gives out the same ids again, for other keys.     *)
(* An account holds a limited number of keys: generating more than that    *)
(* discards the oldest, whether they are still in the directory or not.    *)
(***************************************************************************)
EXTENDS Naturals, FiniteSets

CONSTANTS
  Peers,       \* devices of other users that write to the device
  None,
  Initial,     \* INITIAL_ONE_TIME_KEYS
  Batch,       \* REPLENISH_BATCH
  Limit,       \* max_number_of_one_time_keys of an Olm account
  MaxSends,    \* bound on the messages of the peers together
  MaxCrashes   \* bound on reloads and crashes of the device's page

ASSUME KeyAssumption ==
  /\ Initial \in Nat /\ Batch \in Nat /\ Limit \in Nat
  /\ Initial <= Limit /\ Batch <= Limit
ASSUME BoundAssumption == MaxSends \in Nat /\ MaxCrashes \in Nat

Keys == [id : Nat, life : Nat]           \* life: the run of the page it is from
ASSUME NoneAssumption == None \notin Keys
Fallback == [id |-> 0, life |-> 0]
Own == [id |-> 0, life |-> 1]            \* the session the device itself opens
Fresh(next, n, life) == {[id |-> i, life |-> life] : i \in next..(next + n - 1)}

\* What an account keeps of these keys.
Newest(keys) == {k \in keys : Cardinality({j \in keys : j.id >= k.id}) <= Limit}

VARIABLES
  rows, claimed,      \* the one_time_keys table
  bundle,   \* bundle[p]: the key in the claim response p has
  plist, pcur,        \* sessions p has with the device, and the one it uses
  replied,  \* peers that had a message on the session they opened
  sends,    \* the claims of the peers, one for each message
  inbox,    \* inbox[p]: messages on their way from p to the device, equal ones as one
  outbox,   \* outbox[p]: messages on their way to p, by session
  account,  \* the account in memory: private one-time keys, next key id
  list, cur,          \* sessions with each peer in memory, and the one used
  kept, listKept, curKept,    \* what IndexedDB has of these
  task, batch,        \* what a first message of p has still to do; its upload
  orphans,  \* history: generated keys with no private half or session left
  exposed,  \* history: peers whose key left the disk before their session came
  crashes

directory == <<rows, claimed>>
peer == <<bundle, plist, pcur, replied, sends>>
wire == <<inbox, outbox>>
memory == <<account, list, cur>>
disk == <<kept, listKept, curKept>>
handler == <<task, batch>>
history == <<orphans, exposed, crashes>>
vars == <<directory, peer, wire, memory, disk, handler, history>>

Accounts == [priv : SUBSET Keys, next : Nat]
Messages == [sess : Keys, type : {0, 1}]

\* The session in use is one of the list; a handler has keys to upload
\* exactly from their generation to its last save.
TypeOK ==
  /\ rows \subseteq Keys /\ claimed \subseteq rows
  /\ bundle \in [Peers -> SUBSET Keys]
  /\ plist \in [Peers -> SUBSET Keys] /\ list \in [Peers -> SUBSET Keys]
  /\ listKept \in [Peers -> SUBSET Keys]
  /\ pcur \in [Peers -> Keys \union {None}] /\ cur \in [Peers -> Keys \union {None}]
  /\ curKept \in [Peers -> Keys \union {None}]
  /\ replied \subseteq Peers /\ exposed \subseteq Peers /\ orphans \subseteq Keys
  /\ sends \in 0..MaxSends
  /\ inbox \in [Peers -> SUBSET Messages] /\ outbox \in [Peers -> SUBSET Keys]
  /\ account \in Accounts /\ kept \in Accounts
  /\ task \in [Peers -> {"idle", "sessions", "account", "upload", "uploaded"}]
  /\ batch \in [Peers -> SUBSET Keys]
  /\ crashes \in 0..MaxCrashes
  /\ \A p \in Peers :
       /\ pcur[p] \in plist[p] \union {None} /\ cur[p] \in list[p] \union {None}
       /\ curKept[p] \in listKept[p] \union {None}
       /\ task[p] \notin {"upload", "uploaded"} => batch[p] = {}

-----------------------------------------------------------------------------
(* The key directory.                                                      *)

Unclaimed == rows \ claimed

\* Faulty variant: a key is handed out and not marked.
ClaimLeaves(p, k) ==
  /\ k \in Unclaimed /\ \A j \in Unclaimed : k.id <= j.id
  /\ bundle' = [bundle EXCEPT ![p] = {k}]
  /\ UNCHANGED claimed

\* The oldest unclaimed key, which is claimed from then on.
Claim(p, k) ==
  /\ k \in Unclaimed /\ \A j \in Unclaimed : k.id <= j.id
  /\ bundle' = [bundle EXCEPT ![p] = {k}]
  /\ claimed' = claimed \union {k}

\* The last-resort key, when there is no other.
ClaimFallback(p) ==
  /\ Unclaimed = {}
  /\ bundle' = [bundle EXCEPT ![p] = {Fallback}]
  /\ UNCHANGED claimed

PeerClaims(p) ==
  /\ bundle[p] = {} /\ sends < MaxSends /\ sends' = sends + 1
  /\ (\E k \in Unclaimed : Claim(p, k)) \/ ClaimFallback(p)
  /\ UNCHANGED <<rows, plist, pcur, replied, wire, memory, disk, handler, history>>

\* INSERT OR IGNORE: an id that has a row keeps it.
Inserted(new) == rows \union {k \in new : \A r \in rows : r.id # k.id}

-----------------------------------------------------------------------------
(* A peer.                                                                 *)

\* ensureOutboundSession and sendOlmContent: the claimed key opens a session
\* only if there is none.
PeerSends(p) ==
  \E k \in bundle[p] :
    LET s == IF pcur[p] = None THEN k ELSE pcur[p]
        type == IF s # Own /\ p \notin replied THEN 0 ELSE 1
    IN
    /\ bundle' = [bundle EXCEPT ![p] = {}]
    /\ plist' = [plist EXCEPT ![p] = @ \union {s}]
    /\ pcur' = [pcur EXCEPT ![p] = s]
    /\ inbox' = [inbox EXCEPT ![p] = @ \union {[sess |-> s, type |-> type]}]
    /\ UNCHANGED <<directory, replied, sends, outbox, memory, disk, handler, history>>

\* A session the device opened joins the list and is used from then on.
PeerReceives(p, s) ==
  /\ s \in outbox[p]
  /\ outbox' = [outbox EXCEPT ![p] = @ \ {s}]
  /\ plist' = [plist EXCEPT ![p] = @ \union {s}]
  /\ pcur' = IF s \in plist[p] THEN pcur ELSE [pcur EXCEPT ![p] = s]
  /\ replied' = IF s = Own THEN replied ELSE replied \union {p}
  /\ UNCHANGED <<directory, bundle, sends, inbox, memory, disk, handler, history>>

-----------------------------------------------------------------------------
(* The device.                                                             *)

\* Faulty variant: a pre-key message always starts a session.
MatchesInboundNever(p, m) == m.type = 1 /\ m.sess \in list[p]

\* A session of the list decrypts the message.
MatchesInbound(p, m) == m.sess \in list[p]

\* createInboundSession finds the private half of the key.
HasKey(m) == m.type = 0 /\ m.sess \in account.priv \union {Fallback}

\* decryptOlm: a message of a known session saves the sessions and is done; a
\* first one starts a session and has four awaits ahead; an error is swallowed.
HandleIncoming(p, m) ==
  /\ m \in inbox[p]
  /\ inbox' = [inbox EXCEPT ![p] = @ \ {m}]
  /\ \/ /\ MatchesInbound(p, m)
        /\ listKept' = [listKept EXCEPT ![p] = list[p]]
        /\ curKept' = [curKept EXCEPT ![p] = cur[p]]
        /\ exposed' = exposed \ {p}
        /\ UNCHANGED <<memory, task>>
     \/ /\ ~MatchesInbound(p, m) /\ HasKey(m)
        /\ account' = [account EXCEPT !.priv = @ \ {m.sess}]
        /\ list' = [list EXCEPT ![p] = @ \union {m.sess}]
        /\ cur' = [cur EXCEPT ![p] = m.sess]
        /\ task' = [task EXCEPT ![p] = "sessions"]
        /\ UNCHANGED <<listKept, curKept, exposed>>
     \/ /\ ~MatchesInbound(p, m) /\ ~HasKey(m)
        /\ UNCHANGED <<memory, task, listKept, curKept, exposed>>
  /\ UNCHANGED <<directory, peer, outbox, kept, batch, orphans, crashes>>

\* Faulty variant: the sessions are not put.
SaveSessionsForgets(p) ==
  /\ task[p] = "sessions"
  /\ task' = [task EXCEPT ![p] = "account"]
  /\ exposed' = exposed \ {p}
  /\ UNCHANGED <<directory, peer, wire, memory, disk, batch, orphans, crashes>>

\* saveSessions completes, ...
SaveSessions(p) ==
  /\ task[p] = "sessions"
  /\ task' = [task EXCEPT ![p] = "account"]
  /\ listKept' = [listKept EXCEPT ![p] = list[p]]
  /\ curKept' = [curKept EXCEPT ![p] = cur[p]]
  /\ exposed' = exposed \ {p}
  /\ UNCHANGED <<directory, peer, wire, memory, kept, batch, orphans, crashes>>

\* The whole account is pickled, whatever other handlers have used up.
KeepAccount(p) ==
  /\ kept' = account
  /\ exposed' = exposed \union {q \in Peers \ {p} : task[q] = "sessions"}

NoSession(k, lists) == \A q \in Peers : k \notin lists[q]

\* ... saveAccount completes and replenishKeys generates a batch, which the
\* account may have to make room for, ...
SaveAccount(p) ==
  LET new == Fresh(account.next, Batch, crashes)
      all == account.priv \union new
  IN
  /\ task[p] = "account"
  /\ KeepAccount(p)
  /\ account' = [priv |-> Newest(all), next |-> account.next + Batch]
  /\ orphans' = orphans \union {k \in all \ Newest(all) : NoSession(k, list)}
  /\ batch' = [batch EXCEPT ![p] = new]
  /\ task' = [task EXCEPT ![p] = "upload"]
  /\ UNCHANGED <<directory, peer, wire, list, cur, listKept, curKept, crashes>>

\* ... which reaches the server or not, ...
Replenish(p) ==
  /\ task[p] = "upload"
  /\ task' = [task EXCEPT ![p] = "uploaded"]
  /\ rows' \in {rows, Inserted(batch[p])}
  /\ UNCHANGED <<claimed, peer, wire, memory, disk, batch, history>>

\* Faulty variant: the batch is not forgotten.
SaveAgainKeepsBatch(p) ==
  /\ task[p] = "uploaded"
  /\ KeepAccount(p)
  /\ task' = [task EXCEPT ![p] = "idle"]
  /\ UNCHANGED <<directory, peer, wire, memory, listKept, curKept, batch, orphans, crashes>>

\* ... and the account is saved once more.
SaveAgain(p) ==
  /\ task[p] = "uploaded"
  /\ KeepAccount(p)
  /\ task' = [task EXCEPT ![p] = "idle"]
  /\ batch' = [batch EXCEPT ![p] = {}]
  /\ UNCHANGED <<directory, peer, wire, memory, listKept, curKept, orphans, crashes>>

\* The device writes to p, on the last session of its list or on one it opens
\* with a key of p; the sessions are saved before the frame is sent.
DeviceSends(p) ==
  LET s == IF cur[p] = None THEN Own ELSE cur[p] IN
  /\ list' = [list EXCEPT ![p] = @ \union {s}]
  /\ cur' = [cur EXCEPT ![p] = s]
  /\ listKept' = [listKept EXCEPT ![p] = list'[p]]
  /\ curKept' = [curKept EXCEPT ![p] = s]
  /\ outbox' = [outbox EXCEPT ![p] = @ \union {s}]
  /\ UNCHANGED <<directory, peer, inbox, account, kept, handler, history>>

\* The page dies and boots from IndexedDB, which may still have a key that was
\* discarded since.
Crash ==
  /\ crashes < MaxCrashes
  /\ crashes' = crashes + 1
  /\ account' = kept /\ list' = listKept /\ cur' = curKept
  /\ task' = [p \in Peers |-> "idle"] /\ batch' = [p \in Peers |-> {}]
  /\ orphans' = {k \in (rows \union orphans) \ kept.priv : NoSession(k, listKept)}
  /\ exposed' = {}
  /\ UNCHANGED <<directory, peer, wire, disk>>

-----------------------------------------------------------------------------
\* publishDeviceKeys: the device has just registered.
Init ==
  /\ rows = Fresh(1, Initial, 0) /\ claimed = {}
  /\ bundle = [p \in Peers |-> {}]
  /\ plist = [p \in Peers |-> {}] /\ pcur = [p \in Peers |-> None]
  /\ replied = {} /\ sends = 0
  /\ inbox = [p \in Peers |-> {}] /\ outbox = [p \in Peers |-> {}]
  /\ account = [priv |-> Fresh(1, Initial, 0), next |-> Initial + 1]
  /\ kept = account
  /\ list = [p \in Peers |-> {}] /\ cur = [p \in Peers |-> None]
  /\ listKept = list /\ curKept = cur
  /\ task = [p \in Peers |-> "idle"] /\ batch = [p \in Peers |-> {}]
  /\ orphans = {} /\ exposed = {} /\ crashes = 0

Next ==
  \/ \E p \in Peers :
       \/ PeerClaims(p) \/ PeerSends(p)
       \/ \E s \in outbox[p] : PeerReceives(p, s)
       \/ \E m \in inbox[p] : HandleIncoming(p, m)
       \/ SaveSessions(p) \/ SaveAccount(p) \/ Replenish(p) \/ SaveAgain(p)
       \/ DeviceSends(p)
  \/ Crash

Spec == Init /\ [][Next]_vars

-----------------------------------------------------------------------------
(* Properties.                                                             *)

Readable(p, m) == MatchesInbound(p, m) \/ HasKey(m) \/ m.sess \in orphans

\* Whatever a peer has sent or sends next, the device can decrypt: it has the
\* session, or still the private half of the key that opened it, unless that
\* key is orphaned, by a crash or by the limit of the account (see
\* OrphansOnlyInWindow).  This survives glare (both ends open a session and
\* each uses the other's), overlapping first messages, a shared fallback key
\* and crashes between the saves of decryptOlm.
SessionsWork ==
  \A p \in Peers :
    /\ \A m \in inbox[p] : Readable(p, m)
    /\ pcur[p] # None =>
         Readable(p, [sess |-> pcur[p],
                      type |-> IF pcur[p] # Own /\ p \notin replied THEN 0 ELSE 1])

\* Every key the server gives out, or has given out and no session uses yet,
\* has its private half on the device, unless it is orphaned: the account had
\* no room for it, or a crash fell into a window.  Ids used twice after a crash
\* do not make the directory and the account disagree.
DirectoryBacked ==
  \A k \in Unclaimed \union UNION {bundle[p] : p \in Peers} :
    k \in account.priv \union orphans \union {Fallback}

\* No two peers ever build on the same one-time key; only the fallback key is
\* shared.
NoSharedKey ==
  \A p, q \in Peers : p # q =>
    (plist[p] \union bundle[p]) \intersect (plist[q] \union bundle[q]) \subseteq {Fallback, Own}

\* A key becomes useless in three ways only.  A crash does it between the upload
\* of new keys and the save after it, or while the session that used the key up
\* is unsaved and another handler has saved the account: decryptOlm saves the
\* session before the account that has lost its key.  Without a crash,
\* replenishKeys does it when the account has no room for the batch, for it
\* never asks how many keys the account or the directory has.
OrphansKey ==
  \/ orphans' \subseteq orphans
  \/ crashes' # crashes /\ (exposed # {} \/ \E p \in Peers : task[p] = "uploaded")
  \/ /\ \E p \in Peers : task[p] = "account" /\ task'[p] = "upload"
     /\ Cardinality(account.priv) + Batch > Limit
OrphansOnlyInWindow == [][OrphansKey]_vars
=============================================================================

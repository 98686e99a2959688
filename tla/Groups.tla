------------------------------- MODULE Groups -------------------------------
(***************************************************************************)
(* One group: its member list on the server (routes/groups.ts, repo.ts),   *)
(* the outbound Megolm session of one sender and the inbound sessions of   *)
(* the other users' devices (messaging.ts, crypto/src/index.ts).           *)
(*                                                                         *)
(* The sender reads the member list, takes or rotates its session, hands   *)
(* the session key to every device that lacks it, encrypts, sends, and     *)
(* saves the session; several sends overlap at the awaits in between.  A   *)
(* user has one device.  A session is named after the send that created    *)
(* it, and so is the OutboundGroup object a send creates or unpickles.     *)
(* Keys and messages on their way to a device are sets: the mailbox does   *)
(* not lose them (module Mailbox) and the handlers of two frames overlap.  *)
(* Before the mailbox, a frame is lost that is written while the sender's  *)
(* page is not connected; its code notices nothing of that.                *)
(***************************************************************************)
EXTENDS Naturals, Sequences, FiniteSets

CONSTANTS
  Users,       \* everybody who may be a member
  Me,          \* the sender, one of them
  Msgs,        \* the messages the sender writes
  None,
  MaxChanges,  \* bound on changes of the member list
  MaxDrops,    \* bound on broken connections of the sender
  MaxReloads   \* bound on the devices whose page is reloaded (once each)

ASSUME MeAssumption == Me \in Users
ASSUME NoneAssumption == None \notin Msgs
ASSUME BoundAssumption == MaxChanges \in Nat /\ MaxDrops \in Nat /\ MaxReloads \in Nat

Others == Users \ {Me}
Keys == [sid : Msgs, from : Nat]                 \* a session key at an index
Rings == [sid : Msgs, idx : Nat, to : SUBSET Users, sig : SUBSET Users]

VARIABLES
  members, changes,    \* the server's member list
  online, drops,       \* what the sender writes reaches the server; how often that ended
  stage,     \* stage[m]: how far the send of m has come
  snap,      \* snap[m]: the member list it has read
  via,       \* via[m]: the OutboundGroup object it uses
  ring,      \* ring[x]: OutboundGroup object x
  cur,       \* the object in the groupOut map
  puts,      \* rows on their way into the groupOut table
  stored,    \* the row there, if any
  giving,    \* giving[m]: the room key whose send is awaited, if any
  enc,       \* enc[m]: session and index m was encrypted with
  keyWire, msgWire,    \* room keys and messages on their way to a device
  routing,   \* room keys decrypted, not yet imported
  known,     \* keys in the groupIn map
  unsaved,   \* sessions there whose row is not yet written
  saved,     \* keys in the groupIn table
  flushing,  \* sessions whose buffered messages are about to be decrypted
  pending,   \* messages buffered until their session is known
  read,      \* messages decrypted
  reloaded,  \* devices whose page has been reloaded
  keyLost,   \* history: sessions whose room key for a device was dropped
  msgLost,   \* history: messages whose frame for a device was dropped
  forked     \* history: a ratchet older than the last one used is in use

server == <<members, changes>>
net == <<online, drops>>
sending == <<stage, snap, via, ring, cur, giving, enc>>
disk == <<puts, stored>>
wire == <<keyWire, msgWire>>
device == <<routing, known, unsaved, saved, flushing, pending, read>>
lost == <<keyLost, msgLost>>
history == <<reloaded, lost, forked>>
vars == <<server, net, sending, disk, wire, device, history>>

New(m, sig) == [sid |-> m, idx |-> 0, to |-> {}, sig |-> sig]

\* Sessions on their way to disk or in use are rings; a session is unsaved
\* or about to be flushed only while it is known.
TypeOK ==
  /\ members \subseteq Users /\ changes \in 0..MaxChanges
  /\ online \in BOOLEAN /\ drops \in 0..MaxDrops
  /\ stage \in [Msgs -> {"unsent", "listed", "loading", "ready", "sent", "failed"}]
  /\ snap \in [Msgs -> SUBSET Users]
  /\ via \in [Msgs -> Msgs]
  /\ ring \in [Msgs -> Rings]
  /\ cur \in Msgs \union {None}
  /\ puts \in Seq(Rings) /\ stored \subseteq Rings
  /\ giving \in [Msgs -> SUBSET [to : Users, from : Nat]]
  /\ enc \in [Msgs -> [sid : Msgs, idx : Nat]]
  /\ keyWire \in [Others -> SUBSET Keys] /\ msgWire \in [Others -> SUBSET Msgs]
  /\ routing \in [Others -> SUBSET Keys]
  /\ known \in [Others -> SUBSET Keys] /\ saved \in [Others -> SUBSET Keys]
  /\ unsaved \in [Others -> SUBSET Msgs] /\ flushing \in [Others -> SUBSET Msgs]
  /\ pending \in [Others -> SUBSET Msgs] /\ read \in [Others -> SUBSET Msgs]
  /\ reloaded \subseteq Users /\ forked \in BOOLEAN
  /\ keyLost \in [Others -> SUBSET Msgs] /\ msgLost \in [Others -> SUBSET Msgs]
  /\ \A u \in Others : \A s \in unsaved[u] \union flushing[u] :
       \E k \in known[u] : k.sid = s

-----------------------------------------------------------------------------
(* The server's member list: any member may add or remove anybody.         *)

IsMember(u) == u \in members

AddMember(u) ==
  /\ \E by \in Users : IsMember(by)
  /\ ~IsMember(u)
  /\ members' = members \union {u}

RemoveMember(u) ==
  /\ IsMember(u)
  /\ members' = members \ {u}

ChangeMembers(u) ==
  /\ changes < MaxChanges
  /\ changes' = changes + 1
  /\ AddMember(u) \/ RemoveMember(u)
  /\ UNCHANGED <<net, sending, disk, wire, device, history>>

-----------------------------------------------------------------------------
(* Sending.                                                                *)

\* Faulty variant: the member list read for another message is used again.
FetchCached(m) ==
  /\ stage[m] = "unsent" /\ IsMember(Me)
  /\ \E n \in Msgs :
       snap' = [snap EXCEPT ![m] = IF stage[n] = "unsent" THEN members ELSE snap[n]]
  /\ stage' = [stage EXCEPT ![m] = "listed"]
  /\ UNCHANGED <<server, net, via, ring, cur, giving, enc, disk, wire, device, history>>

\* The server answers getGroup; it refuses a caller who is not a member.
Fetch(m) ==
  /\ stage[m] = "unsent" /\ IsMember(Me)
  /\ snap' = [snap EXCEPT ![m] = members]
  /\ stage' = [stage EXCEPT ![m] = "listed"]
  /\ UNCHANGED <<server, net, via, ring, cur, giving, enc, disk, wire, device, history>>

\* Faulty variant: a session in memory is used whatever its member list.
EnsureInMemoryStale(m) ==
  /\ stage[m] = "listed" /\ cur # None
  /\ stage' = [stage EXCEPT ![m] = "ready"]
  /\ via' = [via EXCEPT ![m] = cur]
  /\ UNCHANGED <<server, net, snap, ring, cur, giving, enc, disk, wire, device, history>>

\* ensureGroupSession with the session in memory: rotate it if the member
\* list differs from the one it was created for.
EnsureInMemory(m) ==
  /\ stage[m] = "listed" /\ cur # None
  /\ stage' = [stage EXCEPT ![m] = "ready"]
  /\ IF ring[cur].sig = snap[m]
     THEN /\ via' = [via EXCEPT ![m] = cur]
          /\ UNCHANGED <<ring, cur>>
     ELSE /\ via' = [via EXCEPT ![m] = m]
          /\ ring' = [ring EXCEPT ![m] = New(m, snap[m])]
          /\ cur' = m
  /\ UNCHANGED <<server, net, snap, giving, enc, disk, wire, device, history>>

\* ensureGroupSession without it: unpickle the stored row, ...
StartLoad(m) ==
  /\ stage[m] = "listed" /\ cur = None
  /\ stage' = [stage EXCEPT ![m] = "loading"]
  /\ \/ /\ stored = {}
        /\ UNCHANGED ring
     \/ \E r \in stored : ring' = [ring EXCEPT ![m] = r]
  /\ UNCHANGED <<server, net, snap, via, cur, giving, enc, disk, wire, device, history>>

\* ... put it into the map, whatever is there meanwhile, and rotate.  A row kept
\* although another send has put its object there is a second copy.
FinishLoad(m) ==
  /\ stage[m] = "loading"
  /\ stage' = [stage EXCEPT ![m] = "ready"]
  /\ via' = [via EXCEPT ![m] = m]
  /\ cur' = m
  /\ ring' = IF ring[m].sig = snap[m] THEN ring ELSE [ring EXCEPT ![m] = New(m, snap[m])]
  /\ forked' = (forked \/ (cur # None /\ ring[m].sig = snap[m]))
  /\ UNCHANGED <<server, net, snap, giving, enc, disk, wire, device, reloaded, lost>>

\* Devices of the send's member list that lack the key of its session.
Lacking(m) == (snap[m] \ {Me}) \ ring[via[m]].to

\* Faulty variant: the device counts as served before it is.
StartGiveMarks(m) ==
  /\ stage[m] = "ready" /\ giving[m] = {}
  /\ \E u \in Lacking(m) :
       /\ giving' = [giving EXCEPT ![m] = {[to |-> u, from |-> ring[via[m]].idx]}]
       /\ ring' = [ring EXCEPT ![via[m]].to = @ \union {u}]
  /\ UNCHANGED <<server, net, stage, snap, via, cur, enc, disk, wire, device, history>>

\* sendGroupContent exports the session key for one device, ...
StartGive(m) ==
  /\ stage[m] = "ready" /\ giving[m] = {}
  /\ \E u \in Lacking(m) :
       giving' = [giving EXCEPT ![m] = {[to |-> u, from |-> ring[via[m]].idx]}]
  /\ UNCHANGED <<server, net, stage, snap, via, ring, cur, enc, disk, wire, device, history>>

\* sendFrame: the frame goes to the server, or is dropped.
WriteKey(u, k) ==
  IF online
  THEN keyWire' = [keyWire EXCEPT ![u] = @ \union {k}] /\ UNCHANGED keyLost
  ELSE keyLost' = [keyLost EXCEPT ![u] = @ \union {k.sid}] /\ UNCHANGED keyWire

WriteMessage(m) ==
  LET Add(sets) == [u \in Others |-> IF u \in snap[m] THEN sets[u] \union {m} ELSE sets[u]] IN
  IF online
  THEN msgWire' = Add(msgWire) /\ UNCHANGED msgLost
  ELSE msgLost' = Add(msgLost) /\ UNCHANGED msgWire

\* ... and when sendOlmContent has written it, marks it as delivered.
FinishGive(m) ==
  /\ stage[m] = "ready"
  /\ \E g \in giving[m] :
       /\ WriteKey(g.to, [sid |-> ring[via[m]].sid, from |-> g.from])
       /\ ring' = [ring EXCEPT ![via[m]].to = @ \union {g.to}]
  /\ giving' = [giving EXCEPT ![m] = {}]
  /\ UNCHANGED <<server, net, stage, snap, via, cur, enc, disk, msgWire, device, reloaded, msgLost, forked>>

\* Faulty variant: a copy of the session is advanced and saved.
EncryptWithCopy(m) ==
  LET g == ring[via[m]] IN
  /\ stage[m] = "ready" /\ giving[m] = {} /\ Lacking(m) = {}
  /\ stage' = [stage EXCEPT ![m] = "sent"]
  /\ enc' = [enc EXCEPT ![m] = [sid |-> g.sid, idx |-> g.idx]]
  /\ puts' = Append(puts, [g EXCEPT !.idx = @ + 1])
  /\ WriteMessage(m)
  /\ UNCHANGED <<server, net, snap, via, ring, cur, giving, stored, keyWire, device, reloaded, keyLost, forked>>

\* All devices served: encrypt once, send to every device, start to save.
Encrypt(m) ==
  LET g == ring[via[m]]
      next == [g EXCEPT !.idx = @ + 1]
  IN
  /\ stage[m] = "ready" /\ giving[m] = {} /\ Lacking(m) = {}
  /\ stage' = [stage EXCEPT ![m] = "sent"]
  /\ enc' = [enc EXCEPT ![m] = [sid |-> g.sid, idx |-> g.idx]]
  /\ ring' = [ring EXCEPT ![via[m]] = next]
  /\ puts' = Append(puts, next)
  /\ WriteMessage(m)
  /\ UNCHANGED <<server, net, snap, via, cur, giving, stored, keyWire, device, reloaded, keyLost, forked>>

\* saveGroupOut completes.
PutGroupOut ==
  /\ puts # <<>>
  /\ stored' = {Head(puts)}
  /\ puts' = Tail(puts)
  /\ UNCHANGED <<server, net, sending, wire, device, history>>

\* A request for a device list or a prekey fails.  (If getGroup fails the
\* message is never sent, which no fairness excludes.)
SendFails(m) ==
  /\ stage[m] = "ready"
  /\ stage' = [stage EXCEPT ![m] = "failed"]
  /\ giving' = [giving EXCEPT ![m] = {}]
  /\ UNCHANGED <<server, net, snap, via, ring, cur, enc, disk, wire, device, history>>

\* The connection ends, whether the page has seen that or not.
SocketCloses ==
  /\ online /\ drops < MaxDrops
  /\ online' = FALSE /\ drops' = drops + 1
  /\ UNCHANGED <<server, sending, disk, wire, device, history>>

SocketOpens ==
  /\ ~online
  /\ online' = TRUE
  /\ UNCHANGED <<server, drops, sending, disk, wire, device, history>>

Reloads(d) ==
  /\ d \notin reloaded /\ Cardinality(reloaded) < MaxReloads
  /\ reloaded' = reloaded \union {d}

\* The sender's page is reloaded: only the stored row is left, and until the new
\* socket opens nothing is sent.
SenderReloads ==
  /\ Reloads(Me)
  /\ stage' = [m \in Msgs |-> IF stage[m] \in {"listed", "loading", "ready"} THEN "failed" ELSE stage[m]]
  /\ ring' = [m \in Msgs |-> New(m, {})]
  /\ cur' = None
  /\ giving' = [m \in Msgs |-> {}]
  /\ puts' = <<>>
  /\ online' = FALSE
  /\ forked' = (forked \/ puts # <<>>)
  /\ UNCHANGED <<server, drops, snap, via, enc, stored, wire, device, lost>>

-----------------------------------------------------------------------------
(* Receiving.                                                              *)

Knows(u, s) == \E k \in known[u] : k.sid = s

\* A key opens the messages from its index on.
Opens(u, m) == \E k \in known[u] : k.sid = enc[m].sid /\ k.from <= enc[m].idx

\* A room key is acked and decrypted; its handler saves the Olm session and
\* tops up the one-time keys before it goes on.
ReceiveKey(u, k) ==
  /\ k \in keyWire[u]
  /\ keyWire' = [keyWire EXCEPT ![u] = @ \ {k}]
  /\ routing' = [routing EXCEPT ![u] = @ \union {k}]
  /\ UNCHANGED <<server, net, sending, disk, msgWire, known, unsaved, saved, flushing, pending, read, history>>

\* Faulty variant: the row is written and the map left as it is.
RouteKeyToDisk(u, k) ==
  /\ k \in routing[u]
  /\ routing' = [routing EXCEPT ![u] = @ \ {k}]
  /\ unsaved' = [unsaved EXCEPT ![u] = @ \union {k.sid}]
  /\ UNCHANGED <<server, net, sending, disk, wire, known, saved, flushing, pending, read, history>>

\* Faulty variant: the buffer is not flushed.
RouteKeyForgets(u, k) ==
  /\ k \in routing[u]
  /\ routing' = [routing EXCEPT ![u] = @ \ {k}]
  /\ known' = IF Knows(u, k.sid) THEN known ELSE [known EXCEPT ![u] = @ \union {k}]
  /\ UNCHANGED <<server, net, sending, disk, wire, unsaved, saved, flushing, pending, read, history>>

\* routeOlmContent imports the key of a session it does not know yet.
RouteKey(u, k) ==
  /\ k \in routing[u]
  /\ routing' = [routing EXCEPT ![u] = @ \ {k}]
  /\ \/ /\ Knows(u, k.sid)
        /\ flushing' = [flushing EXCEPT ![u] = @ \union {k.sid}]
        /\ UNCHANGED <<known, unsaved>>
     \/ /\ ~Knows(u, k.sid)
        /\ known' = [known EXCEPT ![u] = @ \union {k}]
        /\ unsaved' = [unsaved EXCEPT ![u] = @ \union {k.sid}]
        /\ UNCHANGED flushing
  /\ UNCHANGED <<server, net, sending, disk, wire, saved, pending, read, history>>

\* putGroupIn completes.
SaveKey(u, s) ==
  /\ s \in unsaved[u]
  /\ unsaved' = [unsaved EXCEPT ![u] = @ \ {s}]
  /\ saved' = [saved EXCEPT ![u] = @ \union {k \in known[u] : k.sid = s}]
  /\ flushing' = [flushing EXCEPT ![u] = @ \union {s}]
  /\ UNCHANGED <<server, net, sending, disk, wire, routing, known, pending, read, history>>

\* flushPendingGroup: the buffered messages of the session are decrypted one
\* after the other; one that throws takes the rest with it.
FlushPending(u, s) ==
  LET queue == {m \in pending[u] : enc[m].sid = s}
      good == {m \in queue : Opens(u, m)}
  IN
  /\ s \in flushing[u]
  /\ flushing' = [flushing EXCEPT ![u] = @ \ {s}]
  /\ pending' = [pending EXCEPT ![u] = @ \ queue]
  /\ \E done \in SUBSET good :
       /\ good = queue => done = queue
       /\ read' = [read EXCEPT ![u] = @ \union done]
  /\ UNCHANGED <<server, net, sending, disk, wire, routing, known, unsaved, saved, history>>

\* handleGroupMessage: buffer a message of an unknown session; decrypt any
\* other, which throws if it is older than the key.
HandleGroupMessage(u, m) ==
  /\ m \in msgWire[u]
  /\ msgWire' = [msgWire EXCEPT ![u] = @ \ {m}]
  /\ pending' = IF Knows(u, enc[m].sid) THEN pending ELSE [pending EXCEPT ![u] = @ \union {m}]
  /\ read' = IF Opens(u, m) THEN [read EXCEPT ![u] = @ \union {m}] ELSE read
  /\ UNCHANGED <<server, net, sending, disk, keyWire, routing, known, unsaved, saved, flushing, history>>

\* A receiver's page is reloaded: what it acked and had not saved is gone.
ReceiverReloads(u) ==
  /\ Reloads(u)
  /\ routing' = [routing EXCEPT ![u] = {}]
  /\ known' = [known EXCEPT ![u] = saved[u]]
  /\ unsaved' = [unsaved EXCEPT ![u] = {}]
  /\ flushing' = [flushing EXCEPT ![u] = {}]
  /\ pending' = [pending EXCEPT ![u] = {}]
  /\ UNCHANGED <<server, net, sending, disk, wire, saved, read, lost, forked>>

-----------------------------------------------------------------------------
\* createGroup: the sender and whom it listed.
Init ==
  /\ members \in {S \in SUBSET Users : Me \in S} /\ changes = 0
  /\ online = FALSE /\ drops = 0
  /\ stage = [m \in Msgs |-> "unsent"]
  /\ snap = [m \in Msgs |-> {}]
  /\ via = [m \in Msgs |-> m]
  /\ ring = [m \in Msgs |-> New(m, {})]
  /\ cur = None /\ puts = <<>> /\ stored = {}
  /\ giving = [m \in Msgs |-> {}]
  /\ enc = [m \in Msgs |-> [sid |-> m, idx |-> 0]]
  /\ keyWire = [u \in Others |-> {}] /\ msgWire = [u \in Others |-> {}]
  /\ routing = [u \in Others |-> {}]
  /\ known = [u \in Others |-> {}] /\ saved = [u \in Others |-> {}]
  /\ unsaved = [u \in Others |-> {}] /\ flushing = [u \in Others |-> {}]
  /\ pending = [u \in Others |-> {}] /\ read = [u \in Others |-> {}]
  /\ reloaded = {} /\ forked = FALSE
  /\ keyLost = [u \in Others |-> {}] /\ msgLost = [u \in Others |-> {}]

\* The handlers and saves that run in the page of u.
DeviceWorks(u) ==
  \/ \E k \in keyWire[u] : ReceiveKey(u, k)
  \/ \E k \in routing[u] : RouteKey(u, k)
  \/ \E s \in Msgs : SaveKey(u, s) \/ FlushPending(u, s)
  \/ \E m \in Msgs : HandleGroupMessage(u, m)

Next ==
  \/ \E u \in Users : ChangeMembers(u)
  \/ \E m \in Msgs :
       \/ Fetch(m) \/ EnsureInMemory(m) \/ StartLoad(m) \/ FinishLoad(m)
       \/ StartGive(m) \/ FinishGive(m) \/ Encrypt(m) \/ SendFails(m)
  \/ PutGroupOut
  \/ SocketCloses \/ SocketOpens
  \/ SenderReloads
  \/ \E u \in Others : DeviceWorks(u) \/ ReceiverReloads(u)

Spec == Init /\ [][Next]_vars

\* A running page handles what reaches it and its saves complete.  Nothing
\* obliges anybody to write, to change the group, to disconnect or to reload.
Fairness == \A u \in Others : WF_vars(DeviceWorks(u))

FairSpec == Spec /\ Fairness

-----------------------------------------------------------------------------
(* Properties.                                                             *)

Sent == {m \in Msgs : stage[m] = "sent"}

\* Keys a device has or is going to have.
Reach(u) == keyWire[u] \union routing[u] \union known[u] \union saved[u]

\* Nobody outside the member list a message was sent to ever holds a key that
\* opens it, however rotations, overlapping sends and reloads interleave with
\* changes of the group (ensureGroupSession rotates, sendGroupContent serves
\* only the list it has read).
KeysStayInside ==
  \A u \in Others : \A k \in Reach(u) : \A m \in Sent :
    k.sid = enc[m].sid => u \in snap[m]

\* sendFrame has dropped the message, or the key of its session: the device
\* counts as served and will not be given the key again.
Dropped(u, m) == m \in msgLost[u] \/ enc[m].sid \in keyLost[u]

\* Only a dropped frame keeps a message from a device that stays up: any other
\* message sent to it it has read, or has it and its key in reach, whatever the
\* sender's connection and reloads did before and after.  deliveredTo never
\* claims more than was written, also when the sender goes on from an older row.
NoneUnreadable ==
  \A m \in Sent : \A u \in snap[m] \ (reloaded \union {Me}) :
    \/ m \in read[u] \/ Dropped(u, m)
    \/ /\ m \in msgWire[u] \union pending[u]
       /\ \E k \in Reach(u) : k.sid = enc[m].sid
       /\ \A k \in Reach(u) : k.sid = enc[m].sid => k.from <= enc[m].idx

\* A buffered message whose session is known is about to be decrypted: the
\* arrival of a message never slips between the import of its key and the
\* flush of the buffer.
NoneStranded ==
  \A u \in Others : \A m \in pending[u] :
    Knows(u, enc[m].sid) => enc[m].sid \in unsaved[u] \union flushing[u]

\* No two messages are encrypted with the same key of the ratchet, however sends
\* overlap and also after a reload of the sender, unless its page died before
\* saveGroupOut was done, or two sends unpickled the row at the same time.
IndexUsedOnce ==
  ~forked => \A m, n \in Sent : enc[m] = enc[n] => m = n

\* Keys and ratchets aside, a message is addressed once, to the member list
\* of that moment, and read only by those on it.
Audience == INSTANCE GroupAudience WITH
  Users <- Users,
  Msgs <- Msgs,
  audience <- snap,
  read <- [u \in Users |-> IF u = Me THEN {} ELSE read[u]]
ImplementsAudience == Audience!Spec

\* Time and again every message sent has been read by every device it was
\* sent to that has stayed up, unless a frame of it was dropped.
EventuallyRead ==
  []<>(\A m \in Sent : \A u \in snap[m] \ (reloaded \union {Me}) :
         m \in read[u] \/ Dropped(u, m))
=============================================================================

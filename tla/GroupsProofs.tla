---------------------------- MODULE GroupsProofs ----------------------------
(***************************************************************************)
(* Proofs about Groups for any users, any messages and any number of       *)
(* member changes, broken connections and reloads.                         *)
(***************************************************************************)
EXTENDS Groups, SequenceTheorems, TLAPS

(***************************************************************************)
(* The type invariant.                                                     *)
(***************************************************************************)

\* The last conjunct of TypeOK and the others.
HasKnown ==
  \A u \in Others : \A s \in unsaved[u] \union flushing[u] :
    \E k \in known[u] : k.sid = s

SenderTypes ==
  /\ members \subseteq Users /\ changes \in 0..MaxChanges
  /\ online \in BOOLEAN /\ drops \in 0..MaxDrops
  /\ stage \in [Msgs -> {"unsent", "listed", "loading", "ready", "sent", "failed"}]
  /\ snap \in [Msgs -> SUBSET Users]
  /\ via \in [Msgs -> Msgs]
  /\ ring \in [Msgs -> Rings]
  /\ cur \in Msgs \union {None}
  /\ puts \in Seq(Rings) /\ stored \subseteq Rings
  /\ giving \in [Msgs -> SUBSET [to : Users, from : Nat]]
  /\ enc \in [Msgs -> [sid : Msgs, idx : Nat]]
  /\ forked \in BOOLEAN

DeviceTypes ==
  /\ keyWire \in [Others -> SUBSET Keys] /\ msgWire \in [Others -> SUBSET Msgs]
  /\ routing \in [Others -> SUBSET Keys]
  /\ known \in [Others -> SUBSET Keys] /\ saved \in [Others -> SUBSET Keys]
  /\ unsaved \in [Others -> SUBSET Msgs] /\ flushing \in [Others -> SUBSET Msgs]
  /\ pending \in [Others -> SUBSET Msgs] /\ read \in [Others -> SUBSET Msgs]
  /\ reloaded \subseteq Users
  /\ keyLost \in [Others -> SUBSET Msgs] /\ msgLost \in [Others -> SUBSET Msgs]
  /\ HasKnown

\* The parts make up the type invariant.
LEMMA TypeParts == /\ TypeOK <=> SenderTypes /\ DeviceTypes
                   /\ TypeOK' <=> SenderTypes' /\ DeviceTypes'
  BY DEF TypeOK, SenderTypes, DeviceTypes, HasKnown

\* A fresh session is a ring.
LEMMA NewIsRing == \A m \in Msgs, S \in SUBSET Users : New(m, S) \in Rings
  BY DEF New, Rings

\* Using and serving a session leaves it a ring.
LEMMA RingUpdates ==
  ASSUME NEW r \in Rings
  PROVE  /\ [r EXCEPT !.idx = @ + 1] \in Rings
         /\ \A S \in SUBSET Users : [r EXCEPT !.to = @ \union S] \in Rings
  BY DEF Rings

\* A key handed to somebody is a key.
LEMMA KeysAreKeys == \A s \in Msgs, i \in Nat : [sid |-> s, from |-> i] \in Keys
  BY DEF Keys

\* Every step of the sender, the server and the network keeps the types.
LEMMA SenderTypeStep ==
  ASSUME TypeOK,
         \/ \E u \in Users : ChangeMembers(u)
         \/ \E m \in Msgs : \/ Fetch(m) \/ EnsureInMemory(m) \/ StartLoad(m)
                            \/ FinishLoad(m) \/ StartGive(m) \/ FinishGive(m)
                            \/ Encrypt(m) \/ SendFails(m)
         \/ PutGroupOut \/ SocketCloses \/ SocketOpens \/ SenderReloads
  PROVE  TypeOK'
  <1> USE TypeParts DEF SenderTypes
  <1>0. UNCHANGED <<routing, known, unsaved, saved, flushing, pending, read>>
    BY DEF ChangeMembers, Fetch, EnsureInMemory, StartLoad, FinishLoad, StartGive, FinishGive,
           Encrypt, SendFails, PutGroupOut, SocketCloses, SocketOpens, SenderReloads,
           device, wire
  <1>h. HasKnown'
    BY <1>0 DEF HasKnown, DeviceTypes
  <1>d. ASSUME UNCHANGED <<wire, reloaded, lost>>
        PROVE  DeviceTypes'
    BY <1>0, <1>h, <1>d DEF DeviceTypes, wire, lost
  <1> USE DEF history
  <1>1. ASSUME NEW u \in Users, ChangeMembers(u)
        PROVE  TypeOK'
    <2>1. members' \subseteq Users /\ changes' \in 0..MaxChanges
      BY <1>1, BoundAssumption DEF ChangeMembers, AddMember, RemoveMember
    <2> QED
      BY <1>1, <1>d, <2>1 DEF ChangeMembers, net, sending, disk
  <1>2. ASSUME NEW m \in Msgs, Fetch(m)
        PROVE  TypeOK'
    BY <1>2, <1>d DEF Fetch, server, net, disk
  <1>3. ASSUME NEW m \in Msgs, EnsureInMemory(m)
        PROVE  TypeOK'
    <2>1. /\ stage' \in [Msgs -> {"unsent", "listed", "loading", "ready", "sent", "failed"}]
          /\ cur \in Msgs
      BY <1>3 DEF EnsureInMemory
    <2>2. CASE ring[cur].sig = snap[m]
      <3>1. via' = [via EXCEPT ![m] = cur] /\ UNCHANGED <<ring, cur>>
        BY <1>3, <2>2 DEF EnsureInMemory
      <3>2. UNCHANGED <<server, net, snap, giving, enc, disk, wire, device, history>>
        BY <1>3 DEF EnsureInMemory
      <3> QED
        BY <1>d, <2>1, <3>1, <3>2 DEF server, net, disk
    <2>3. CASE ring[cur].sig # snap[m]
      <3>1. New(m, snap[m]) \in Rings
        BY NewIsRing
      <3>2. via' = [via EXCEPT ![m] = m] /\ cur' = m /\ ring' = [ring EXCEPT ![m] = New(m, snap[m])]
        BY <1>3, <2>3 DEF EnsureInMemory
      <3>3. UNCHANGED <<server, net, snap, giving, enc, disk, wire, device, history>>
        BY <1>3 DEF EnsureInMemory
      <3> QED
        BY <1>d, <2>1, <3>1, <3>2, <3>3 DEF server, net, disk
    <2> QED
      BY <2>2, <2>3
  <1>4. ASSUME NEW m \in Msgs, StartLoad(m)
        PROVE  TypeOK'
    BY <1>4, <1>d DEF StartLoad, server, net, disk
  <1>5. ASSUME NEW m \in Msgs, FinishLoad(m)
        PROVE  TypeOK'
    BY <1>5, <1>d, NewIsRing DEF FinishLoad, server, net, disk
  <1>6. ASSUME NEW m \in Msgs, StartGive(m)
        PROVE  TypeOK'
    <2>1. PICK u \in Lacking(m) :
            giving' = [giving EXCEPT ![m] = {[to |-> u, from |-> ring[via[m]].idx]}]
      BY <1>6 DEF StartGive
    <2>2. u \in Users /\ ring[via[m]].idx \in Nat
      BY DEF Lacking, Rings
    <2>3. giving' \in [Msgs -> SUBSET [to : Users, from : Nat]]
      BY <2>1, <2>2
    <2> QED
      BY <1>6, <1>d, <2>3 DEF StartGive, server, net, disk
  <1>7. ASSUME NEW m \in Msgs, FinishGive(m)
        PROVE  TypeOK'
    <2>1. PICK g \in giving[m] :
            /\ WriteKey(g.to, [sid |-> ring[via[m]].sid, from |-> g.from])
            /\ ring' = [ring EXCEPT ![via[m]].to = @ \union {g.to}]
      BY <1>7 DEF FinishGive
    <2>2. g.to \in Users /\ g.from \in Nat /\ ring[via[m]].sid \in Msgs
      BY DEF Rings
    <2>3. keyWire' \in [Others -> SUBSET Keys] /\ keyLost' \in [Others -> SUBSET Msgs]
      <3> DEFINE k == [sid |-> ring[via[m]].sid, from |-> g.from]
      <3>1. k \in Keys /\ k.sid \in Msgs
        BY <2>2, KeysAreKeys
      <3>2. WriteKey(g.to, k)
        BY <2>1
      <3>3. keyWire \in [Others -> SUBSET Keys] /\ keyLost \in [Others -> SUBSET Msgs]
        BY DEF DeviceTypes
      <3>4. \/ keyWire' = [keyWire EXCEPT ![g.to] = @ \union {k}] /\ keyLost' = keyLost
            \/ keyLost' = [keyLost EXCEPT ![g.to] = @ \union {k.sid}] /\ keyWire' = keyWire
        BY <3>2 DEF WriteKey
      <3> HIDE DEF k
      <3>5. CASE keyWire' = [keyWire EXCEPT ![g.to] = @ \union {k}] /\ keyLost' = keyLost
        BY <3>1, <3>3, <3>5
      <3>6. CASE keyLost' = [keyLost EXCEPT ![g.to] = @ \union {k.sid}] /\ keyWire' = keyWire
        BY <3>1, <3>3, <3>6
      <3> QED
        BY <3>4, <3>5, <3>6
    <2>4. ring' \in [Msgs -> Rings]
      BY <2>1, <2>2, RingUpdates
    <2> QED
      BY <1>7, <1>0, <1>h, <2>3, <2>4 DEF FinishGive, DeviceTypes, server, net, disk
  <1>8. ASSUME NEW m \in Msgs, Encrypt(m)
        PROVE  TypeOK'
    <2> DEFINE g == ring[via[m]]
               next == [g EXCEPT !.idx = @ + 1]
    <2>1. g \in Rings /\ next \in Rings
      BY RingUpdates
    <2>2. enc' \in [Msgs -> [sid : Msgs, idx : Nat]]
      BY <1>8, <2>1 DEF Encrypt, Rings
    <2>3. ring' \in [Msgs -> Rings] /\ puts' \in Seq(Rings)
      BY <1>8, <2>1 DEF Encrypt
    <2>4. msgWire' \in [Others -> SUBSET Msgs] /\ msgLost' \in [Others -> SUBSET Msgs]
      <3> DEFINE Add(sets) == [u \in Others |-> IF u \in snap[m] THEN sets[u] \union {m} ELSE sets[u]]
      <3>1. msgWire \in [Others -> SUBSET Msgs] /\ msgLost \in [Others -> SUBSET Msgs]
        BY DEF DeviceTypes
      <3>2. WriteMessage(m)
        BY <1>8 DEF Encrypt
      <3>3. \/ msgWire' = Add(msgWire) /\ msgLost' = msgLost
            \/ msgLost' = Add(msgLost) /\ msgWire' = msgWire
        BY <3>2 DEF WriteMessage
      <3>4. \A sets \in [Others -> SUBSET Msgs] : Add(sets) \in [Others -> SUBSET Msgs]
        OBVIOUS
      <3> HIDE DEF Add
      <3> QED
        BY <3>1, <3>3, <3>4
    <2> QED
      BY <1>8, <1>0, <1>h, <2>2, <2>3, <2>4 DEF Encrypt, DeviceTypes, server, net
  <1>9. ASSUME NEW m \in Msgs, SendFails(m)
        PROVE  TypeOK'
    BY <1>9, <1>d DEF SendFails, server, net, disk
  <1>10. ASSUME PutGroupOut
         PROVE  TypeOK'
    <2>1. Head(puts) \in Rings /\ Tail(puts) \in Seq(Rings)
      BY <1>10 DEF PutGroupOut
    <2> QED
      BY <1>10, <1>d, <2>1 DEF PutGroupOut, server, net, sending
  <1>11. ASSUME SocketCloses \/ SocketOpens
         PROVE  TypeOK'
    <2>1. online' \in BOOLEAN /\ drops' \in 0..MaxDrops
      <3>1. CASE SocketCloses
        <4>1. online' = FALSE /\ drops < MaxDrops /\ drops' = drops + 1
          BY <3>1 DEF SocketCloses
        <4>2. drops' \in 0..MaxDrops
          BY <4>1, BoundAssumption
        <4> QED
          BY <4>1, <4>2
      <3>2. CASE SocketOpens
        BY <3>2 DEF SocketOpens
      <3> QED
        BY <1>11, <3>1, <3>2
    <2> QED
      BY <1>11, <1>d, <2>1 DEF SocketCloses, SocketOpens, server, sending, disk
  <1>12. ASSUME SenderReloads
         PROVE  TypeOK'
    <2>1. ring' \in [Msgs -> Rings]
      BY <1>12, NewIsRing DEF SenderReloads
    <2>2. reloaded' \subseteq Users
      BY <1>12, MeAssumption DEF SenderReloads, Reloads, DeviceTypes
    <2>3. puts' \in Seq(Rings)
      BY <1>12 DEF SenderReloads
    <2> QED
      BY <1>12, <1>0, <1>h, <2>1, <2>2, <2>3 DEF SenderReloads, DeviceTypes, server, wire, lost
  <1> QED
    BY <1>1, <1>2, <1>3, <1>4, <1>5, <1>6, <1>7, <1>8, <1>9, <1>10, <1>11, <1>12

\* Every step of a receiver keeps the types.
LEMMA DeviceTypeStep ==
  ASSUME TypeOK, NEW u \in Others, DeviceWorks(u) \/ ReceiverReloads(u)
  PROVE  TypeOK'
  <1> USE TypeParts DEF DeviceTypes
  <1>s. SenderTypes' /\ UNCHANGED lost
    BY DEF SenderTypes, DeviceWorks, ReceiveKey, RouteKey, SaveKey, FlushPending,
           HandleGroupMessage, ReceiverReloads, server, net, sending, disk, history
  <1> USE DEF history, lost
  <1>1. ASSUME NEW k \in keyWire[u], ReceiveKey(u, k)
        PROVE  TypeOK'
    BY <1>1, <1>s DEF ReceiveKey, HasKnown
  <1>2. ASSUME NEW k \in routing[u], RouteKey(u, k)
        PROVE  TypeOK'
    <2>1. k \in Keys /\ k.sid \in Msgs
      BY DEF Keys
    <2>2. CASE Knows(u, k.sid)
      BY <1>2, <1>s, <2>1, <2>2 DEF RouteKey, Knows, HasKnown, wire
    <2>3. CASE ~Knows(u, k.sid)
      BY <1>2, <1>s, <2>1, <2>3 DEF RouteKey, HasKnown, wire
    <2> QED
      BY <2>2, <2>3
  <1>3. ASSUME NEW s \in Msgs, SaveKey(u, s)
        PROVE  TypeOK'
    BY <1>3, <1>s DEF SaveKey, HasKnown, wire
  <1>4. ASSUME NEW s \in Msgs, FlushPending(u, s)
        PROVE  TypeOK'
    <2>1. /\ pending' \in [Others -> SUBSET Msgs]
          /\ read' \in [Others -> SUBSET Msgs]
          /\ flushing' = [flushing EXCEPT ![u] = @ \ {s}]
          /\ UNCHANGED <<wire, routing, known, unsaved, saved, reloaded>>
      BY <1>4 DEF FlushPending
    <2> QED
      BY <1>s, <2>1 DEF HasKnown, wire
  <1>5. ASSUME NEW m \in Msgs, HandleGroupMessage(u, m)
        PROVE  TypeOK'
    BY <1>5, <1>s DEF HandleGroupMessage, HasKnown
  <1>6. ASSUME ReceiverReloads(u)
        PROVE  TypeOK'
    <2>1. reloaded' \subseteq Users
      BY <1>6 DEF ReceiverReloads, Reloads, Others
    <2> QED
      BY <1>6, <1>s, <2>1 DEF ReceiverReloads, HasKnown, wire
  <1> QED
    BY <1>1, <1>2, <1>3, <1>4, <1>5, <1>6 DEF DeviceWorks

\* Every group the server creates has the types.
LEMMA InitTypes == Init => TypeOK
  <1> SUFFICES ASSUME Init PROVE TypeOK
    OBVIOUS
  <1>1. SenderTypes
    <2>1. ring \in [Msgs -> Rings]
      BY NewIsRing DEF Init
    <2>2. /\ members \subseteq Users /\ changes \in 0..MaxChanges
          /\ online \in BOOLEAN /\ drops \in 0..MaxDrops
      <3>1. members \in SUBSET Users /\ changes = 0 /\ online = FALSE /\ drops = 0
        BY DEF Init
      <3>2. 0 \in 0..MaxChanges /\ 0 \in 0..MaxDrops
        BY BoundAssumption
      <3> QED
        BY <3>1, <3>2
    <2>3. /\ stage \in [Msgs -> {"unsent", "listed", "loading", "ready", "sent", "failed"}]
          /\ snap \in [Msgs -> SUBSET Users] /\ via \in [Msgs -> Msgs]
          /\ cur \in Msgs \union {None} /\ forked \in BOOLEAN
      <3>1. /\ snap = [m \in Msgs |-> {}]
            /\ via = [m \in Msgs |-> m] /\ cur = None /\ forked = FALSE
            /\ stage = [m \in Msgs |-> "unsent"]
        BY DEF Init
      <3> QED
        BY <3>1
    <2>4. /\ puts \in Seq(Rings) /\ stored \subseteq Rings
          /\ giving \in [Msgs -> SUBSET [to : Users, from : Nat]]
          /\ enc \in [Msgs -> [sid : Msgs, idx : Nat]]
      BY DEF Init
    <2> QED
      BY <2>1, <2>2, <2>3, <2>4 DEF SenderTypes
  <1>2. /\ keyWire \in [Others -> SUBSET Keys] /\ msgWire \in [Others -> SUBSET Msgs]
        /\ routing \in [Others -> SUBSET Keys]
        /\ known \in [Others -> SUBSET Keys] /\ saved \in [Others -> SUBSET Keys]
        /\ unsaved \in [Others -> SUBSET Msgs] /\ flushing \in [Others -> SUBSET Msgs]
    BY DEF Init
  <1>3. /\ pending \in [Others -> SUBSET Msgs] /\ read \in [Others -> SUBSET Msgs]
        /\ reloaded \subseteq Users
        /\ keyLost \in [Others -> SUBSET Msgs] /\ msgLost \in [Others -> SUBSET Msgs]
    BY DEF Init
  <1>4. HasKnown
    BY DEF Init, HasKnown
  <1> QED
    BY <1>1, <1>2, <1>3, <1>4, TypeParts DEF DeviceTypes

\* So does every step.
LEMMA TypeStep == TypeOK /\ [Next]_vars => TypeOK'
  <1>1. ASSUME TypeOK, Next PROVE TypeOK'
    BY <1>1, SenderTypeStep, DeviceTypeStep DEF Next
  <1>2. ASSUME TypeOK, UNCHANGED vars PROVE TypeOK'
    BY <1>2 DEF TypeOK, vars, server, net, sending, disk, wire, device, history, lost
  <1> QED
    BY <1>1, <1>2

\* The type invariant: in particular, a device waits to save or to flush only
\* sessions whose key it has imported.
THEOREM TypeCorrect == Spec => []TypeOK
  BY InitTypes, TypeStep, PTL DEF Spec

(***************************************************************************)
(* Who holds the key of a session.  A session keeps the member list it was *)
(* created for, which is the one its first message is sent to.             *)
(***************************************************************************)

Past == {"ready", "sent", "failed"}

\* A session in use was created by a send that has come so far, for the list
\* that send has read.
Proper(r) == stage[r.sid] \in Past /\ r.sig = snap[r.sid]

ListsRead ==
  /\ \A m \in Msgs : stage[m] = "unsent" => snap[m] = {}
  /\ \A m \in Msgs : stage[m] \in {"listed", "loading"} => snap[m] # {}

\* No send works on the session object of a send that is not so far yet.
Sessions ==
  /\ cur # None => stage[cur] \in Past /\ Proper(ring[cur])
  /\ \A m \in Msgs : stage[m] = "ready" =>
       /\ stage[via[m]] \in Past
       /\ Proper(ring[via[m]])
       /\ ring[via[m]].sig = snap[m]
  /\ \A m \in Msgs : stage[m] \in {"unsent", "listed"} => ring[m] = New(m, {})
  /\ \A m \in Msgs : stage[m] = "loading" => Proper(ring[m]) \/ ring[m] = New(m, {})
  /\ \A r \in stored : Proper(r)
  /\ \A i \in 1..Len(puts) : Proper(puts[i])

Encrypted ==
  \A m \in Msgs : stage[m] = "sent" =>
    stage[enc[m].sid] \in Past /\ snap[enc[m].sid] = snap[m]

Gifts ==
  \A m \in Msgs : \A g \in giving[m] : stage[m] = "ready" /\ g.to \in snap[m]

Held ==
  \A u \in Others : \A k \in Reach(u) : stage[k.sid] \in Past /\ u \in snap[k.sid]

\* Messages on their way were sent, and to that device.
Queued ==
  \A u \in Others : \A m \in msgWire[u] \union pending[u] \union read[u] :
    stage[m] = "sent" /\ u \in snap[m]

IInv ==
  /\ TypeOK
  /\ ListsRead /\ Sessions /\ Encrypted /\ Gifts /\ Held /\ Queued
  /\ NoneStranded

\* What every step does to sends that are so far.
Stable ==
  \A m \in Msgs : stage[m] \in Past => stage'[m] \in Past /\ snap'[m] = snap[m]

\* A session stays proper.
LEMMA ProperStays ==
  ASSUME TypeOK, Stable, NEW r \in Rings, Proper(r)
  PROVE  Proper(r)'
  BY DEF Proper, Stable, Rings

\* A step that leaves the sender alone and adds no key keeps the invariants
\* about it.
LEMMA SenderIdle ==
  ASSUME IInv, UNCHANGED <<stage, snap, via, ring, cur, giving, enc, puts, stored>>,
         \A u \in Others : Reach(u)' \subseteq Reach(u)
  PROVE  (ListsRead /\ Sessions /\ Encrypted /\ Gifts /\ Held)'
  <1>1. ListsRead' /\ Encrypted' /\ Gifts' /\ Held'
    BY DEF IInv, ListsRead, Encrypted, Gifts, Held
  <1>2. Sessions'
    BY DEF IInv, Sessions, Proper
  <1> QED
    BY <1>1, <1>2

\* Receivers only take what is there: every action of a device, a reload too,
\* keeps the invariant.
LEMMA DeviceStep ==
  ASSUME IInv, NEW u \in Others, DeviceWorks(u) \/ ReceiverReloads(u)
  PROVE  IInv'
  <1>1. TypeOK'
    BY DeviceTypeStep DEF IInv
  <1>2. UNCHANGED <<stage, snap, via, ring, cur, giving, enc, puts, stored>>
    BY DEF DeviceWorks, ReceiveKey, RouteKey, SaveKey, FlushPending, HandleGroupMessage,
           ReceiverReloads, sending, disk
  <1>t. /\ keyWire \in [Others -> SUBSET Keys] /\ msgWire \in [Others -> SUBSET Msgs]
        /\ routing \in [Others -> SUBSET Keys]
        /\ known \in [Others -> SUBSET Keys] /\ saved \in [Others -> SUBSET Keys]
        /\ unsaved \in [Others -> SUBSET Msgs] /\ flushing \in [Others -> SUBSET Msgs]
        /\ pending \in [Others -> SUBSET Msgs] /\ read \in [Others -> SUBSET Msgs]
    BY DEF IInv, TypeOK
  <1>3. /\ \A v \in Others : Reach(v)' \subseteq Reach(v)
        /\ \A v \in Others : (msgWire[v] \union pending[v] \union read[v])'
                              \subseteq msgWire[v] \union pending[v] \union read[v]
        /\ NoneStranded'
    <2>1. ASSUME NEW k \in keyWire[u], ReceiveKey(u, k)
          PROVE  <1>3!1 /\ <1>3!2 /\ <1>3!3
      BY <1>2, <1>t, <2>1 DEF ReceiveKey, Reach, IInv, NoneStranded, Knows
    <2>2. ASSUME NEW k \in routing[u], RouteKey(u, k)
          PROVE  <1>3!1 /\ <1>3!2 /\ <1>3!3
      <3>1. <1>3!1 /\ <1>3!2
        BY <1>2, <1>t, <2>2 DEF RouteKey, Reach, wire
      <3>2. <1>3!3
        BY <1>2, <1>t, <2>2 DEF RouteKey, IInv, NoneStranded, Knows, Keys
      <3> QED
        BY <3>1, <3>2
    <2>3. ASSUME NEW s \in Msgs, SaveKey(u, s)
          PROVE  <1>3!1 /\ <1>3!2 /\ <1>3!3
      <3>1. <1>3!1 /\ <1>3!2
        BY <1>2, <1>t, <2>3 DEF SaveKey, Reach, wire
      <3>2. <1>3!3
        BY <1>2, <1>t, <2>3 DEF SaveKey, IInv, NoneStranded, Knows
      <3> QED
        BY <3>1, <3>2
    <2>4. ASSUME NEW s \in Msgs, FlushPending(u, s)
          PROVE  <1>3!1 /\ <1>3!2 /\ <1>3!3
      <3>1. <1>3!1 /\ <1>3!2
        BY <1>2, <1>t, <2>4 DEF FlushPending, Reach, wire
      <3>2. <1>3!3
        BY <1>2, <1>t, <2>4 DEF FlushPending, IInv, NoneStranded, Knows
      <3> QED
        BY <3>1, <3>2
    <2>5. ASSUME NEW m \in Msgs, HandleGroupMessage(u, m)
          PROVE  <1>3!1 /\ <1>3!2 /\ <1>3!3
      <3>1. <1>3!1 /\ <1>3!2
        BY <1>2, <1>t, <2>5 DEF HandleGroupMessage, Reach
      <3>2. <1>3!3
        BY <1>2, <1>t, <2>5 DEF HandleGroupMessage, IInv, NoneStranded, Knows
      <3> QED
        BY <3>1, <3>2
    <2>6. ASSUME ReceiverReloads(u)
          PROVE  <1>3!1 /\ <1>3!2 /\ <1>3!3
      <3>1. <1>3!1 /\ <1>3!2
        BY <1>2, <1>t, <2>6 DEF ReceiverReloads, Reach, wire
      <3>2. <1>3!3
        BY <1>2, <1>t, <2>6 DEF ReceiverReloads, IInv, NoneStranded, Knows
      <3> QED
        BY <3>1, <3>2
    <2> QED
      BY <2>1, <2>2, <2>3, <2>4, <2>5, <2>6 DEF DeviceWorks
  <1>4. Queued'
    BY <1>2, <1>3 DEF IInv, Queued
  <1>5. (ListsRead /\ Sessions /\ Encrypted /\ Gifts /\ Held)'
    BY <1>2, <1>3, SenderIdle
  <1> QED
    BY <1>1, <1>3, <1>4, <1>5 DEF IInv

\* A step of the sender that encrypts nothing and hands out no key keeps what
\* receivers hold and have been sent.
LEMMA ReceiversIdle ==
  ASSUME IInv, Stable, UNCHANGED <<enc, wire, device>>,
         \A m \in Msgs : stage[m] = "sent" <=> stage'[m] = "sent"
  PROVE  (Encrypted /\ Held /\ Queued /\ NoneStranded)'
  <1>2. \A u \in Others : \A k \in Reach(u) : k.sid \in Msgs
    BY DEF IInv, TypeOK, Reach, Keys
  <1>3. Held'
    <2>1. \A u \in Others : Reach(u)' = Reach(u)
      BY DEF Reach, wire, device
    <2> QED
      BY <1>2, <2>1 DEF IInv, Held, Stable
  <1>4. Encrypted'
    BY DEF IInv, TypeOK, Encrypted, Stable, Past
  <1>5. Queued'
    BY DEF IInv, TypeOK, Queued, Stable, Past, wire, device
  <1>6. NoneStranded'
    BY DEF IInv, NoneStranded, Knows, wire, device
  <1> QED
    BY <1>3, <1>4, <1>5, <1>6

\* A step that changes no session keeps what is on disk and in memory.
LEMMA SessionsStay ==
  ASSUME IInv, Stable, UNCHANGED <<via, ring, cur, puts, stored>>,
         \A m \in Msgs : /\ stage'[m] = "ready" => stage[m] = "ready"
                         /\ stage'[m] \in {"unsent", "listed"} => stage[m] \in {"unsent", "listed"}
                         /\ stage'[m] = "loading" => stage[m] = "loading"
  PROVE  Sessions'
  <1>1. /\ \A r \in Rings : Proper(r) => Proper(r)'
        /\ \A m \in Msgs : stage[m] \in Past => stage'[m] \in Past
    BY ProperStays DEF IInv, Stable
  <1>2. /\ \A m \in Msgs : ring[m] \in Rings /\ via[m] \in Msgs
        /\ cur # None => cur \in Msgs
        /\ \A r \in stored : r \in Rings
        /\ \A i \in 1..Len(puts) : puts[i] \in Rings
    BY DEF IInv, TypeOK
  <1>3. \A m \in Msgs : stage'[m] = "ready" => stage[m] = "ready" /\ snap'[m] = snap[m]
    <2>1. ASSUME NEW m \in Msgs, stage'[m] = "ready"
          PROVE  stage[m] = "ready" /\ snap'[m] = snap[m]
      <3>1. stage[m] = "ready"
        BY <2>1
      <3> QED
        BY <3>1 DEF Stable, Past
    <2> QED
      BY <2>1
  <1>4. (cur # None => stage[cur] \in Past /\ Proper(ring[cur]))'
    BY <1>1, <1>2 DEF IInv, Sessions
  <1>5. (\A m \in Msgs : stage[m] = "ready" =>
           /\ stage[via[m]] \in Past
           /\ Proper(ring[via[m]])
           /\ ring[via[m]].sig = snap[m])'
    BY <1>1, <1>2, <1>3 DEF IInv, Sessions
  <1>6. (\A m \in Msgs : stage[m] \in {"unsent", "listed"} => ring[m] = New(m, {}))'
    BY DEF IInv, Sessions, New
  <1>7. (\A m \in Msgs : stage[m] = "loading" => Proper(ring[m]) \/ ring[m] = New(m, {}))'
    BY <1>1, <1>2 DEF IInv, Sessions, New
  <1>8. (\A r \in stored : Proper(r))' /\ (\A i \in 1..Len(puts) : Proper(puts[i]))'
    BY <1>1, <1>2 DEF IInv, Sessions
  <1> QED
    BY <1>4, <1>5, <1>6, <1>7, <1>8 DEF Sessions

\* A change of the member list, a broken or a new connection.
LEMMA ServerStep ==
  ASSUME IInv, (\E u \in Users : ChangeMembers(u)) \/ SocketCloses \/ SocketOpens
  PROVE  IInv'
  <1>1. TypeOK'
    BY SenderTypeStep DEF IInv
  <1>2. UNCHANGED <<sending, disk, wire, device>>
    BY DEF ChangeMembers, SocketCloses, SocketOpens
  <1>3. UNCHANGED <<stage, snap, via, ring, cur, giving, enc, puts, stored>>
    BY <1>2 DEF sending, disk
  <1>4. Stable
    BY <1>3 DEF Stable
  <1>5. (ListsRead /\ Gifts)'
    BY <1>3 DEF IInv, ListsRead, Gifts
  <1>6. Sessions'
    BY <1>3, <1>4, SessionsStay
  <1> QED
    BY <1>1, <1>2, <1>3, <1>4, <1>5, <1>6, ReceiversIdle DEF IInv

\* The member list is read; the sender is on it.
LEMMA FetchStep ==
  ASSUME IInv, NEW m \in Msgs, Fetch(m)
  PROVE  IInv'
  <1>1. TypeOK'
    BY SenderTypeStep DEF IInv
  <1>2. /\ stage[m] = "unsent" /\ Me \in members
        /\ snap' = [snap EXCEPT ![m] = members]
        /\ stage' = [stage EXCEPT ![m] = "listed"]
        /\ UNCHANGED <<via, ring, cur, giving, enc, disk, wire, device>>
    BY DEF Fetch, IsMember
  <1>t. stage \in [Msgs -> {"unsent", "listed", "loading", "ready", "sent", "failed"}]
        /\ snap \in [Msgs -> SUBSET Users]
    BY DEF IInv, TypeOK
  <1>3. Stable
    BY <1>2, <1>t DEF Stable, Past
  <1>4. (ListsRead /\ Gifts)'
    BY <1>2, <1>t DEF IInv, ListsRead, Gifts
  <1>5. Sessions'
    <2>1. \A n \in Msgs : /\ stage'[n] = "ready" => stage[n] = "ready"
                          /\ stage'[n] \in {"unsent", "listed"} => stage[n] \in {"unsent", "listed"}
                          /\ stage'[n] = "loading" => stage[n] = "loading"
      BY <1>2, <1>t
    <2> QED
      BY <1>2, <1>3, <2>1, SessionsStay DEF disk
  <1>6. (Encrypted /\ Held /\ Queued /\ NoneStranded)'
    BY <1>2, <1>t, <1>3, ReceiversIdle
  <1> QED
    BY <1>1, <1>4, <1>5, <1>6 DEF IInv

\* A send takes, creates or loads a session, and no other send works on the
\* object it may overwrite.
LEMMA EnsureStep ==
  ASSUME IInv, NEW m \in Msgs, EnsureInMemory(m) \/ StartLoad(m) \/ FinishLoad(m)
  PROVE  IInv'
  <1>1. TypeOK'
    BY SenderTypeStep DEF IInv
  <1>t. /\ stage \in [Msgs -> {"unsent", "listed", "loading", "ready", "sent", "failed"}]
        /\ snap \in [Msgs -> SUBSET Users]
        /\ via \in [Msgs -> Msgs] /\ ring \in [Msgs -> Rings] /\ cur \in Msgs \union {None}
        /\ puts \in Seq(Rings) /\ stored \subseteq Rings
    BY DEF IInv, TypeOK
  <1>2. /\ stage[m] \in {"listed", "loading"}
        /\ stage' = [stage EXCEPT ![m] = "ready"] \/ stage' = [stage EXCEPT ![m] = "loading"]
        /\ UNCHANGED <<snap, giving, enc, disk, wire, device>>
    BY DEF EnsureInMemory, StartLoad, FinishLoad
  <1>3. Stable
    BY <1>2, <1>t DEF Stable, Past
  <1>4. ListsRead'
    BY <1>2, <1>t DEF IInv, ListsRead
  <1>5. Gifts'
    BY <1>2, <1>t DEF IInv, Gifts
  <1>6. (Encrypted /\ Held /\ Queued /\ NoneStranded)'
    BY <1>2, <1>t, <1>3, ReceiversIdle
  <1>p. \A r \in Rings : Proper(r) => Proper(r)'
    BY <1>3, ProperStays DEF IInv
  <1>n. /\ New(m, snap[m]).sid = m /\ New(m, snap[m]).sig = snap[m]
        /\ "ready" \in Past
    BY DEF New, Past
  <1>7. Sessions'
    <2>0. /\ cur # None => stage[cur] \in Past /\ Proper(ring[cur]) /\ cur # m
          /\ \A x \in Msgs : stage[x] = "ready" =>
               /\ stage[via[x]] \in Past /\ via[x] # m
               /\ Proper(ring[via[x]])
               /\ ring[via[x]].sig = snap[x]
      BY <1>2 DEF IInv, Sessions, Past
    <2>d. (\A r \in stored : Proper(r))' /\ (\A i \in 1..Len(puts) : Proper(puts[i]))'
      BY <1>2, <1>t, <1>p DEF IInv, Sessions, disk
    <2>1. CASE EnsureInMemory(m) /\ ring[cur].sig = snap[m]
      <3>1. /\ cur \in Msgs /\ via' = [via EXCEPT ![m] = cur] /\ UNCHANGED <<ring, cur>>
            /\ stage' = [stage EXCEPT ![m] = "ready"]
        BY <1>t, <2>1 DEF EnsureInMemory
      <3>2. Proper(ring[cur])' /\ ring'[cur].sig = snap'[m]
        BY <1>2, <1>t, <1>p, <2>0, <2>1, <3>1 DEF EnsureInMemory
      <3>3. \A x \in Msgs \ {m} : via'[x] = via[x] /\ stage'[x] = stage[x]
        BY <1>t, <3>1
      <3>4. via'[m] = cur /\ stage'[m] = "ready"
        BY <1>t, <3>1
      <3>5. stage'[cur] \in Past
        BY <1>3, <2>0, <3>1, <2>1 DEF Stable, EnsureInMemory
      <3>6. (\A x \in Msgs : stage[x] = "ready" =>
               /\ stage[via[x]] \in Past
               /\ Proper(ring[via[x]])
               /\ ring[via[x]].sig = snap[x])'
        <4>1. ASSUME NEW x \in Msgs \ {m}, stage'[x] = "ready"
              PROVE  /\ stage'[via'[x]] \in Past
                     /\ Proper(ring[via[x]])'
                     /\ ring'[via'[x]].sig = snap'[x]
          BY <1>2, <1>3, <1>t, <1>p, <2>0, <3>1, <3>3, <4>1 DEF Stable
        <4> QED
          BY <3>1, <3>2, <3>4, <3>5, <4>1
      <3> QED
        BY <1>2, <1>t, <1>p, <2>0, <2>d, <3>1, <3>2, <3>3, <3>4, <3>5, <3>6 DEF IInv, Sessions, Past
    <2>2. CASE EnsureInMemory(m) /\ ring[cur].sig # snap[m]
      <3>1. /\ via' = [via EXCEPT ![m] = m] /\ cur' = m /\ m # None
            /\ ring' = [ring EXCEPT ![m] = New(m, snap[m])]
            /\ stage' = [stage EXCEPT ![m] = "ready"]
        BY <2>2, NoneAssumption DEF EnsureInMemory
      <3>2. Proper(ring[m])' /\ ring'[m].sig = snap[m]
        <4>1. stage'[m] = "ready" /\ ring'[m] = New(m, snap[m])
          BY <1>t, <3>1
        <4> QED
          BY <1>2, <1>n, <4>1 DEF Proper
      <3> QED
        BY <1>2, <1>t, <1>p, <2>0, <2>d, <3>1, <3>2 DEF IInv, Sessions, Past
    <2>3. CASE StartLoad(m)
      <3>1. /\ stage[m] = "listed" /\ stage' = [stage EXCEPT ![m] = "loading"]
            /\ UNCHANGED <<via, cur>> /\ cur = None
            /\ ring' = ring \/ \E r \in stored : ring' = [ring EXCEPT ![m] = r]
        BY <2>3 DEF StartLoad
      <3>2. Proper(ring[m])' \/ ring'[m] = New(m, {})
        BY <1>p, <1>t, <3>1 DEF IInv, Sessions
      <3>3. \A x \in Msgs \ {m} : ring'[x] = ring[x] /\ stage'[x] = stage[x]
        BY <1>t, <3>1
      <3> QED
        BY <1>2, <1>t, <1>p, <2>0, <2>d, <3>1, <3>2, <3>3 DEF IInv, Sessions, Past
    <2>4. CASE FinishLoad(m)
      <3>1. /\ stage[m] = "loading" /\ stage' = [stage EXCEPT ![m] = "ready"]
            /\ via' = [via EXCEPT ![m] = m] /\ cur' = m /\ m # None
            /\ ring' = IF ring[m].sig = snap[m] THEN ring ELSE [ring EXCEPT ![m] = New(m, snap[m])]
        BY <2>4, NoneAssumption DEF FinishLoad
      <3>2. Proper(ring[m])' /\ ring'[m].sig = snap[m]
        <4>1. CASE ring[m].sig = snap[m]
          <5>1. Proper(ring[m])
            <6>1. ring[m] # New(m, {})
              BY <3>1, <4>1 DEF IInv, ListsRead, New
            <6> QED
              BY <3>1, <6>1 DEF IInv, Sessions
          <5> QED
            BY <1>p, <1>t, <3>1, <4>1, <5>1
        <4>2. CASE ring[m].sig # snap[m]
          <5>1. stage'[m] = "ready" /\ ring'[m] = New(m, snap[m])
            BY <1>t, <3>1, <4>2
          <5> QED
            BY <1>2, <1>n, <5>1 DEF Proper
        <4> QED
          BY <4>1, <4>2
      <3>3. \A x \in Msgs \ {m} : ring'[x] = ring[x] /\ stage'[x] = stage[x]
        BY <1>t, <3>1
      <3> QED
        BY <1>2, <1>t, <1>p, <2>0, <2>d, <3>1, <3>2, <3>3 DEF IInv, Sessions, Past
    <2> QED
      BY <2>1, <2>2, <2>3, <2>4
  <1> QED
    BY <1>1, <1>4, <1>5, <1>6, <1>7 DEF IInv

\* A room key is taken for one of the devices that lack it.
LEMMA StartGiveStep ==
  ASSUME IInv, NEW m \in Msgs, StartGive(m)
  PROVE  IInv'
  <1>1. TypeOK'
    BY SenderTypeStep DEF IInv
  <1>2. /\ stage[m] = "ready"
        /\ UNCHANGED <<stage, snap, via, ring, cur, enc, disk, wire, device>>
    BY DEF StartGive
  <1>3. PICK u \in Lacking(m) :
          giving' = [giving EXCEPT ![m] = {[to |-> u, from |-> ring[via[m]].idx]}]
    BY DEF StartGive
  <1>4. Stable
    BY <1>2 DEF Stable
  <1>5. ListsRead'
    BY <1>2 DEF IInv, ListsRead
  <1>6. Gifts'
    BY <1>2, <1>3 DEF IInv, Gifts, Lacking
  <1>7. Sessions'
    BY <1>2, <1>4, SessionsStay DEF disk
  <1>8. (Encrypted /\ Held /\ Queued /\ NoneStranded)'
    BY <1>2, <1>4, ReceiversIdle
  <1> QED
    BY <1>1, <1>5, <1>6, <1>7, <1>8 DEF IInv

\* A step that changes at most whom a session was handed to and how far it
\* was advanced.
LEMMA RingTouched ==
  ASSUME IInv, Stable, NEW x \in Msgs, stage[x] \in Past,
         UNCHANGED <<snap, via, cur>>,
         stage' \in [Msgs -> {"unsent", "listed", "loading", "ready", "sent", "failed"}],
         \A y \in Msgs : stage'[y] \in {"unsent", "listed", "loading", "ready"} => stage'[y] = stage[y],
         ring' \in [Msgs -> Rings],
         \A y \in Msgs : ring'[y].sid = ring[y].sid /\ ring'[y].sig = ring[y].sig,
         \A y \in Msgs \ {x} : ring'[y] = ring[y],
         (\A r \in stored : Proper(r))' /\ (\A i \in 1..Len(puts) : Proper(puts[i]))'
  PROVE  Sessions'
  <1>1. \A y \in Msgs : Proper(ring[y]) => Proper(ring[y])'
    BY DEF IInv, TypeOK, Rings, Proper, Stable
  <1>2. /\ \A y \in Msgs : ring[y] \in Rings /\ via[y] \in Msgs
        /\ cur # None => cur \in Msgs
    BY DEF IInv, TypeOK
  <1>3. (cur # None => stage[cur] \in Past /\ Proper(ring[cur]))'
    BY <1>1, <1>2 DEF IInv, Sessions, Stable
  <1>4. (\A m \in Msgs : stage[m] = "ready" =>
           /\ stage[via[m]] \in Past
           /\ Proper(ring[via[m]])
           /\ ring[via[m]].sig = snap[m])'
    BY <1>1, <1>2 DEF IInv, Sessions, Stable
  <1>5. \A y \in Msgs : stage'[y] \in {"unsent", "listed", "loading"} => y # x
    BY DEF Past
  <1>6. (\A m \in Msgs : stage[m] \in {"unsent", "listed"} => ring[m] = New(m, {}))'
    BY <1>5 DEF IInv, Sessions, New
  <1>7. (\A m \in Msgs : stage[m] = "loading" => Proper(ring[m]) \/ ring[m] = New(m, {}))'
    BY <1>1, <1>5 DEF IInv, Sessions, New
  <1> QED
    BY <1>3, <1>4, <1>6, <1>7 DEF Sessions

\* The key of its session is sent to a device on the list the send has read,
\* which is the session's.
LEMMA FinishGiveStep ==
  ASSUME IInv, NEW m \in Msgs, FinishGive(m)
  PROVE  IInv'
  <1>1. TypeOK'
    BY SenderTypeStep DEF IInv
  <1>t. /\ ring \in [Msgs -> Rings] /\ via \in [Msgs -> Msgs]
        /\ giving \in [Msgs -> SUBSET [to : Users, from : Nat]]
        /\ keyWire \in [Others -> SUBSET Keys]
        /\ stage \in [Msgs -> {"unsent", "listed", "loading", "ready", "sent", "failed"}]
        /\ puts \in Seq(Rings) /\ stored \subseteq Rings
    BY DEF IInv, TypeOK
  <1>2. /\ stage[m] = "ready" /\ giving' = [giving EXCEPT ![m] = {}]
        /\ UNCHANGED <<stage, snap, via, cur, enc, disk, msgWire, device>>
    BY DEF FinishGive
  <1>3. PICK g \in giving[m] :
          /\ \/ UNCHANGED keyWire
             \/ keyWire' = [keyWire EXCEPT ![g.to] = @ \union {[sid |-> ring[via[m]].sid, from |-> g.from]}]
          /\ ring' = [ring EXCEPT ![via[m]].to = @ \union {g.to}]
    BY DEF FinishGive, WriteKey
  <1>4. Stable
    BY <1>2 DEF Stable
  <1>5. ListsRead' /\ Gifts'
    BY <1>2, <1>t DEF IInv, ListsRead, Gifts
  <1>6. Sessions'
    <2>1. /\ \A y \in Msgs : ring'[y].sid = ring[y].sid /\ ring'[y].sig = ring[y].sig
          /\ \A y \in Msgs \ {via[m]} : ring'[y] = ring[y]
      BY <1>3, <1>t DEF Rings
    <2>2. via[m] \in Msgs /\ stage[via[m]] \in Past
      BY <1>2, <1>t DEF IInv, Sessions
    <2>3. (\A r \in stored : Proper(r))' /\ (\A i \in 1..Len(puts) : Proper(puts[i]))'
      BY <1>2 DEF IInv, Sessions, Proper, disk
    <2>4. ring' \in [Msgs -> Rings] /\ stage' \in [Msgs -> {"unsent", "listed", "loading", "ready", "sent", "failed"}]
      BY <1>1 DEF TypeOK
    <2> QED
      BY <1>2, <1>4, <2>1, <2>2, <2>3, <2>4, RingTouched
  <1>7. Encrypted'
    BY <1>2 DEF IInv, Encrypted
  <1>8. Held'
    <2> DEFINE key == [sid |-> ring[via[m]].sid, from |-> g.from]
    <2>1. \A u \in Others : \A k \in Reach(u)' : k \in Reach(u) \/ (u = g.to /\ k = key)
      BY <1>2, <1>3, <1>t DEF Reach, device
    <2>2. stage[key.sid] \in Past /\ g.to \in snap[key.sid]
      BY <1>2, <1>t DEF IInv, Sessions, Gifts, Proper
    <2> HIDE DEF key
    <2> QED
      BY <1>2, <2>1, <2>2 DEF IInv, Held
  <1>9. (Queued /\ NoneStranded)'
    BY <1>2 DEF IInv, Queued, NoneStranded, Knows, device
  <1> QED
    BY <1>1, <1>5, <1>6, <1>7, <1>8, <1>9 DEF IInv

\* The message is encrypted with a session of its own list, and is on no
\* device yet.
LEMMA EncryptStep ==
  ASSUME IInv, NEW m \in Msgs, Encrypt(m)
  PROVE  IInv'
  <1> DEFINE g == ring[via[m]]
             next == [g EXCEPT !.idx = @ + 1]
  <1>1. TypeOK'
    BY SenderTypeStep DEF IInv
  <1>t. /\ ring \in [Msgs -> Rings] /\ via \in [Msgs -> Msgs]
        /\ stage \in [Msgs -> {"unsent", "listed", "loading", "ready", "sent", "failed"}]
        /\ puts \in Seq(Rings) /\ stored \subseteq Rings
        /\ enc \in [Msgs -> [sid : Msgs, idx : Nat]]
        /\ msgWire \in [Others -> SUBSET Msgs]
    BY DEF IInv, TypeOK
  <1>2. /\ stage[m] = "ready" /\ stage' = [stage EXCEPT ![m] = "sent"] /\ giving[m] = {}
        /\ enc' = [enc EXCEPT ![m] = [sid |-> g.sid, idx |-> g.idx]]
        /\ ring' = [ring EXCEPT ![via[m]] = next]
        /\ puts' = Append(puts, next)
        /\ UNCHANGED <<snap, via, cur, giving, stored, keyWire, device>>
    BY DEF Encrypt
  <1>w. \A u \in Others : \A n \in msgWire'[u] : n \in msgWire[u] \/ (n = m /\ u \in snap[m])
    BY <1>t DEF Encrypt, WriteMessage
  <1>3. Stable
    BY <1>2, <1>t DEF Stable, Past
  <1>4. ListsRead' /\ Gifts'
    BY <1>2, <1>t DEF IInv, ListsRead, Gifts
  <1>5. /\ via[m] \in Msgs /\ stage[via[m]] \in Past
        /\ Proper(g) /\ g.sig = snap[m] /\ g \in Rings
        /\ next \in Rings /\ next.sid = g.sid /\ next.sig = g.sig
    <2>1. /\ via[m] \in Msgs /\ stage[via[m]] \in Past
          /\ Proper(g) /\ g.sig = snap[m] /\ g \in Rings
      BY <1>2, <1>t DEF IInv, Sessions
    <2>2. next \in Rings /\ next.sid = g.sid /\ next.sig = g.sig
      BY <2>1 DEF Rings
    <2> QED
      BY <2>1, <2>2
  <1>6. Sessions'
    <2>1. /\ \A y \in Msgs : ring'[y].sid = ring[y].sid /\ ring'[y].sig = ring[y].sig
          /\ \A y \in Msgs \ {via[m]} : ring'[y] = ring[y]
      BY <1>2, <1>5, <1>t
    <2>2. stage'[next.sid] \in Past /\ next.sig = snap'[next.sid]
      <3>1. g.sid \in Msgs /\ stage[g.sid] \in Past /\ g.sig = snap[g.sid]
        BY <1>5 DEF Proper, Rings
      <3>2. stage'[g.sid] \in Past /\ g.sig = snap'[g.sid]
        BY <1>3, <3>1 DEF Stable
      <3> QED
        BY <1>5, <3>2
    <2> HIDE DEF next
    <2>3. (\A i \in 1..Len(puts) : Proper(puts[i]))'
      <3>1. \A i \in 1..Len(puts) : Proper(puts[i])'
        <4>1. TAKE i \in 1..Len(puts)
        <4>2. puts[i] \in Rings /\ Proper(puts[i])
          BY <1>t DEF IInv, Sessions
        <4>3. Stable /\ TypeOK
          BY <1>3 DEF IInv
        <4> QED
          BY <1>2, <1>5, <4>2, <4>3 DEF Proper, Stable, Rings
      <3>2. \A i \in 1..Len(puts') : \/ i \in 1..Len(puts) /\ puts'[i] = puts[i]
                                     \/ puts'[i] = next
        BY <1>2, <1>5, <1>t
      <3> QED
        BY <2>2, <3>1, <3>2 DEF Proper
    <2>4. (\A r \in stored : Proper(r))'
      BY <1>2, <1>3, <1>t, ProperStays DEF IInv, Sessions
    <2>5. ring' \in [Msgs -> Rings] /\ stage' \in [Msgs -> {"unsent", "listed", "loading", "ready", "sent", "failed"}]
      BY <1>1 DEF TypeOK
    <2>6. \A y \in Msgs : stage'[y] \in {"unsent", "listed", "loading", "ready"} => stage'[y] = stage[y]
      BY <1>2, <1>t
    <2> QED
      BY <1>2, <1>3, <1>5, <2>1, <2>3, <2>4, <2>5, <2>6, RingTouched
  <1>7. Encrypted'
    <2>1. \A n \in Msgs \ {m} : stage'[n] = stage[n] /\ enc'[n] = enc[n]
      BY <1>2, <1>t
    <2>2. enc'[m].sid = g.sid /\ g.sid \in Msgs
      BY <1>2, <1>5, <1>t DEF Rings
    <2>3. stage'[g.sid] \in Past /\ snap[g.sid] = snap[m]
      BY <1>3, <1>5, <2>2 DEF Proper, Stable
    <2> HIDE DEF g
    <2> QED
      BY <1>2, <1>3, <1>t, <2>1, <2>2, <2>3 DEF IInv, Encrypted, Stable
  <1>8. Held'
    <2>1. \A u \in Others : Reach(u)' = Reach(u)
      BY <1>2 DEF Reach, device
    <2>2. \A u \in Others : \A k \in Reach(u) : k.sid \in Msgs
      BY DEF IInv, TypeOK, Reach, Keys
    <2> QED
      BY <1>2, <1>3, <2>1, <2>2 DEF IInv, Held, Stable
  <1>9. Queued'
    BY <1>2, <1>t, <1>w DEF IInv, Queued, device
  <1>10. NoneStranded'
    <2>1. \A u \in Others : m \notin pending[u]
      BY <1>2 DEF IInv, Queued
    <2>2. \A u \in Others : pending[u] \subseteq Msgs
      BY DEF IInv, TypeOK
    <2>3. \A n \in Msgs \ {m} : enc'[n] = enc[n]
      BY <1>2, <1>t
    <2> QED
      BY <1>2, <2>1, <2>2, <2>3 DEF IInv, NoneStranded, Knows, device
  <1> QED
    BY <1>1, <1>4, <1>6, <1>7, <1>8, <1>9, <1>10 DEF IInv

\* A row is written.
LEMMA PutStep ==
  ASSUME IInv, PutGroupOut
  PROVE  IInv'
  <1>1. TypeOK'
    BY SenderTypeStep DEF IInv
  <1>t. puts \in Seq(Rings)
    BY DEF IInv, TypeOK
  <1>2. /\ puts # <<>> /\ stored' = {Head(puts)} /\ puts' = Tail(puts)
        /\ UNCHANGED <<sending, wire, device>>
    BY DEF PutGroupOut
  <1>3. UNCHANGED <<stage, snap, via, ring, cur, giving, enc>>
    BY <1>2 DEF sending
  <1>4. Stable
    BY <1>3 DEF Stable
  <1>5. ListsRead' /\ Gifts'
    BY <1>3 DEF IInv, ListsRead, Gifts
  <1>6. Sessions'
    <2>1. Head(puts) = puts[1] /\ 1 \in 1..Len(puts)
      BY <1>2, <1>t
    <2>2. \A i \in 1..Len(Tail(puts)) : Tail(puts)[i] = puts[i + 1] /\ i + 1 \in 1..Len(puts)
      BY <1>2, <1>t
    <2>3. (\A r \in stored : Proper(r))' /\ (\A i \in 1..Len(puts) : Proper(puts[i]))'
      BY <1>2, <1>3, <2>1, <2>2 DEF IInv, Sessions, Proper
    <2> QED
      BY <1>3, <2>3 DEF IInv, Sessions, Proper
  <1>7. (Encrypted /\ Held /\ Queued /\ NoneStranded)'
    BY <1>2, <1>3, <1>4, ReceiversIdle
  <1> QED
    BY <1>1, <1>5, <1>6, <1>7 DEF IInv

\* A send fails half-way.
LEMMA FailStep ==
  ASSUME IInv, NEW m \in Msgs, SendFails(m)
  PROVE  IInv'
  <1>1. TypeOK'
    BY SenderTypeStep DEF IInv
  <1>t. /\ stage \in [Msgs -> {"unsent", "listed", "loading", "ready", "sent", "failed"}]
        /\ giving \in [Msgs -> SUBSET [to : Users, from : Nat]]
    BY DEF IInv, TypeOK
  <1>2. /\ stage[m] = "ready" /\ stage' = [stage EXCEPT ![m] = "failed"]
        /\ giving' = [giving EXCEPT ![m] = {}]
        /\ UNCHANGED <<snap, via, ring, cur, enc, disk, wire, device>>
    BY DEF SendFails
  <1>3. Stable
    BY <1>2, <1>t DEF Stable, Past
  <1>4. ListsRead' /\ Gifts'
    BY <1>2, <1>t DEF IInv, ListsRead, Gifts
  <1>5. Sessions'
    <2>1. \A n \in Msgs : /\ stage'[n] = "ready" => stage[n] = "ready"
                          /\ stage'[n] \in {"unsent", "listed"} => stage[n] \in {"unsent", "listed"}
                          /\ stage'[n] = "loading" => stage[n] = "loading"
      BY <1>2, <1>t
    <2> QED
      BY <1>2, <1>3, <2>1, SessionsStay DEF disk
  <1>6. (Encrypted /\ Held /\ Queued /\ NoneStranded)'
    BY <1>2, <1>t, <1>3, ReceiversIdle
  <1> QED
    BY <1>1, <1>4, <1>5, <1>6 DEF IInv

\* The sender's page is reloaded: of its sessions the stored row is left.
LEMMA SenderReloadStep ==
  ASSUME IInv, SenderReloads
  PROVE  IInv'
  <1>1. TypeOK'
    BY SenderTypeStep DEF IInv
  <1>t. /\ stage \in [Msgs -> {"unsent", "listed", "loading", "ready", "sent", "failed"}]
        /\ stored \subseteq Rings
    BY DEF IInv, TypeOK
  <1>2. /\ stage' = [m \in Msgs |-> IF stage[m] \in {"listed", "loading", "ready"} THEN "failed" ELSE stage[m]]
        /\ ring' = [m \in Msgs |-> New(m, {})]
        /\ cur' = None /\ giving' = [m \in Msgs |-> {}] /\ puts' = <<>>
        /\ UNCHANGED <<snap, enc, stored, wire, device>>
    BY DEF SenderReloads
  <1>3. Stable
    BY <1>2, <1>t DEF Stable, Past
  <1>4. ListsRead' /\ Gifts'
    BY <1>2, <1>t DEF IInv, ListsRead, Gifts
  <1>5. Sessions'
    <2>1. \A m \in Msgs : stage'[m] \notin {"listed", "loading", "ready"}
      BY <1>2, <1>t
    <2>2. (\A r \in stored : Proper(r))'
      BY <1>2, <1>3, <1>t, ProperStays DEF IInv, Sessions
    <2> QED
      BY <1>2, <2>1, <2>2 DEF Sessions
  <1>6. (Encrypted /\ Held /\ Queued /\ NoneStranded)'
    BY <1>2, <1>t, <1>3, ReceiversIdle
  <1> QED
    BY <1>1, <1>4, <1>5, <1>6 DEF IInv

\* The invariant holds of every new group.
LEMMA InitInvariant == Init => IInv
  <1> SUFFICES ASSUME Init PROVE IInv
    OBVIOUS
  <1>1. TypeOK
    BY InitTypes
  <1>2. ListsRead /\ Encrypted /\ Gifts
    BY DEF Init, ListsRead, Encrypted, Gifts
  <1>3. Sessions
    BY DEF Init, Sessions
  <1>4. Held /\ Queued /\ NoneStranded
    BY DEF Init, Held, Reach, Queued, NoneStranded
  <1> QED
    BY <1>1, <1>2, <1>3, <1>4 DEF IInv

\* Every step keeps it.
LEMMA Inductive == IInv /\ [Next]_vars => IInv'
  <1>1. ASSUME IInv, Next PROVE IInv'
    BY <1>1, ServerStep, FetchStep, EnsureStep, StartGiveStep, FinishGiveStep, EncryptStep,
       PutStep, FailStep, SenderReloadStep, DeviceStep DEF Next
  <1>2. ASSUME IInv, UNCHANGED vars PROVE IInv'
    <2>1. TypeOK'
      BY <1>2, TypeStep DEF IInv
    <2>2. UNCHANGED <<stage, snap, via, ring, cur, giving, enc, puts, stored>> /\ UNCHANGED <<wire, device>>
      BY <1>2 DEF vars, sending, disk
    <2>3. \A u \in Others : Reach(u)' \subseteq Reach(u)
      BY <2>2 DEF Reach, wire, device
    <2>4. (ListsRead /\ Sessions /\ Encrypted /\ Gifts /\ Held)'
      BY <1>2, <2>2, <2>3, SenderIdle
    <2>5. (Queued /\ NoneStranded)'
      BY <1>2, <2>2 DEF IInv, Queued, NoneStranded, Knows, wire, device
    <2> QED
      BY <2>1, <2>4, <2>5 DEF IInv
  <1> QED
    BY <1>1, <1>2

\* For any users, messages, member changes and reloads: nobody outside the
\* list a message was sent to ever holds a key that opens it.
THEOREM KeysInside == Spec => []KeysStayInside
  <1>1. IInv => KeysStayInside
    BY DEF IInv, KeysStayInside, Held, Encrypted, Sent, TypeOK
  <1> QED
    BY <1>1, InitInvariant, Inductive, PTL DEF Spec

\* No buffered message is left behind by the import of its session's key.
THEOREM BufferFlushed == Spec => []NoneStranded
  <1>1. IInv => NoneStranded
    BY DEF IInv
  <1> QED
    BY <1>1, InitInvariant, Inductive, PTL DEF Spec

(***************************************************************************)
(* No key of the ratchet is used twice.  A session is in use through one   *)
(* object, and is past every index its messages were encrypted with; so is *)
(* the last row written or on its way, which is what a reload goes on      *)
(* with.  Several sends may load that row at a time: the first to finish   *)
(* is the only one that may use it.                                        *)
(***************************************************************************)

\* A session or row that is past everything sent with it.
Ahead(r) == \A n \in Sent : enc[n].sid = r.sid => enc[n].idx < r.idx

\* The objects a message may be encrypted with.
InUse(x) == x = cur \/ \E m \in Msgs : stage[m] = "ready" /\ via[m] = x

AllAhead == \A x \in Msgs : InUse(x) => Ahead(ring[x])
OneInUse == \A x, y \in Msgs : InUse(x) /\ InUse(y) /\ ring[x].sid = ring[y].sid => x = y

LastRowAhead ==
  /\ puts = <<>> => \A r \in stored : Ahead(r)
  /\ puts # <<>> => Ahead(puts[Len(puts)])

\* As long as no object is in the groupOut map.
Loading ==
  cur = None => /\ puts = <<>>
                /\ \A m \in Msgs : /\ stage[m] # "ready"
                                   /\ stage[m] = "loading" => Ahead(ring[m])

NoneTwice == \A m, n \in Sent : enc[m] = enc[n] => m = n

Unrepeated == AllAhead /\ OneInUse /\ LastRowAhead /\ Loading /\ NoneTwice

Ratchet == ~forked => Unrepeated

\* Nothing is sent: what was past everything sent still is.
LEMMA AheadStays ==
  ASSUME TypeOK, UNCHANGED enc,
         \A m \in Msgs : stage'[m] = "sent" => stage[m] = "sent",
         NEW r, NEW q, q.sid = r.sid, q.idx = r.idx, Ahead(r)
  PROVE  \A n \in Sent' : enc'[n].sid = q.sid => enc'[n].idx < q.idx
  BY DEF Ahead, Sent

\* A step that advances no session and sends nothing.
LEMMA RatchetIdle ==
  ASSUME IInv, Unrepeated, UNCHANGED <<cur, via, enc, stored, puts>>,
         \A x \in Msgs : ring'[x].sid = ring[x].sid /\ ring'[x].idx = ring[x].idx,
         \A m \in Msgs : /\ stage'[m] = "sent" => stage[m] = "sent"
                         /\ stage'[m] = "ready" => stage[m] = "ready"
                         /\ stage'[m] = "loading" => stage[m] = "loading"
  PROVE  Unrepeated'
  <1>1. \A x \in Msgs : InUse(x)' => InUse(x)
    BY DEF InUse
  <1>2. \A x \in Msgs : Ahead(ring[x]) => Ahead(ring[x])'
    BY AheadStays DEF IInv, Ahead
  <1>3. /\ \A r \in stored : Ahead(r) => Ahead(r)'
        /\ puts # <<>> /\ Ahead(puts[Len(puts)]) => Ahead(puts[Len(puts)])'
    BY AheadStays DEF IInv, Ahead
  <1>4. AllAhead' /\ OneInUse'
    BY <1>1, <1>2 DEF Unrepeated, AllAhead, OneInUse
  <1>5. LastRowAhead'
    BY <1>3 DEF Unrepeated, LastRowAhead
  <1>6. Loading'
    BY <1>2 DEF Unrepeated, Loading
  <1>7. NoneTwice'
    BY DEF Unrepeated, NoneTwice, Sent
  <1> QED
    BY <1>4, <1>5, <1>6, <1>7 DEF Unrepeated

\* A session just created has sent nothing, and is not in use yet.
LEMMA BrandNew ==
  ASSUME IInv, NEW m \in Msgs, stage[m] \in {"listed", "loading"}
  PROVE  /\ \A n \in Sent : enc[n].sid # m
         /\ \A x \in Msgs : InUse(x) => x # m /\ ring[x].sid # m
  <1>1. \A n \in Sent : enc[n].sid # m
    BY DEF IInv, Encrypted, Sent, Past
  <1>2. ASSUME NEW x \in Msgs, InUse(x)
        PROVE  x # m /\ ring[x].sid # m
    <2>1. stage[x] \in Past /\ Proper(ring[x])
      BY <1>2, NoneAssumption DEF InUse, IInv, Sessions
    <2> QED
      BY <2>1 DEF Proper, Past
  <1> QED
    BY <1>1, <1>2

\* The object a send may overwrite is not in use; what it creates has sent
\* nothing, and what it loads is the last row, nobody else using one.
LEMMA RatchetEnsure ==
  ASSUME IInv, Unrepeated, NEW m \in Msgs, ~forked',
         EnsureInMemory(m) \/ StartLoad(m) \/ FinishLoad(m)
  PROVE  Unrepeated'
  <1>t. /\ stage \in [Msgs -> {"unsent", "listed", "loading", "ready", "sent", "failed"}]
        /\ ring \in [Msgs -> Rings] /\ cur \in Msgs \union {None} /\ via \in [Msgs -> Msgs]
        /\ enc \in [Msgs -> [sid : Msgs, idx : Nat]]
        /\ forked \in BOOLEAN
    BY DEF IInv, TypeOK
  <1>1. /\ stage[m] \in {"listed", "loading"}
        /\ stage' = [stage EXCEPT ![m] = "ready"] \/ stage' = [stage EXCEPT ![m] = "loading"]
        /\ UNCHANGED <<enc, stored, puts>>
    BY DEF EnsureInMemory, StartLoad, FinishLoad, disk
  <1>2. \A n \in Msgs : stage'[n] = "sent" <=> stage[n] = "sent"
    BY <1>1, <1>t
  <1>s. Sent' = Sent
    BY <1>2 DEF Sent
  <1>b. /\ \A n \in Sent : enc[n].sid # m
        /\ \A x \in Msgs : InUse(x) => x # m /\ ring[x].sid # m
    BY <1>1, BrandNew
  <1>n. New(m, snap[m]).sid = m /\ Ahead(New(m, snap[m]))
    BY <1>b DEF New, Ahead
  <1>r. LastRowAhead'
    BY <1>1, <1>s DEF Unrepeated, LastRowAhead, Ahead
  <1>d. NoneTwice'
    BY <1>1, <1>s DEF Unrepeated, NoneTwice
  <1>f. ASSUME NEW r, Ahead(r), ring' = [ring EXCEPT ![m] = r] \/ (ring' = ring /\ r = ring[m]),
               cur' = m, via' = [via EXCEPT ![m] = m],
               \A x \in Msgs \ {m} : InUse(x)' => ring[x].sid # r.sid,
               stage' = [stage EXCEPT ![m] = "ready"]
        PROVE  Unrepeated'
    <2>1. ring'[m] = r /\ \A x \in Msgs \ {m} : ring'[x] = ring[x]
      BY <1>t, <1>f
    <2>2. \A x \in Msgs \ {m} : InUse(x)' => InUse(x)
      BY <1>t, <1>f DEF InUse
    <2>3. AllAhead'
      BY <1>1, <1>f, <1>s, <2>1, <2>2 DEF Unrepeated, AllAhead, Ahead
    <2>4. OneInUse'
      BY <1>f, <2>1, <2>2 DEF Unrepeated, OneInUse
    <2>5. Loading'
      BY <1>f, NoneAssumption DEF Loading
    <2> QED
      BY <1>r, <1>d, <2>3, <2>4, <2>5 DEF Unrepeated
  <1>3. CASE EnsureInMemory(m)
    <2>1. CASE ring[cur].sig = snap[m]
      <3>1. /\ cur # None /\ via' = [via EXCEPT ![m] = cur] /\ UNCHANGED <<ring, cur>>
            /\ stage' = [stage EXCEPT ![m] = "ready"]
        BY <1>3, <2>1 DEF EnsureInMemory
      <3>2. \A x \in Msgs : InUse(x)' => InUse(x)
        BY <1>t, <3>1 DEF InUse
      <3>3. AllAhead' /\ OneInUse'
        BY <1>1, <1>s, <3>1, <3>2 DEF Unrepeated, AllAhead, OneInUse, Ahead
      <3>4. Loading'
        BY <3>1 DEF Loading
      <3> QED
        BY <1>r, <1>d, <3>3, <3>4 DEF Unrepeated
    <2>2. CASE ring[cur].sig # snap[m]
      <3>1. /\ via' = [via EXCEPT ![m] = m] /\ cur' = m /\ stage' = [stage EXCEPT ![m] = "ready"]
            /\ ring' = [ring EXCEPT ![m] = New(m, snap[m])]
        BY <1>3, <2>2 DEF EnsureInMemory
      <3>2. \A x \in Msgs \ {m} : InUse(x)' => ring[x].sid # m
        BY <1>b, <1>t, <3>1 DEF InUse
      <3> QED
        BY <1>f, <1>n, <3>1, <3>2
    <2> QED
      BY <2>1, <2>2
  <1>4. CASE StartLoad(m)
    <2>1. /\ cur = None /\ stage' = [stage EXCEPT ![m] = "loading"]
          /\ UNCHANGED <<via, cur>> /\ stage[m] = "listed"
          /\ ring' = ring \/ \E r \in stored : ring' = [ring EXCEPT ![m] = r]
      BY <1>4 DEF StartLoad
    <2>2. puts = <<>> /\ \A x \in Msgs : ~InUse(x)
      BY <2>1, <1>t, NoneAssumption DEF Unrepeated, Loading, InUse
    <2>3. \A x \in Msgs : ~InUse(x)'
      BY <1>t, <2>1, <2>2 DEF InUse
    <2>4. ring[m].sid = m /\ Ahead(ring[m])
      <3>1. ring[m] = New(m, {})
        BY <2>1 DEF IInv, Sessions
      <3>2. New(m, {}).sid = m
        BY DEF New
      <3> QED
        BY <1>b, <3>1, <3>2 DEF Ahead
    <2>5. Ahead(ring'[m]) /\ \A x \in Msgs \ {m} : ring'[x] = ring[x]
      BY <1>t, <2>1, <2>2, <2>4 DEF Unrepeated, LastRowAhead
    <2>6. Loading'
      BY <1>1, <1>s, <1>t, <2>1, <2>2, <2>5 DEF Unrepeated, Loading, Ahead
    <2> QED
      BY <1>r, <1>d, <2>3, <2>6 DEF Unrepeated, AllAhead, OneInUse
  <1>5. CASE FinishLoad(m)
    <2>1. /\ stage[m] = "loading" /\ stage' = [stage EXCEPT ![m] = "ready"]
          /\ via' = [via EXCEPT ![m] = m] /\ cur' = m
          /\ ring' = IF ring[m].sig = snap[m] THEN ring ELSE [ring EXCEPT ![m] = New(m, snap[m])]
          /\ ring[m].sig = snap[m] => cur = None
      BY <1>5 DEF FinishLoad
    <2>2. CASE ring[m].sig = snap[m]
      <3>1. Ahead(ring[m]) /\ \A x \in Msgs : stage[x] # "ready"
        BY <2>1, <2>2 DEF Unrepeated, Loading
      <3>2. \A x \in Msgs \ {m} : ~InUse(x)'
        BY <1>t, <2>1, <3>1 DEF InUse
      <3>3. ring' = ring
        BY <2>1, <2>2
      <3> DEFINE r == ring[m]
      <3>4. Ahead(r) /\ ring' = ring /\ r = ring[m]
        BY <3>1, <3>3
      <3> HIDE DEF r
      <3> QED
        BY <1>f, <2>1, <3>2, <3>4
    <2>3. CASE ring[m].sig # snap[m]
      <3>1. \A x \in Msgs \ {m} : InUse(x)' => ring[x].sid # m
        BY <1>b, <1>t, <2>1 DEF InUse
      <3> QED
        BY <1>f, <1>n, <2>1, <2>3, <3>1
    <2> QED
      BY <2>2, <2>3
  <1> QED
    BY <1>3, <1>4, <1>5

\* A message takes the index its session has come to, and moves it on.
LEMMA RatchetEncrypt ==
  ASSUME IInv, Unrepeated, NEW m \in Msgs, Encrypt(m)
  PROVE  Unrepeated'
  <1> DEFINE x == via[m]
             g == ring[x]
             next == [g EXCEPT !.idx = @ + 1]
  <1>t. /\ stage \in [Msgs -> {"unsent", "listed", "loading", "ready", "sent", "failed"}]
        /\ ring \in [Msgs -> Rings] /\ via \in [Msgs -> Msgs] /\ puts \in Seq(Rings)
        /\ enc \in [Msgs -> [sid : Msgs, idx : Nat]]
    BY DEF IInv, TypeOK
  <1>1. /\ stage[m] = "ready" /\ stage' = [stage EXCEPT ![m] = "sent"]
        /\ enc' = [enc EXCEPT ![m] = [sid |-> g.sid, idx |-> g.idx]]
        /\ ring' = [ring EXCEPT ![x] = next]
        /\ puts' = Append(puts, next)
        /\ UNCHANGED <<cur, via>>
    BY DEF Encrypt
  <1>2. x \in Msgs /\ g \in Rings /\ InUse(x) /\ Ahead(g)
    BY <1>1, <1>t DEF InUse, Unrepeated, AllAhead
  <1>3. next \in Rings /\ next.sid = g.sid /\ next.idx = g.idx + 1 /\ g.idx \in Nat
    BY <1>2 DEF Rings
  <1>4. /\ enc'[m].sid = g.sid /\ enc'[m].idx = g.idx
        /\ \A n \in Msgs \ {m} : enc'[n] = enc[n] /\ stage'[n] = stage[n]
        /\ stage'[m] = "sent" /\ m \notin Sent
    BY <1>1, <1>2, <1>t DEF Sent
  <1>5. \A n \in Sent' : n = m \/ (n \in Sent /\ n # m)
    BY <1>4 DEF Sent
  <1>6. /\ \A y \in Msgs \ {x} : ring'[y] = ring[y]
        /\ ring'[x] = next
    BY <1>1, <1>2, <1>t
  <1>7. \A y \in Msgs : InUse(y)' => InUse(y)
    BY <1>1, <1>t DEF InUse
  <1> HIDE DEF x, g, next
  <1>e. \A n \in Sent : n \in Msgs /\ enc[n].sid \in Msgs /\ enc[n].idx \in Nat
    BY <1>t DEF Sent
  <1>8. \A n \in Sent' : enc'[n].sid = g.sid => enc'[n].idx < g.idx + 1
    <2> SUFFICES ASSUME NEW n \in Sent', enc'[n].sid = g.sid
                 PROVE  enc'[n].idx < g.idx + 1
      OBVIOUS
    <2>1. CASE n = m
      BY <1>3, <1>4, <2>1
    <2>2. CASE n \in Sent /\ n # m
      <3>1. enc'[n] = enc[n]
        BY <1>4, <1>e, <2>2
      <3>2. enc[n].idx < g.idx
        BY <1>2, <2>2, <3>1 DEF Ahead
      <3> QED
        BY <1>3, <1>e, <2>2, <3>1, <3>2
    <2> QED
      BY <1>5, <2>1, <2>2
  <1>9. AllAhead'
    <2>1. ASSUME NEW y \in Msgs, InUse(y)', NEW n \in Sent', enc'[n].sid = ring'[y].sid
          PROVE  enc'[n].idx < ring'[y].idx
      <3>1. CASE y = x
        BY <1>3, <1>6, <1>8, <2>1, <3>1
      <3>2. CASE y # x
        <4>1. ring'[y] = ring[y] /\ ring[y].sid # g.sid /\ Ahead(ring[y])
          BY <1>2, <1>6, <1>7, <2>1, <3>2 DEF Unrepeated, OneInUse, AllAhead, g
        <4>2. n # m /\ n \in Sent
          BY <1>4, <1>5, <2>1, <4>1
        <4>3. enc'[n] = enc[n]
          BY <1>4, <1>e, <4>2
        <4> QED
          BY <2>1, <4>1, <4>2, <4>3 DEF Ahead
      <3> QED
        BY <3>1, <3>2
    <2> QED
      BY <2>1 DEF AllAhead, Ahead
  <1>10. OneInUse'
    <2>1. \A y \in Msgs : ring'[y].sid = ring[y].sid
      BY <1>3, <1>6 DEF g
    <2> QED
      BY <1>7, <2>1 DEF Unrepeated, OneInUse
  <1>11. LastRowAhead'
    <2>1. puts' # <<>> /\ puts'[Len(puts')] = next
      BY <1>1, <1>3, <1>t
    <2>2. \A n \in Sent' : enc'[n].sid = puts'[Len(puts')].sid => enc'[n].idx < puts'[Len(puts')].idx
      BY <1>3, <1>8, <2>1
    <2> QED
      BY <2>1, <2>2 DEF LastRowAhead, Ahead
  <1>12. Loading'
    BY <1>1 DEF Unrepeated, Loading
  <1>13. NoneTwice'
    <2>1. ASSUME NEW n \in Sent, n # m
          PROVE  enc'[n] # enc'[m]
      <3>1. enc'[n] = enc[n]
        BY <1>4, <1>e, <2>1
      <3>2. enc[n].sid = g.sid => enc[n].idx < g.idx
        BY <1>2, <2>1 DEF Ahead
      <3> QED
        BY <1>3, <1>4, <1>e, <2>1, <3>1, <3>2
    <2>2. ASSUME NEW k \in Sent', NEW n \in Sent', enc'[k] = enc'[n]
          PROVE  k = n
      <3>1. CASE k = m \/ n = m
        BY <1>5, <2>1, <2>2, <3>1
      <3>2. CASE k # m /\ n # m
        <4>1. k \in Sent /\ n \in Sent
          BY <1>5, <3>2
        <4>2. enc[k] = enc[n]
          BY <1>4, <1>e, <2>2, <3>2, <4>1
        <4> QED
          BY <4>1, <4>2 DEF Unrepeated, NoneTwice
      <3> QED
        BY <3>1, <3>2
    <2> QED
      BY <2>2 DEF NoneTwice
  <1> QED
    BY <1>9, <1>10, <1>11, <1>12, <1>13 DEF Unrepeated

\* saveGroupOut writes the rows in the order they were asked for.
LEMMA RatchetPut ==
  ASSUME IInv, Unrepeated, PutGroupOut
  PROVE  Unrepeated'
  <1>1. /\ UNCHANGED <<stage, via, ring, cur, enc>>
        /\ puts # <<>> /\ stored' = {Head(puts)} /\ puts' = Tail(puts)
        /\ puts \in Seq(Rings)
    BY DEF PutGroupOut, sending, IInv, TypeOK
  <1>2. Sent' = Sent
    BY <1>1 DEF Sent
  <1>3. LastRowAhead'
    <2>1. CASE Len(puts) = 1
      <3>1. puts' = <<>> /\ Head(puts) = puts[Len(puts)]
        BY <1>1, <2>1
      <3>2. \A r \in stored' : r = puts[Len(puts)]
        BY <1>1, <3>1
      <3> QED
        BY <1>1, <1>2, <3>1, <3>2 DEF Unrepeated, LastRowAhead, Ahead
    <2>2. CASE Len(puts) # 1
      <3>1. puts' # <<>> /\ puts'[Len(puts')] = puts[Len(puts)]
        <4>1. Len(puts) \in Nat /\ Len(puts) > 1
          <5>1. puts \in Seq(Rings) /\ puts # <<>>
            BY <1>1
          <5> DEFINE n == Len(puts)
          <5>2. n \in Nat \ {0} /\ n # 1
            BY <2>2, <5>1, EmptySeq, Zenon
          <5> HIDE DEF n
          <5>3. n \in Nat /\ n > 1
            BY <5>2
          <5> QED
            BY <5>3 DEF n
        <4>2. Len(puts') = Len(puts) - 1 /\ \A i \in 1..Len(puts) - 1 : puts'[i] = puts[i + 1]
          BY <1>1, <4>1
        <4> QED
          BY <4>1, <4>2
      <3> QED
        BY <1>1, <1>2, <3>1 DEF Unrepeated, LastRowAhead, Ahead
    <2> QED
      BY <2>1, <2>2
  <1>4. cur # None
    BY <1>1 DEF Unrepeated, Loading
  <1> QED
    BY <1>1, <1>2, <1>3, <1>4
       DEF Unrepeated, AllAhead, OneInUse, Loading, NoneTwice, InUse, Ahead

\* A reload goes on from the last row, unless one was still on its way.
LEMMA RatchetReload ==
  ASSUME IInv, Unrepeated, SenderReloads, ~forked'
  PROVE  Unrepeated'
  <1>1. /\ cur' = None /\ puts' = <<>> /\ puts = <<>>
        /\ UNCHANGED <<via, enc, stored>>
        /\ \A m \in Msgs : /\ stage'[m] \notin {"ready", "loading"}
                           /\ stage'[m] = "sent" <=> stage[m] = "sent"
    BY DEF SenderReloads
  <1>2. Sent' = Sent /\ \A x \in Msgs : ~InUse(x)'
    BY <1>1, NoneAssumption DEF Sent, InUse
  <1>3. LastRowAhead'
    BY <1>1, <1>2 DEF Unrepeated, LastRowAhead, Ahead
  <1> QED
    BY <1>1, <1>2, <1>3 DEF Unrepeated, AllAhead, OneInUse, Loading, NoneTwice

\* Every step of the system.
LEMMA RatchetStep == IInv /\ Ratchet /\ [Next]_vars => Ratchet'
  <1> SUFFICES ASSUME IInv, Ratchet, [Next]_vars, ~forked'
               PROVE  Unrepeated'
    BY DEF Ratchet
  <1>t. /\ stage \in [Msgs -> {"unsent", "listed", "loading", "ready", "sent", "failed"}]
        /\ ring \in [Msgs -> Rings] /\ via \in [Msgs -> Msgs] /\ puts \in Seq(Rings)
    BY DEF IInv, TypeOK
  <1>1. forked => forked'
    BY DEF Next, vars, ChangeMembers, Fetch, EnsureInMemory, StartLoad, FinishLoad, StartGive,
           FinishGive, Encrypt, SendFails, PutGroupOut, SocketCloses, SocketOpens, SenderReloads,
           DeviceWorks, ReceiveKey, RouteKey, SaveKey, FlushPending, HandleGroupMessage,
           ReceiverReloads, history
  <1>2. Unrepeated
    BY <1>1 DEF Ratchet
  <1>3. ASSUME UNCHANGED <<stage, via, ring, cur, enc, stored, puts>>
        PROVE  Unrepeated'
    BY <1>2, <1>3, RatchetIdle
  <1>4. ASSUME UNCHANGED vars \/ (\E u \in Users : ChangeMembers(u)) \/ SocketCloses \/ SocketOpens
        PROVE  Unrepeated'
    BY <1>3, <1>4 DEF vars, ChangeMembers, SocketCloses, SocketOpens, sending, disk
  <1>5. ASSUME NEW u \in Others, DeviceWorks(u) \/ ReceiverReloads(u)
        PROVE  Unrepeated'
    BY <1>3, <1>5 DEF DeviceWorks, ReceiveKey, RouteKey, SaveKey, FlushPending,
           HandleGroupMessage, ReceiverReloads, sending, disk
  <1>6. ASSUME NEW m \in Msgs, Fetch(m) \/ SendFails(m)
        PROVE  Unrepeated'
    <2>1. /\ UNCHANGED <<via, ring, cur, enc, stored, puts>>
          /\ \A n \in Msgs : /\ stage'[n] = "sent" => stage[n] = "sent"
                             /\ stage'[n] = "ready" => stage[n] = "ready"
                             /\ stage'[n] = "loading" => stage[n] = "loading"
      BY <1>6, <1>t DEF Fetch, SendFails, disk
    <2> QED
      BY <1>2, <2>1, RatchetIdle
  <1>7. ASSUME NEW m \in Msgs, StartGive(m)
        PROVE  Unrepeated'
    BY <1>3, <1>7 DEF StartGive, disk
  <1>8. ASSUME NEW m \in Msgs, FinishGive(m)
        PROVE  Unrepeated'
    <2>1. UNCHANGED <<stage, via, cur, enc, stored, puts>>
      BY <1>8 DEF FinishGive, disk
    <2>2. PICK g \in giving[m] : ring' = [ring EXCEPT ![via[m]].to = @ \union {g.to}]
      BY <1>8 DEF FinishGive
    <2>3. \A x \in Msgs : ring'[x].sid = ring[x].sid /\ ring'[x].idx = ring[x].idx
      BY <1>t, <2>2 DEF Rings
    <2> QED
      BY <1>2, <2>1, <2>3, RatchetIdle
  <1> QED
    BY <1>2, <1>4, <1>5, <1>6, <1>7, <1>8, RatchetEnsure, RatchetEncrypt, RatchetPut, RatchetReload
       DEF Next

\* However many sends overlap and however often the sender reloads its page, no
\* two of its messages are encrypted with the same key of the ratchet, unless the
\* page died before saveGroupOut was done or two sends unpickled the row at the
\* same time (`forked`).
THEOREM IndexFresh == Spec => []IndexUsedOnce
  <1>1. Init => Ratchet
    BY NoneAssumption
       DEF Init, Ratchet, Unrepeated, AllAhead, OneInUse, LastRowAhead, Loading, NoneTwice,
           InUse, Ahead, Sent
  <1>2. Ratchet => IndexUsedOnce
    BY DEF Ratchet, Unrepeated, NoneTwice, IndexUsedOnce
  <1> QED
    BY <1>1, <1>2, InitInvariant, Inductive, RatchetStep, PTL DEF Spec

(***************************************************************************)
(* The detailed specification implements the abstract one.                 *)
(***************************************************************************)

\* The reading of the abstract specification.
ReadBy == [u \in Users |-> IF u = Me THEN {} ELSE read[u]]

\* A device that decrypts reads some of what was addressed to its user.
LEMMA DeviceReads ==
  ASSUME IInv, NEW u \in Others, DeviceWorks(u) \/ ReceiverReloads(u)
  PROVE  Audience!Read(u) \/ UNCHANGED <<members, snap, ReadBy>>
  <1>t. /\ read \in [Others -> SUBSET Msgs] /\ u \in Users /\ u # Me
        /\ pending \in [Others -> SUBSET Msgs] /\ msgWire \in [Others -> SUBSET Msgs]
    BY DEF IInv, TypeOK, Others
  <1>1. UNCHANGED <<members, snap>>
    BY DEF DeviceWorks, ReceiveKey, RouteKey, SaveKey, FlushPending, HandleGroupMessage,
           ReceiverReloads, server, sending
  <1>2. UNCHANGED read \/ \E M \in SUBSET {m \in Msgs : u \in snap[m]} :
                            read' = [read EXCEPT ![u] = @ \union M]
    <2>1. ASSUME NEW s \in Msgs, FlushPending(u, s)
          PROVE  <1>2
      <3>1. PICK M \in SUBSET {m \in {m \in pending[u] : enc[m].sid = s} : Opens(u, m)} :
              read' = [read EXCEPT ![u] = @ \union M]
        BY <2>1 DEF FlushPending
      <3>2. M \subseteq {m \in Msgs : u \in snap[m]}
        BY <1>t DEF IInv, Queued
      <3> QED
        BY <3>1, <3>2
    <2>2. ASSUME NEW m \in Msgs, HandleGroupMessage(u, m)
          PROVE  <1>2
      <3>1. m \in Msgs /\ u \in snap[m]
        BY <2>2 DEF HandleGroupMessage, IInv, Queued
      <3>2. read' = read \/ read' = [read EXCEPT ![u] = @ \union {m}]
        BY <2>2 DEF HandleGroupMessage
      <3> QED
        BY <3>1, <3>2
    <2> QED
      BY <2>1, <2>2 DEF DeviceWorks, ReceiveKey, RouteKey, SaveKey, ReceiverReloads, wire
  <1>3. CASE UNCHANGED read
    BY <1>1, <1>3 DEF ReadBy
  <1>4. ASSUME NEW M \in SUBSET {m \in Msgs : u \in snap[m]},
               read' = [read EXCEPT ![u] = @ \union M]
        PROVE  Audience!Read(u)
    <2>1. ReadBy' = [ReadBy EXCEPT ![u] = @ \union M]
      BY <1>t, <1>4 DEF ReadBy, Others
    <2> QED
      BY <1>1, <1>4, <2>1 DEF Audience!Read, ReadBy
  <1> QED
    BY <1>2, <1>3, <1>4

\* Every step is one of the abstract specification, or none.
LEMMA StepRefines == IInv /\ [Next]_vars => [Audience!Next]_(Audience!vars)
  <1> SUFFICES ASSUME IInv, [Next]_vars
               PROVE  Audience!Next \/ UNCHANGED <<members, snap, ReadBy>>
    BY DEF Audience!vars, ReadBy
  <1>t. members \subseteq Users /\ snap \in [Msgs -> SUBSET Users] /\ TypeOK'
    BY TypeStep DEF IInv, TypeOK
  <1>1. ASSUME NEW u \in Users, ChangeMembers(u)
        PROVE  Audience!Next
    <2>1. members' \in SUBSET Users /\ UNCHANGED <<snap, ReadBy>>
      BY <1>1, <1>t DEF ChangeMembers, sending, device, ReadBy, TypeOK
    <2> QED
      BY <2>1 DEF Audience!Next, Audience!ChangeMembers, ReadBy
  <1>2. ASSUME NEW m \in Msgs, Fetch(m)
        PROVE  Audience!Next
    <2>1. snap[m] = {} /\ snap' = [snap EXCEPT ![m] = members] /\ UNCHANGED <<members, ReadBy>>
      BY <1>2 DEF Fetch, IInv, ListsRead, server, device, ReadBy
    <2> QED
      BY <2>1 DEF Audience!Next, Audience!Address, ReadBy
  <1>3. ASSUME NEW m \in Msgs,
               \/ EnsureInMemory(m) \/ StartLoad(m) \/ FinishLoad(m) \/ StartGive(m)
               \/ FinishGive(m) \/ Encrypt(m) \/ SendFails(m)
        PROVE  UNCHANGED <<members, snap, ReadBy>>
    BY <1>3 DEF EnsureInMemory, StartLoad, FinishLoad, StartGive, FinishGive, Encrypt,
           SendFails, server, device, ReadBy
  <1>4. ASSUME PutGroupOut \/ SocketCloses \/ SocketOpens \/ SenderReloads \/ UNCHANGED vars
        PROVE  UNCHANGED <<members, snap, ReadBy>>
    BY <1>4 DEF PutGroupOut, SocketCloses, SocketOpens, SenderReloads, vars, server, sending,
           device, ReadBy
  <1>5. ASSUME NEW u \in Others, DeviceWorks(u) \/ ReceiverReloads(u)
        PROVE  Audience!Next \/ UNCHANGED <<members, snap, ReadBy>>
    BY <1>5, DeviceReads DEF Audience!Next, Others
  <1> QED
    BY <1>1, <1>2, <1>3, <1>4, <1>5 DEF Next

\* Keys, ratchets, overlapping sends and reloads implement the promise: a
\* message is addressed once, to the members of that moment, and read only by
\* them.
THEOREM Refinement == Spec => ImplementsAudience
  <1>1. Init => Audience!Init
    BY DEF Init, Audience!Init, Others
  <1> QED
    BY <1>1, InitInvariant, Inductive, StepRefines, PTL
       DEF Spec, ImplementsAudience, Audience!Spec

(***************************************************************************)
(* Whoever is sent a message can read it.  A session is advanced only when *)
(* everybody on its list has been handed its key, so every key handed out  *)
(* opens the session from its first message on, also after a reload has    *)
(* gone back to an older row.                                              *)
(***************************************************************************)

HandedOut(r) == r.idx = 0 \/ r.sig \ {Me} \subseteq r.to

FromStart ==
  /\ \A x \in Msgs : HandedOut(ring[x])
  /\ \A r \in stored : HandedOut(r)
  /\ \A i \in 1..Len(puts) : HandedOut(puts[i])
  /\ \A m \in Msgs : \A g \in giving[m] : g.from = 0
  /\ \A u \in Others : \A k \in Reach(u) : k.from = 0

\* The sender's half of a step that changes neither sessions nor rows.
LEMMA FromStartIdle ==
  ASSUME IInv, FromStart, UNCHANGED <<ring, stored, puts>>,
         \A m \in Msgs : giving'[m] \subseteq giving[m],
         \A u \in Others : Reach(u)' \subseteq Reach(u)
  PROVE  FromStart'
  BY DEF FromStart, HandedOut

\* A receiver takes keys from what reached it.
LEMMA DeviceKeys ==
  ASSUME TypeOK, NEW u \in Others, DeviceWorks(u) \/ ReceiverReloads(u)
  PROVE  /\ \A v \in Others : Reach(v)' \subseteq Reach(v)
         /\ \A v \in Others \ reloaded' : \A k \in Reach(v) : \E j \in Reach(v)' : j.sid = k.sid
  <1>t. /\ keyWire \in [Others -> SUBSET Keys]
        /\ routing \in [Others -> SUBSET Keys]
        /\ known \in [Others -> SUBSET Keys] /\ saved \in [Others -> SUBSET Keys]
    BY DEF TypeOK
  <1>1. ASSUME NEW k \in keyWire[u], ReceiveKey(u, k)
        PROVE  \A v \in Others : Reach(v)' = Reach(v)
    BY <1>1, <1>t DEF ReceiveKey, Reach
  <1>2. ASSUME NEW k \in routing[u], RouteKey(u, k)
        PROVE  /\ \A v \in Others : Reach(v)' \subseteq Reach(v)
               /\ \A v \in Others : \A i \in Reach(v) : \E j \in Reach(v)' : j.sid = i.sid
    <2>1. UNCHANGED <<keyWire, saved>> /\ routing' = [routing EXCEPT ![u] = @ \ {k}]
      BY <1>2 DEF RouteKey, wire
    <2>2. CASE Knows(u, k.sid)
      <3>1. known' = known
        BY <1>2, <2>2 DEF RouteKey
      <3>2. \A v \in Others : /\ Reach(v)' \subseteq Reach(v)
                              /\ \A i \in Reach(v) : i \in Reach(v)' \/ (v = u /\ i = k)
        BY <1>t, <2>1, <3>1 DEF Reach
      <3>3. \E j \in Reach(u)' : j.sid = k.sid
        BY <2>2, <3>1 DEF Knows, Reach
      <3> QED
        BY <3>2, <3>3
    <2>3. CASE ~Knows(u, k.sid)
      <3>1. known' = [known EXCEPT ![u] = @ \union {k}]
        BY <1>2, <2>3 DEF RouteKey
      <3> QED
        BY <1>t, <2>1, <3>1 DEF Reach
    <2> QED
      BY <2>2, <2>3
  <1>3. ASSUME NEW s \in Msgs, SaveKey(u, s)
        PROVE  \A v \in Others : Reach(v)' = Reach(v)
    BY <1>3, <1>t DEF SaveKey, Reach, wire
  <1>4. ASSUME NEW s \in Msgs, FlushPending(u, s) \/ HandleGroupMessage(u, s)
        PROVE  \A v \in Others : Reach(v)' = Reach(v)
    BY <1>4 DEF FlushPending, HandleGroupMessage, Reach, wire
  <1>5. ASSUME ReceiverReloads(u)
        PROVE  /\ \A v \in Others : Reach(v)' \subseteq Reach(v)
               /\ \A v \in Others \ {u} : Reach(v)' = Reach(v)
               /\ u \in reloaded'
    BY <1>5, <1>t DEF ReceiverReloads, Reloads, Reach, wire
  <1> QED
    BY <1>1, <1>2, <1>3, <1>4, <1>5 DEF DeviceWorks, HandleGroupMessage

\* A step that touches no key.
LEMMA SameKeys ==
  ASSUME UNCHANGED <<keyWire, device>>
  PROVE  \A u \in Others : Reach(u)' = Reach(u)
  BY DEF device, Reach

\* Every step keeps the keys whole.
LEMMA FromStartStep == IInv /\ FromStart /\ [Next]_vars => FromStart'
  <1> SUFFICES ASSUME IInv, FromStart, [Next]_vars
               PROVE  FromStart'
    OBVIOUS
  <1>t. /\ stage \in [Msgs -> {"unsent", "listed", "loading", "ready", "sent", "failed"}]
        /\ ring \in [Msgs -> Rings] /\ via \in [Msgs -> Msgs] /\ puts \in Seq(Rings)
        /\ giving \in [Msgs -> SUBSET [to : Users, from : Nat]]
        /\ keyWire \in [Others -> SUBSET Keys] /\ cur \in Msgs \union {None}
    BY DEF IInv, TypeOK
  <1>n. \A m \in Msgs : \A S : HandedOut(New(m, S))
    BY DEF HandedOut, New
  <1>1. ASSUME \/ UNCHANGED vars \/ (\E u \in Users : ChangeMembers(u))
               \/ SocketCloses \/ SocketOpens \/ (\E m \in Msgs : Fetch(m))
        PROVE  FromStart'
    <2>1. UNCHANGED <<ring, stored, puts, giving, keyWire, device>>
      BY <1>1 DEF vars, ChangeMembers, SocketCloses, SocketOpens, Fetch, sending, disk, wire
    <2> QED
      BY <2>1, FromStartIdle, SameKeys
  <1>2. ASSUME NEW u \in Others, DeviceWorks(u) \/ ReceiverReloads(u)
        PROVE  FromStart'
    <2>1. UNCHANGED <<ring, stored, puts, giving>>
      BY <1>2 DEF DeviceWorks, ReceiveKey, RouteKey, SaveKey, FlushPending,
           HandleGroupMessage, ReceiverReloads, sending, disk
    <2> QED
      BY <1>2, <2>1, FromStartIdle, DeviceKeys DEF IInv
  <1>3. ASSUME NEW m \in Msgs, SendFails(m)
        PROVE  FromStart'
    <2>1. UNCHANGED <<ring, stored, puts, keyWire, device>> /\ giving' = [giving EXCEPT ![m] = {}]
      BY <1>3 DEF SendFails, disk, wire
    <2> QED
      BY <1>t, <2>1, FromStartIdle, SameKeys
  <1>4. ASSUME NEW m \in Msgs, EnsureInMemory(m) \/ StartLoad(m) \/ FinishLoad(m)
        PROVE  FromStart'
    <2>1. UNCHANGED <<stored, puts, giving, keyWire, device>>
      BY <1>4 DEF EnsureInMemory, StartLoad, FinishLoad, disk, wire
    <2>2. \/ UNCHANGED ring \/ ring' = [ring EXCEPT ![m] = New(m, snap[m])]
          \/ \E r \in stored : ring' = [ring EXCEPT ![m] = r]
      BY <1>4 DEF EnsureInMemory, StartLoad, FinishLoad
    <2>3. \A x \in Msgs : HandedOut(ring[x])'
      BY <1>n, <1>t, <2>2 DEF FromStart, HandedOut
    <2>4. \A u \in Others : Reach(u)' = Reach(u)
      BY <2>1, SameKeys
    <2> QED
      BY <2>1, <2>3, <2>4 DEF FromStart, HandedOut
  <1>5. ASSUME NEW m \in Msgs, StartGive(m)
        PROVE  FromStart'
    <2>1. UNCHANGED <<ring, stored, puts, keyWire, device>> /\ stage[m] = "ready"
      BY <1>5 DEF StartGive, disk, wire
    <2>2. PICK u \in Lacking(m) :
            giving' = [giving EXCEPT ![m] = {[to |-> u, from |-> ring[via[m]].idx]}]
      BY <1>5 DEF StartGive
    <2>3. ring[via[m]].idx = 0
      BY <1>t, <2>1, <2>2 DEF IInv, Sessions, FromStart, HandedOut, Lacking
    <2>4. \A n \in Msgs : \A g \in giving'[n] : g.from = 0
      BY <1>t, <2>2, <2>3 DEF FromStart
    <2>5. \A u1 \in Others : Reach(u1)' = Reach(u1)
      BY <2>1, SameKeys
    <2> QED
      BY <2>1, <2>4, <2>5 DEF FromStart, HandedOut
  <1>6. ASSUME NEW m \in Msgs, FinishGive(m)
        PROVE  FromStart'
    <2>1. /\ UNCHANGED <<stored, puts, device>>
          /\ giving' = [giving EXCEPT ![m] = {}]
      BY <1>6 DEF FinishGive, disk
    <2>2. PICK g \in giving[m] :
            /\ \/ UNCHANGED keyWire
               \/ keyWire' = [keyWire EXCEPT ![g.to] = @ \union {[sid |-> ring[via[m]].sid, from |-> g.from]}]
            /\ ring' = [ring EXCEPT ![via[m]].to = @ \union {g.to}]
      BY <1>6 DEF FinishGive, WriteKey
    <2>3. \A x \in Msgs : /\ ring'[x].idx = ring[x].idx /\ ring'[x].sig = ring[x].sig
                          /\ ring[x].to \subseteq ring'[x].to
      BY <1>t, <2>2 DEF Rings
    <2>4. \A x \in Msgs : HandedOut(ring[x])'
      BY <2>3 DEF FromStart, HandedOut
    <2> DEFINE key == [sid |-> ring[via[m]].sid, from |-> g.from]
    <2>5. key.from = 0
      BY <2>2 DEF FromStart
    <2>6. \A u \in Others : \A k \in Reach(u)' : k \in Reach(u) \/ k = key
      BY <1>t, <2>1, <2>2 DEF Reach, device
    <2> HIDE DEF key
    <2> QED
      BY <1>t, <2>1, <2>4, <2>5, <2>6 DEF FromStart, HandedOut
  <1>7. ASSUME NEW m \in Msgs, Encrypt(m)
        PROVE  FromStart'
    <2> DEFINE g == ring[via[m]]
               next == [g EXCEPT !.idx = @ + 1]
    <2>1. /\ stage[m] = "ready" /\ Lacking(m) = {}
          /\ ring' = [ring EXCEPT ![via[m]] = next]
          /\ puts' = Append(puts, next)
          /\ UNCHANGED <<stored, giving, keyWire, device>>
      BY <1>7 DEF Encrypt
    <2>2. g \in Rings /\ g.sig = snap[m]
      BY <1>t, <2>1 DEF IInv, Sessions
    <2>3. next \in Rings /\ next.sig = g.sig /\ next.to = g.to
      BY <2>2 DEF Rings
    <2>4. HandedOut(next)
      BY <2>1, <2>2, <2>3 DEF HandedOut, Lacking
    <2> HIDE DEF next
    <2>5. \A x \in Msgs : HandedOut(ring[x])'
      BY <1>t, <2>1, <2>4 DEF FromStart, HandedOut
    <2>6. \A i \in 1..Len(puts') : \/ i \in 1..Len(puts) /\ puts'[i] = puts[i]
                                   \/ puts'[i] = next
      BY <1>t, <2>1, <2>3
    <2>7. \A u \in Others : Reach(u)' = Reach(u)
      BY <2>1, SameKeys
    <2> QED
      BY <2>1, <2>4, <2>5, <2>6, <2>7 DEF FromStart, HandedOut
  <1>8. ASSUME PutGroupOut
        PROVE  FromStart'
    <2>1. /\ puts # <<>> /\ stored' = {Head(puts)} /\ puts' = Tail(puts)
          /\ UNCHANGED <<ring, giving, keyWire, device>>
      BY <1>8 DEF PutGroupOut, sending, wire
    <2>2. Head(puts) = puts[1] /\ 1 \in 1..Len(puts)
      BY <1>t, <2>1
    <2>3. \A i \in 1..Len(Tail(puts)) : Tail(puts)[i] = puts[i + 1] /\ i + 1 \in 1..Len(puts)
      BY <1>t, <2>1
    <2>4. \A u \in Others : Reach(u)' = Reach(u)
      BY <2>1, SameKeys
    <2> QED
      BY <2>1, <2>2, <2>3, <2>4 DEF FromStart, HandedOut
  <1>9. ASSUME SenderReloads
        PROVE  FromStart'
    <2>1. /\ ring' = [m \in Msgs |-> New(m, {})] /\ giving' = [m \in Msgs |-> {}]
          /\ puts' = <<>>
          /\ UNCHANGED <<stored, keyWire, device>>
      BY <1>9 DEF SenderReloads, wire
    <2>2. \A x \in Msgs : HandedOut(ring[x])'
      BY <2>1 DEF HandedOut, New
    <2>3. \A u \in Others : Reach(u)' = Reach(u)
      BY <2>1, SameKeys
    <2> QED
      BY <2>1, <2>2, <2>3 DEF FromStart, HandedOut
  <1> QED
    BY <1>1, <1>2, <1>3, <1>4, <1>5, <1>6, <1>7, <1>8, <1>9 DEF Next

HasKey(u, s) == \E k \in Reach(u) : k.sid = s

\* sendFrame was called with the key.
Given(u, s) == HasKey(u, s) \/ s \in keyLost[u]

\* deliveredTo, in memory and on disk, names only devices the key was given to.
Served(u) ==
  /\ \A x \in Msgs : u \in ring[x].to => Given(u, ring[x].sid)
  /\ \A r \in stored : u \in r.to => Given(u, r.sid)
  /\ \A i \in 1..Len(puts) : u \in puts[i].to => Given(u, puts[i].sid)

InReach(u, m) == m \in msgWire[u] \union pending[u] \union read[u]

\* sendFrame was called with the message.
Written(u, m) == InReach(u, m) \/ m \in msgLost[u]

Readable(u) ==
  \A m \in Sent : u \in snap[m] => Given(u, enc[m].sid) /\ Written(u, m)

Kept == \A u \in Others \ reloaded : Served(u) /\ Readable(u)

\* What a step does to u that loses neither keys nor messages of u.
Spares(u) ==
  /\ \A k \in Reach(u) : \E j \in Reach(u)' : j.sid = k.sid
  /\ \A m \in Msgs : InReach(u, m) => InReach(u, m)'
  /\ keyLost[u] \subseteq keyLost'[u] /\ msgLost[u] \subseteq msgLost'[u]

\* A step that changes neither sessions nor rows.
LEMMA ServedIdle ==
  ASSUME NEW u \in Others, Served(u), Spares(u), UNCHANGED <<ring, stored, puts>>
  PROVE  Served(u)'
  BY DEF Served, Given, HasKey, Spares

\* A step that sends nothing.
LEMMA ReadableIdle ==
  ASSUME TypeOK, NEW u \in Others, Readable(u), Spares(u), UNCHANGED enc,
         \A m \in Msgs : stage'[m] = "sent" => stage[m] = "sent" /\ snap'[m] = snap[m]
  PROVE  Readable(u)'
  <1>1. \A s : Given(u, s) => Given(u, s)'
    BY DEF Given, HasKey, Spares
  <1>2. \A m \in Msgs : Written(u, m) => Written(u, m)'
    BY DEF Written, Spares
  <1> QED
    BY <1>1, <1>2 DEF Readable, Sent

\* A device that stays up decrypts what it takes from its buffers or leaves it
\* there until the key is imported.
LEMMA DeviceSpares ==
  ASSUME IInv, FromStart, NEW u \in Others, DeviceWorks(u) \/ ReceiverReloads(u),
         NEW v \in Others \ reloaded', Readable(v)
  PROVE  Spares(v)
  <1>t. /\ msgWire \in [Others -> SUBSET Msgs] /\ pending \in [Others -> SUBSET Msgs]
        /\ read \in [Others -> SUBSET Msgs]
        /\ enc \in [Msgs -> [sid : Msgs, idx : Nat]]
        /\ known \in [Others -> SUBSET Keys]
        /\ \A s \in flushing[u] : \E k \in known[u] : k.sid = s
    BY DEF IInv, TypeOK
  <1>k. \A k \in known[u] : k.from = 0 /\ k.from \in Nat
    BY DEF FromStart, Reach
  <1>o. \A m \in Msgs : Knows(u, enc[m].sid) => Opens(u, m)
    <2>1. ASSUME NEW m \in Msgs, Knows(u, enc[m].sid)
          PROVE  Opens(u, m)
      <3>1. enc[m].idx \in Nat
        BY <1>t
      <3>2. PICK k \in known[u] : k.sid = enc[m].sid
        BY <2>1 DEF Knows
      <3>3. k.from <= enc[m].idx
        BY <1>k, <3>1, <3>2
      <3> QED
        BY <3>2, <3>3 DEF Opens
    <2> QED
      BY <2>1
  <1>1. ASSUME NEW m \in Msgs, InReach(v, m)
        PROVE  InReach(v, m)'
    <2>1. ASSUME NEW s \in Msgs, FlushPending(u, s)
          PROVE  InReach(v, m)'
      <3>1. /\ s \in flushing[u] /\ UNCHANGED msgWire
            /\ pending' = [pending EXCEPT ![u] = @ \ {n \in pending[u] : enc[n].sid = s}]
        BY <2>1 DEF FlushPending, wire
      <3>o. \A n \in pending[u] : enc[n].sid = s => Opens(u, n)
        BY <1>o, <1>t, <3>1 DEF Knows
      <3>r. read' = [read EXCEPT ![u] = @ \union {n \in pending[u] : enc[n].sid = s}]
        <4> DEFINE queue == {n \in pending[u] : enc[n].sid = s}
                   good == {n \in queue : Opens(u, n)}
        <4>1. good = queue
          BY <3>o
        <4>2. PICK done \in SUBSET good : /\ good = queue => done = queue
                                         /\ read' = [read EXCEPT ![u] = @ \union done]
          BY <2>1 DEF FlushPending
        <4> QED
          BY <4>1, <4>2
      <3>2. CASE v = u /\ m \in pending[u] /\ enc[m].sid = s
        BY <1>t, <3>r, <3>2 DEF InReach
      <3>3. CASE ~(v = u /\ m \in pending[u] /\ enc[m].sid = s)
        BY <1>1, <1>t, <3>1, <3>r, <3>3 DEF InReach
      <3> QED
        BY <3>2, <3>3
    <2>2. ASSUME NEW n \in Msgs, HandleGroupMessage(u, n)
          PROVE  InReach(v, m)'
      <3>1. /\ msgWire' = [msgWire EXCEPT ![u] = @ \ {n}]
            /\ Knows(u, enc[n].sid) => pending' = pending /\ read' = [read EXCEPT ![u] = @ \union {n}]
            /\ ~Knows(u, enc[n].sid) => /\ pending' = [pending EXCEPT ![u] = @ \union {n}]
                                        /\ read' = read \/ read' = [read EXCEPT ![u] = @ \union {n}]
        BY <1>o, <2>2 DEF HandleGroupMessage
      <3>2. CASE v = u
        BY <1>1, <1>t, <3>1, <3>2 DEF InReach
      <3>3. CASE v # u
        BY <1>1, <1>t, <3>1, <3>3 DEF InReach
      <3> QED
        BY <3>2, <3>3
    <2>3. ASSUME \/ \E k \in keyWire[u] : ReceiveKey(u, k)
                 \/ \E k \in routing[u] : RouteKey(u, k)
                 \/ \E s \in Msgs : SaveKey(u, s)
          PROVE  InReach(v, m)'
      BY <1>1, <2>3 DEF ReceiveKey, RouteKey, SaveKey, InReach, wire
    <2>4. ASSUME ReceiverReloads(u)
          PROVE  InReach(v, m)'
      <3>1. v # u
        BY <2>4 DEF ReceiverReloads, Reloads
      <3> QED
        BY <1>1, <1>t, <2>4, <3>1 DEF ReceiverReloads, InReach, wire
    <2> QED
      BY <2>1, <2>2, <2>3, <2>4 DEF DeviceWorks
  <1>2. \A k \in Reach(v) : \E j \in Reach(v)' : j.sid = k.sid
    BY DeviceKeys DEF IInv
  <1>3. UNCHANGED lost
    BY DEF DeviceWorks, ReceiveKey, RouteKey, SaveKey, FlushPending, HandleGroupMessage,
           ReceiverReloads, history
  <1> QED
    BY <1>1, <1>2, <1>3 DEF Spares, lost

\* Every step keeps what was sent readable.
LEMMA KeptStep == IInv /\ FromStart /\ Kept /\ [Next]_vars => Kept'
  <1> SUFFICES ASSUME IInv, FromStart, Kept, [Next]_vars,
                      NEW u \in Others \ reloaded'
               PROVE  Served(u)' /\ Readable(u)'
    BY DEF Kept
  <1>t. /\ stage \in [Msgs -> {"unsent", "listed", "loading", "ready", "sent", "failed"}]
        /\ ring \in [Msgs -> Rings] /\ via \in [Msgs -> Msgs] /\ puts \in Seq(Rings)
        /\ giving \in [Msgs -> SUBSET [to : Users, from : Nat]]
        /\ keyWire \in [Others -> SUBSET Keys] /\ keyLost \in [Others -> SUBSET Msgs]
        /\ enc \in [Msgs -> [sid : Msgs, idx : Nat]]
        /\ msgWire \in [Others -> SUBSET Msgs] /\ msgLost \in [Others -> SUBSET Msgs]
    BY DEF IInv, TypeOK
  <1>r. reloaded \subseteq reloaded'
    BY DEF Next, vars, ChangeMembers, Fetch, EnsureInMemory, StartLoad, FinishLoad, StartGive,
           FinishGive, Encrypt, SendFails, PutGroupOut, SocketCloses, SocketOpens, SenderReloads,
           Reloads, DeviceWorks, ReceiveKey, RouteKey, SaveKey, FlushPending, HandleGroupMessage,
           ReceiverReloads, history
  <1>3. Served(u) /\ Readable(u)
    BY <1>r DEF Kept
  <1>n. \A m \in Msgs : \A S : New(m, S).to = {}
    BY DEF New
  <1>s. ASSUME UNCHANGED <<keyWire, msgWire, device, lost>>
        PROVE  Spares(u)
    BY <1>s DEF Spares, Reach, InReach, device, lost
  <1>g. ASSUME Spares(u)
        PROVE  \A s : Given(u, s) => Given(u, s)'
    BY <1>g DEF Given, HasKey, Spares
  <1> USE DEF history
  <1>4. ASSUME \/ UNCHANGED vars \/ (\E v \in Users : ChangeMembers(v))
               \/ SocketCloses \/ SocketOpens
        PROVE  Served(u)' /\ Readable(u)'
    <2>1. UNCHANGED <<ring, stored, puts, enc, stage, snap, keyWire, msgWire, device, lost>>
      BY <1>4 DEF vars, ChangeMembers, SocketCloses, SocketOpens, sending, disk, wire
    <2> QED
      BY <1>3, <1>s, <2>1, ServedIdle, ReadableIdle DEF IInv
  <1>5. ASSUME NEW v \in Others, DeviceWorks(v) \/ ReceiverReloads(v)
        PROVE  Served(u)' /\ Readable(u)'
    <2>1. UNCHANGED <<ring, stored, puts, enc, stage, snap>>
      BY <1>5 DEF DeviceWorks, ReceiveKey, RouteKey, SaveKey, FlushPending,
           HandleGroupMessage, ReceiverReloads, sending, disk
    <2> QED
      BY <1>3, <1>5, <2>1, DeviceSpares, ServedIdle, ReadableIdle DEF IInv
  <1>6. ASSUME NEW m \in Msgs, Fetch(m) \/ SendFails(m) \/ StartGive(m)
        PROVE  Served(u)' /\ Readable(u)'
    <2>1. UNCHANGED <<ring, stored, puts, enc, keyWire, msgWire, device, lost>>
      BY <1>6 DEF Fetch, SendFails, StartGive, disk, wire
    <2>2. \A n \in Msgs : stage'[n] = "sent" => stage[n] = "sent" /\ snap'[n] = snap[n]
      BY <1>6, <1>t DEF Fetch, SendFails, StartGive, IInv, TypeOK
    <2> QED
      BY <1>3, <1>s, <2>1, <2>2, ServedIdle, ReadableIdle DEF IInv
  <1>7. ASSUME NEW m \in Msgs, EnsureInMemory(m) \/ StartLoad(m) \/ FinishLoad(m)
        PROVE  Served(u)' /\ Readable(u)'
    <2>1. UNCHANGED <<stored, puts, enc, snap, keyWire, msgWire, device, lost>>
      BY <1>7 DEF EnsureInMemory, StartLoad, FinishLoad, disk, wire
    <2>2. \/ UNCHANGED ring \/ ring' = [ring EXCEPT ![m] = New(m, snap[m])]
          \/ \E r \in stored : ring' = [ring EXCEPT ![m] = r]
      BY <1>7 DEF EnsureInMemory, StartLoad, FinishLoad
    <2>3. \A n \in Msgs : stage'[n] = "sent" => stage[n] = "sent"
      BY <1>7, <1>t DEF EnsureInMemory, StartLoad, FinishLoad
    <2>4. Readable(u)'
      BY <1>3, <1>s, <2>1, <2>3, ReadableIdle DEF IInv
    <2>5. \A s : Given(u, s) => Given(u, s)'
      BY <1>g, <1>s, <2>1
    <2>6. \A x \in Msgs : u \in ring'[x].to => Given(u, ring'[x].sid)
      BY <1>3, <1>n, <1>t, <2>2 DEF Served
    <2>7. Served(u)'
      BY <1>3, <2>1, <2>5, <2>6 DEF Served
    <2> QED
      BY <2>4, <2>7
  <1>8. ASSUME NEW m \in Msgs, FinishGive(m)
        PROVE  Served(u)' /\ Readable(u)'
    <2> DEFINE s == ring[via[m]].sid
    <2>1. UNCHANGED <<stage, snap, enc, stored, puts, msgWire, msgLost, device>>
      BY <1>8 DEF FinishGive, disk
    <2>2. PICK g \in giving[m] :
            /\ WriteKey(g.to, [sid |-> s, from |-> g.from])
            /\ ring' = [ring EXCEPT ![via[m]].to = @ \union {g.to}]
      BY <1>8 DEF FinishGive
    <2> DEFINE key == [sid |-> s, from |-> g.from]
    <2>k. key.sid = s
      OBVIOUS
    <2>w. \/ keyWire' = [keyWire EXCEPT ![g.to] = @ \union {key}] /\ keyLost' = keyLost
          \/ keyLost' = [keyLost EXCEPT ![g.to] = @ \union {key.sid}] /\ keyWire' = keyWire
      BY <2>2 DEF WriteKey
    <2> HIDE DEF key, s
    <2>3. Spares(u)
      <3>1. keyWire[u] \subseteq keyWire'[u] /\ keyLost[u] \subseteq keyLost'[u]
        BY <1>t, <2>w
      <3> QED
        BY <2>1, <3>1 DEF Spares, Reach, InReach, device
    <2>4. Readable(u)'
      BY <1>3, <2>1, <2>3, ReadableIdle DEF IInv
    <2>5. \A z : u = g.to /\ z = s => Given(u, z)'
      <3>1. u = g.to => key \in keyWire'[u] \/ key.sid \in keyLost'[u]
        BY <1>t, <2>w
      <3> QED
        BY <2>k, <3>1 DEF Given, HasKey, Reach
    <2>6. \A x : Given(u, x) => Given(u, x)'
      BY <1>g, <2>3
    <2>7. \A x \in Msgs : /\ ring'[x].sid = ring[x].sid
                          /\ u \in ring'[x].to => u \in ring[x].to \/ (x = via[m] /\ u = g.to)
      BY <1>t, <2>2 DEF Rings
    <2>8. ASSUME NEW x \in Msgs, u \in ring'[x].to
          PROVE  \A z : z = ring'[x].sid => Given(u, z)'
      BY <1>3, <2>5, <2>6, <2>7, <2>8 DEF Served, s
    <2>9. /\ \A r \in stored : u \in r.to => Given(u, r.sid)'
          /\ \A i \in 1..Len(puts) : u \in puts[i].to => Given(u, puts[i].sid)'
      BY <1>3, <2>1, <2>6 DEF Served
    <2>10. Served(u)'
      BY <2>1, <2>8, <2>9 DEF Served
    <2> QED
      BY <2>4, <2>10
  <1>9. ASSUME NEW m \in Msgs, Encrypt(m)
        PROVE  Served(u)' /\ Readable(u)'
    <2> DEFINE g == ring[via[m]]
               next == [g EXCEPT !.idx = @ + 1]
    <2>1. /\ stage[m] = "ready" /\ Lacking(m) = {}
          /\ stage' = [stage EXCEPT ![m] = "sent"]
          /\ enc' = [enc EXCEPT ![m] = [sid |-> g.sid, idx |-> g.idx]]
          /\ ring' = [ring EXCEPT ![via[m]] = next]
          /\ puts' = Append(puts, next)
          /\ WriteMessage(m)
          /\ UNCHANGED <<snap, stored, keyWire, keyLost, device>>
      BY <1>9 DEF Encrypt
    <2>2. /\ \A n \in Msgs : n \in msgWire[u] => n \in msgWire'[u]
          /\ msgLost[u] \subseteq msgLost'[u]
          /\ u \in snap[m] => m \in msgWire'[u] \/ m \in msgLost'[u]
      BY <1>t, <2>1 DEF WriteMessage
    <2>g. g \in Rings
      BY <1>t
    <2>3. next \in Rings /\ next.sid = g.sid /\ next.to = g.to
      BY <2>g DEF Rings
    <2> HIDE DEF next
    <2>4. Spares(u)
      BY <2>1, <2>2 DEF Spares, Reach, InReach, device
    <2>5. \A x \in Msgs : ring'[x].sid = ring[x].sid /\ ring'[x].to = ring[x].to
      BY <1>t, <2>1, <2>3
    <2>6. u \in next.to => Given(u, next.sid)
      BY <1>3, <1>t, <2>3 DEF Served
    <2>7. \A i \in 1..Len(puts') : \/ i \in 1..Len(puts) /\ puts'[i] = puts[i]
                                   \/ puts'[i] = next
      BY <1>t, <2>1, <2>3
    <2>x. \A x : Given(u, x) => Given(u, x)'
      BY <1>g, <2>4
    <2>8. Served(u)'
      BY <1>3, <2>1, <2>5, <2>6, <2>7, <2>x DEF Served
    <2>9. u \in snap[m] => Given(u, g.sid)
      <3>1. u \in snap[m] => u \in g.to
        BY <2>1 DEF Lacking, Others
      <3> QED
        BY <1>3, <1>t, <3>1 DEF Served
    <2>10. \A n \in Msgs : Written(u, n) => Written(u, n)'
      BY <2>4 DEF Written, Spares
    <2>11. ASSUME NEW n \in Sent', u \in snap'[n]
           PROVE  Written(u, n)' /\ \A s : s = enc'[n].sid => Given(u, s)'
      <3>1. n \in Msgs
        BY DEF Sent
      <3>2. CASE n = m
        <4>1. enc'[m].sid = g.sid
          BY <1>t, <2>1
        <4>2. Written(u, m)'
          BY <2>1, <2>2, <2>11, <3>2 DEF Written, InReach
        <4> QED
          BY <2>1, <2>9, <2>11, <2>x, <3>2, <4>1, <4>2
      <3>3. CASE n # m
        <4>1. n \in Sent /\ enc'[n] = enc[n] /\ u \in snap[n]
          BY <1>t, <2>1, <2>11, <3>1, <3>3 DEF Sent
        <4>2. Written(u, n) /\ Given(u, enc[n].sid)
          BY <1>3, <4>1 DEF Readable
        <4> QED
          BY <2>10, <2>x, <3>1, <4>1, <4>2
      <3> QED
        BY <3>2, <3>3
    <2>12. Readable(u)'
      BY <2>11 DEF Readable
    <2> QED
      BY <2>8, <2>12
  <1>10. ASSUME PutGroupOut
         PROVE  Served(u)' /\ Readable(u)'
    <2>1. /\ puts # <<>> /\ stored' = {Head(puts)} /\ puts' = Tail(puts)
          /\ UNCHANGED <<stage, snap, enc, ring, keyWire, msgWire, device, lost>>
      BY <1>10 DEF PutGroupOut, sending, wire
    <2>2. Head(puts) = puts[1] /\ 1 \in 1..Len(puts)
      BY <1>t, <2>1
    <2>3. \A i \in 1..Len(Tail(puts)) : Tail(puts)[i] = puts[i + 1] /\ i + 1 \in 1..Len(puts)
      BY <1>t, <2>1
    <2>4. Readable(u)'
      BY <1>3, <1>s, <2>1, ReadableIdle DEF IInv
    <2>5. \A x : Given(u, x) => Given(u, x)'
      BY <1>g, <1>s, <2>1
    <2>6. Served(u)'
      BY <1>3, <2>1, <2>2, <2>3, <2>5 DEF Served
    <2> QED
      BY <2>4, <2>6
  <1>11. ASSUME SenderReloads
         PROVE  Served(u)' /\ Readable(u)'
    <2>1. /\ ring' = [m \in Msgs |-> New(m, {})]
          /\ puts' = <<>>
          /\ UNCHANGED <<snap, enc, stored, keyWire, msgWire, device, lost>>
          /\ \A m \in Msgs : stage'[m] = "sent" => stage[m] = "sent"
      BY <1>11 DEF SenderReloads, wire
    <2>2. Readable(u)'
      BY <1>3, <1>s, <2>1, ReadableIdle DEF IInv
    <2>3. \A x : Given(u, x) => Given(u, x)'
      BY <1>g, <1>s, <2>1
    <2>4. \A x \in Msgs : ring'[x].to = {}
      BY <1>n, <2>1
    <2>5. Served(u)'
      BY <1>3, <2>1, <2>3, <2>4 DEF Served
    <2> QED
      BY <2>2, <2>5
  <1> QED
    BY <1>4, <1>5, <1>6, <1>7, <1>8, <1>9, <1>10, <1>11 DEF Next

\* Whatever drops, reloads of the sender, overlapping sends and changes of the
\* group there are: a device that was not reloaded has every message sent to it,
\* or has it and a key that opens it in reach, unless sendFrame has dropped that
\* very message or the key of its session.
THEOREM Reading == Spec => []NoneUnreadable
  <1>1. Init => FromStart /\ Kept
    BY DEF Init, FromStart, HandedOut, Kept, Served, Readable, Sent, New, Reach
  <1>2. IInv /\ FromStart /\ Kept => NoneUnreadable
    <2> SUFFICES ASSUME IInv, FromStart, Kept,
                        NEW m \in Sent, NEW u \in snap[m] \ (reloaded \union {Me}),
                        m \notin read[u], ~Dropped(u, m)
                 PROVE  /\ m \in msgWire[u] \union pending[u]
                        /\ \E k \in Reach(u) : k.sid = enc[m].sid
                        /\ \A k \in Reach(u) : k.sid = enc[m].sid => k.from <= enc[m].idx
      BY DEF NoneUnreadable
    <2>1. u \in Others \ reloaded /\ enc[m].idx \in Nat
      BY DEF Sent, IInv, TypeOK, Others
    <2>2. Readable(u)
      BY <2>1 DEF Kept
    <2>3. \A k \in Reach(u) : k.from = 0
      BY <2>1 DEF FromStart
    <2>4. HasKey(u, enc[m].sid) /\ InReach(u, m)
      BY <2>2 DEF Readable, Given, Written, Dropped
    <2> QED
      BY <2>1, <2>3, <2>4 DEF InReach, HasKey
  <1> QED
    BY <1>1, <1>2, InitInvariant, Inductive, FromStartStep, KeptStep, PTL DEF Spec
=============================================================================

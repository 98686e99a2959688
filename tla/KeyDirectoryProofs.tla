------------------------- MODULE KeyDirectoryProofs -------------------------
(***************************************************************************)
(* Theorems about KeyDirectory: its type invariant, that no two peers ever *)
(* build on the same one-time key, that the directory hands out no key     *)
(* whose private half the device has lost without having orphaned it, that *)
(* keys are orphaned only by a crash in one of two windows and by a batch  *)
(* the account has no room for, and that every session a peer uses can be  *)
(* read by the device otherwise.                                           *)
(***************************************************************************)
EXTENDS KeyDirectory, FiniteSetTheorems, TLAPS

\* Generated keys are keys, numbered from the account's counter on.
LEMMA FreshKeys ==
  ASSUME NEW n \in Nat, NEW c \in Nat, NEW l \in Nat
  PROVE  /\ Fresh(n, c, l) \subseteq Keys
         /\ \A k \in Fresh(n, c, l) : k.life = l /\ n <= k.id /\ k.id < n + c
  BY DEF Fresh, Keys

\* As many as were asked for.
LEMMA FreshCount ==
  ASSUME NEW n \in Nat, NEW c \in Nat, NEW l \in Nat
  PROVE  IsFiniteSet(Fresh(n, c, l)) /\ Cardinality(Fresh(n, c, l)) <= c
  <1> DEFINE ids == n..(n + c - 1)
             f == [i \in ids |-> [id |-> i, life |-> l]]
  <1>1. IsFiniteSet(ids) /\ Cardinality(ids) <= c
    <2>1. n \in Int /\ n + c - 1 \in Int
      OBVIOUS
    <2>2. /\ IsFiniteSet(ids)
          /\ Cardinality(ids) = IF n > n + c - 1 THEN 0 ELSE (n + c - 1) - n + 1
      BY <2>1, FS_Interval
    <2> QED
      BY <2>2
  <1>2. f \in Surjection(ids, Fresh(n, c, l))
    <2>1. f \in [ids -> Fresh(n, c, l)]
      BY DEF Fresh
    <2>2. ASSUME NEW k \in Fresh(n, c, l)
          PROVE  \E i \in ids : f[i] = k
      BY DEF Fresh
    <2> QED
      BY <2>1, <2>2 DEF Surjection
  <1>3. IsFiniteSet(Fresh(n, c, l)) /\ Cardinality(Fresh(n, c, l)) <= Cardinality(ids)
    BY <1>1, <1>2, FS_Surjection
  <1>4. Cardinality(ids) \in Nat /\ Cardinality(Fresh(n, c, l)) \in Nat
    BY <1>1, <1>3, FS_CardinalityType
  <1> QED
    BY <1>1, <1>3, <1>4

\* An account keeps what it can, and all of it if there is room.
LEMMA NewestKept ==
  ASSUME NEW keys
  PROVE  /\ Newest(keys) \subseteq keys
         /\ IsFiniteSet(keys) /\ Cardinality(keys) <= Limit => Newest(keys) = keys
  <1>1. ASSUME IsFiniteSet(keys), Cardinality(keys) <= Limit, NEW k \in keys
        PROVE  Cardinality({j \in keys : j.id >= k.id}) <= Limit
    <2> DEFINE S == {j \in keys : j.id >= k.id}
    <2>1. S \in SUBSET keys
      OBVIOUS
    <2>2. /\ IsFiniteSet(S) /\ Cardinality(S) <= Cardinality(keys)
          /\ Cardinality(S) \in Nat /\ Cardinality(keys) \in Nat
      BY <1>1, <2>1, FS_Subset, FS_CardinalityType
    <2> QED
      BY <1>1, <2>2, KeyAssumption
  <1> QED
    BY <1>1 DEF Newest

\* The two keys that are not in the directory are keys as well.
LEMMA Markers == Fallback \in Keys /\ Own \in Keys
  BY DEF Fallback, Own, Keys

\* A fresh device and its directory are well typed.
LEMMA InitType == Init => TypeOK
  <1> SUFFICES ASSUME Init
               PROVE  TypeOK
    OBVIOUS
  <1>1. Fresh(1, Initial, 0) \subseteq Keys
    BY KeyAssumption, FreshKeys
  <1>2. [priv |-> Fresh(1, Initial, 0), next |-> Initial + 1] \in Accounts
    BY <1>1, KeyAssumption DEF Accounts
  <1> QED
    BY <1>1, <1>2, BoundAssumption DEF Init, TypeOK

\* The sessions a peer has opened with the device, wherever they have got to.
Opened(p) ==
  (plist[p] \union {m.sess : m \in inbox[p]} \union outbox[p] \union list[p] \union listKept[p])
    \ {Own}

\* A peer opens one session; a handler at work has put it into the list.
OneOpened ==
  \A p \in Peers :
    /\ \A s, t \in Opened(p) : s = t
    /\ pcur[p] = None => Opened(p) = {}
    /\ \A m \in inbox[p] : m.type = 0 => m.sess # Own
    /\ task[p] # "idle" => list[p] \ {Own} # {}

\* Every step keeps the types.
LEMMA TypeStep == TypeOK /\ OneOpened /\ [Next]_vars => TypeOK'
  <1> SUFFICES ASSUME TypeOK, OneOpened, [Next]_vars
               PROVE  TypeOK'
    OBVIOUS
  <1> USE DEF TypeOK
  <1>1. CASE UNCHANGED vars
    BY <1>1 DEF vars, directory, peer, wire, memory, disk, handler, history
  <1>2. ASSUME NEW p \in Peers, PeerClaims(p)
        PROVE  TypeOK'
    <2>1. UNCHANGED <<rows, plist, pcur, replied, wire, memory, disk, handler, history>>
      BY <1>2 DEF PeerClaims
    <2>2. /\ sends < MaxSends /\ sends' = sends + 1
          /\ (\E k \in Unclaimed : Claim(p, k)) \/ ClaimFallback(p)
      BY <1>2 DEF PeerClaims
    <2>3. claimed' \subseteq rows /\ bundle' \in [Peers -> SUBSET Keys]
      BY <2>2, Markers DEF Claim, ClaimFallback, Unclaimed
    <2>4. sends' \in 0..MaxSends
      BY <2>2, BoundAssumption
    <2> QED
      BY <2>1, <2>3, <2>4 DEF wire, memory, disk, handler, history
  <1>3. ASSUME NEW p \in Peers, PeerSends(p)
        PROVE  TypeOK'
    <2>1. PICK k \in bundle[p] :
            LET s == IF pcur[p] = None THEN k ELSE pcur[p]
                type == IF s # Own /\ p \notin replied THEN 0 ELSE 1
            IN
            /\ bundle' = [bundle EXCEPT ![p] = {}]
            /\ plist' = [plist EXCEPT ![p] = @ \union {s}]
            /\ pcur' = [pcur EXCEPT ![p] = s]
            /\ inbox' = [inbox EXCEPT ![p] = @ \union {[sess |-> s, type |-> type]}]
            /\ UNCHANGED <<directory, replied, sends, outbox, memory, disk, handler, history>>
      BY <1>3 DEF PeerSends
    <2> DEFINE s == IF pcur[p] = None THEN k ELSE pcur[p]
               type == IF s # Own /\ p \notin replied THEN 0 ELSE 1
               m == [sess |-> s, type |-> type]
    <2>2. s \in Keys
      OBVIOUS
    <2>3. m \in Messages
      BY <2>2 DEF Messages
    <2>4. /\ bundle' = [bundle EXCEPT ![p] = {}]
          /\ plist' = [plist EXCEPT ![p] = @ \union {s}]
          /\ pcur' = [pcur EXCEPT ![p] = s]
          /\ inbox' = [inbox EXCEPT ![p] = @ \union {m}]
          /\ UNCHANGED <<directory, replied, sends, outbox, memory, disk, handler, history>>
      BY <2>1
    <2> HIDE DEF s, m
    <2> QED
      BY <2>2, <2>3, <2>4 DEF directory, memory, disk, handler, history
  <1>4. ASSUME NEW p \in Peers, NEW s \in outbox[p], PeerReceives(p, s)
        PROVE  TypeOK'
    BY <1>4 DEF PeerReceives, directory, memory, disk, handler, history
  <1>5. ASSUME NEW p \in Peers, NEW m \in inbox[p], HandleIncoming(p, m)
        PROVE  TypeOK'
    <2>1. m.sess \in Keys
      BY DEF Messages
    <2>2. [account EXCEPT !.priv = @ \ {m.sess}] \in Accounts
      BY DEF Accounts
    <2>3. /\ inbox' = [inbox EXCEPT ![p] = @ \ {m}]
          /\ UNCHANGED <<directory, peer, outbox, kept, batch, orphans, crashes>>
      BY <1>5 DEF HandleIncoming
    <2>4. CASE MatchesInbound(p, m)
      <3>1. /\ listKept' = [listKept EXCEPT ![p] = list[p]]
            /\ curKept' = [curKept EXCEPT ![p] = cur[p]]
            /\ exposed' = exposed \ {p}
            /\ UNCHANGED <<memory, task>>
        BY <1>5, <2>4 DEF HandleIncoming
      <3>2. \A q \in Peers : curKept'[q] \in listKept'[q] \union {None}
        BY <3>1
      <3> QED
        BY <2>3, <3>1, <3>2 DEF directory, peer, memory
    <2>5. CASE ~MatchesInbound(p, m) /\ HasKey(m)
      <3>1. /\ account' = [account EXCEPT !.priv = @ \ {m.sess}]
            /\ list' = [list EXCEPT ![p] = @ \union {m.sess}]
            /\ cur' = [cur EXCEPT ![p] = m.sess]
            /\ task' = [task EXCEPT ![p] = "sessions"]
            /\ UNCHANGED <<listKept, curKept, exposed>>
        BY <1>5, <2>5 DEF HandleIncoming
      <3>2. task[p] = "idle"
        BY <1>5, <2>5 DEF OneOpened, Opened, MatchesInbound, HasKey
      <3> QED
        BY <2>1, <2>2, <2>3, <3>1, <3>2 DEF directory, peer
    <2>6. CASE ~MatchesInbound(p, m) /\ ~HasKey(m)
      BY <1>5, <2>3, <2>6 DEF HandleIncoming, directory, peer, memory
    <2> QED
      BY <2>4, <2>5, <2>6
  <1>6. ASSUME NEW p \in Peers, SaveSessions(p)
        PROVE  TypeOK'
    <2>1. /\ task[p] = "sessions" /\ task' = [task EXCEPT ![p] = "account"]
          /\ listKept' = [listKept EXCEPT ![p] = list[p]]
          /\ curKept' = [curKept EXCEPT ![p] = cur[p]]
          /\ exposed' = exposed \ {p}
          /\ UNCHANGED <<rows, claimed, peer, inbox, outbox, account, list, cur, kept, batch, orphans, crashes>>
      BY <1>6 DEF SaveSessions, directory, wire, memory
    <2>2. \A q \in Peers : curKept'[q] \in listKept'[q] \union {None}
      BY <2>1
    <2> QED
      BY <2>1, <2>2 DEF peer
  <1>7. ASSUME NEW p \in Peers, SaveAccount(p)
        PROVE  TypeOK'
    <2> DEFINE new == Fresh(account.next, Batch, crashes)
    <2>1. account.next \in Nat /\ account.priv \subseteq Keys /\ crashes \in Nat
      BY BoundAssumption DEF Accounts
    <2>2. new \subseteq Keys
      BY <2>1, KeyAssumption, FreshKeys
    <2>3. /\ account' = [priv |-> Newest(account.priv \union new), next |-> account.next + Batch]
          /\ orphans' \subseteq orphans \union account.priv \union new
      BY <1>7 DEF SaveAccount
    <2> HIDE DEF new
    <2>4. account' \in Accounts /\ orphans' \subseteq Keys
      BY <2>1, <2>2, <2>3, KeyAssumption, NewestKept DEF Accounts
    <2>5. /\ kept' = account
          /\ exposed' \subseteq Peers
          /\ batch' = [batch EXCEPT ![p] = new]
          /\ task' = [task EXCEPT ![p] = "upload"]
          /\ UNCHANGED <<directory, peer, wire, list, cur, listKept, curKept, crashes>>
      BY <1>7 DEF SaveAccount, KeepAccount, new
    <2> QED
      BY <2>2, <2>4, <2>5 DEF directory, peer, wire
  <1>8. ASSUME NEW p \in Peers, Replenish(p)
        PROVE  TypeOK'
    <2>1. Inserted(batch[p]) \subseteq Keys /\ rows \subseteq Inserted(batch[p])
      BY DEF Inserted
    <2> QED
      BY <1>8, <2>1 DEF Replenish, peer, wire, memory, disk, history
  <1>9. ASSUME NEW p \in Peers, SaveAgain(p)
        PROVE  TypeOK'
    BY <1>9 DEF SaveAgain, KeepAccount, directory, peer, wire, memory
  <1>10. ASSUME NEW p \in Peers, DeviceSends(p)
         PROVE  TypeOK'
    <2> DEFINE s == IF cur[p] = None THEN Own ELSE cur[p]
    <2>1. s \in Keys
      BY Markers
    <2>2. /\ list' = [list EXCEPT ![p] = @ \union {s}]
          /\ cur' = [cur EXCEPT ![p] = s]
          /\ listKept' = [listKept EXCEPT ![p] = list'[p]]
          /\ curKept' = [curKept EXCEPT ![p] = s]
          /\ outbox' = [outbox EXCEPT ![p] = @ \union {s}]
          /\ UNCHANGED <<directory, peer, inbox, account, kept, handler, history>>
      BY <1>10 DEF DeviceSends
    <2>3. listKept' = [listKept EXCEPT ![p] = list[p] \union {s}]
      BY <2>2
    <2> HIDE DEF s
    <2>4. \A q \in Peers : /\ cur'[q] \in list'[q] \union {None}
                           /\ curKept'[q] \in listKept'[q] \union {None}
      BY <2>2, <2>3
    <2>5. /\ list' \in [Peers -> SUBSET Keys] /\ listKept' \in [Peers -> SUBSET Keys]
          /\ outbox' \in [Peers -> SUBSET Keys]
      BY <2>1, <2>2, <2>3
    <2> QED
      BY <2>2, <2>4, <2>5 DEF directory, peer, handler, history
  <1>11. ASSUME Crash
         PROVE  TypeOK'
    BY <1>11, BoundAssumption DEF Crash, directory, peer, wire, disk
  <1> QED
    BY <1>1, <1>2, <1>3, <1>4, <1>5, <1>6, <1>7, <1>8, <1>9, <1>10, <1>11 DEF Next

\* Only a message of a peer adds to the sessions it has opened.
LEMMA Shrinks ==
  ASSUME TypeOK, NEW p \in Peers,
         \/ UNCHANGED vars \/ PeerClaims(p) \/ (\E s \in outbox[p] : PeerReceives(p, s))
         \/ (\E m \in inbox[p] : HandleIncoming(p, m)) \/ SaveSessions(p) \/ SaveAccount(p)
         \/ Replenish(p) \/ SaveAgain(p) \/ DeviceSends(p) \/ Crash
  PROVE  \A q \in Peers : Opened(q)' \subseteq Opened(q)
  <1>t. /\ plist \in [Peers -> SUBSET Keys] /\ list \in [Peers -> SUBSET Keys]
        /\ listKept \in [Peers -> SUBSET Keys] /\ outbox \in [Peers -> SUBSET Keys]
        /\ inbox \in [Peers -> SUBSET Messages]
    BY DEF TypeOK
  <1>1. CASE UNCHANGED vars \/ PeerClaims(p)
    BY <1>1 DEF Opened, vars, peer, wire, memory, disk, PeerClaims
  <1>2. ASSUME NEW s \in outbox[p], PeerReceives(p, s)
        PROVE  \A q \in Peers : Opened(q)' \subseteq Opened(q)
    <2>1. /\ outbox' = [outbox EXCEPT ![p] = @ \ {s}]
          /\ plist' = [plist EXCEPT ![p] = @ \union {s}]
          /\ UNCHANGED <<inbox, list, listKept>>
      BY <1>2 DEF PeerReceives, memory, disk
    <2> QED
      BY <1>t, <2>1 DEF Opened
  <1>3. ASSUME NEW m \in inbox[p], HandleIncoming(p, m)
        PROVE  \A q \in Peers : Opened(q)' \subseteq Opened(q)
    <2>1. /\ inbox' = [inbox EXCEPT ![p] = @ \ {m}]
          /\ UNCHANGED <<plist, outbox>>
          /\ \/ UNCHANGED list /\ listKept' = [listKept EXCEPT ![p] = list[p]]
             \/ UNCHANGED listKept /\ list' = [list EXCEPT ![p] = @ \union {m.sess}]
             \/ UNCHANGED <<list, listKept>>
      BY <1>3 DEF HandleIncoming, peer, memory
    <2> QED
      BY <1>t, <2>1 DEF Opened
  <1>4. ASSUME SaveSessions(p) \/ SaveAccount(p) \/ Replenish(p) \/ SaveAgain(p)
        PROVE  \A q \in Peers : Opened(q)' \subseteq Opened(q)
    <2>1. UNCHANGED <<plist, inbox, outbox, list>>
      BY <1>4 DEF SaveSessions, SaveAccount, Replenish, SaveAgain, peer, wire, memory
    <2>2. \A q \in Peers : listKept'[q] \subseteq listKept[q] \union list[q]
      BY <1>4, <1>t DEF SaveSessions, SaveAccount, Replenish, SaveAgain, disk
    <2> QED
      BY <2>1, <2>2 DEF Opened
  <1>5. ASSUME DeviceSends(p)
        PROVE  \A q \in Peers : Opened(q)' \subseteq Opened(q)
    <2> DEFINE s == IF cur[p] = None THEN Own ELSE cur[p]
    <2>1. s \in list[p] \union {Own}
      BY DEF TypeOK
    <2>2. /\ list' = [list EXCEPT ![p] = @ \union {s}]
          /\ listKept' = [listKept EXCEPT ![p] = list[p] \union {s}]
          /\ outbox' = [outbox EXCEPT ![p] = @ \union {s}]
          /\ UNCHANGED <<plist, inbox>>
      BY <1>5, <1>t DEF DeviceSends, peer
    <2> HIDE DEF s
    <2> QED
      BY <1>t, <2>1, <2>2 DEF Opened
  <1>6. ASSUME Crash
        PROVE  \A q \in Peers : Opened(q)' \subseteq Opened(q)
    BY <1>6 DEF Crash, peer, wire, disk, Opened
  <1> QED
    BY <1>1, <1>2, <1>3, <1>4, <1>5, <1>6

\* A message of a peer goes on the session it uses, or opens one with the key
\* it has claimed.
LEMMA Opens ==
  ASSUME TypeOK, OneOpened, NEW p \in Peers, PeerSends(p)
  PROVE  \E k \in bundle[p], s \in Keys :
           /\ s \in Opened(p) \union {Own} \/ (Opened(p) = {} /\ s = k)
           /\ bundle' = [bundle EXCEPT ![p] = {}]
           /\ pcur' = [pcur EXCEPT ![p] = s]
           /\ \A q \in Peers : Opened(q)' \subseteq Opened(q) \union (IF q = p THEN {s} \ {Own} ELSE {})
           /\ \A q \in Peers : \A n \in inbox'[q] : n.type = 0 => n.sess # Own
           /\ UNCHANGED <<claimed, rows, account, kept, listKept, list, outbox, task, batch, orphans, crashes>>
  <1>t. /\ plist \in [Peers -> SUBSET Keys] /\ list \in [Peers -> SUBSET Keys]
        /\ bundle \in [Peers -> SUBSET Keys]
        /\ inbox \in [Peers -> SUBSET Messages]
        /\ \A q \in Peers : pcur[q] \in plist[q] \union {None}
    BY DEF TypeOK
  <1>1. PICK k, s, type :
          /\ k \in bundle[p]
          /\ s = IF pcur[p] = None THEN k ELSE pcur[p]
          /\ type = IF s # Own /\ p \notin replied THEN 0 ELSE 1
          /\ bundle' = [bundle EXCEPT ![p] = {}]
          /\ plist' = [plist EXCEPT ![p] = @ \union {s}]
          /\ pcur' = [pcur EXCEPT ![p] = s]
          /\ inbox' = [inbox EXCEPT ![p] = @ \union {[sess |-> s, type |-> type]}]
          /\ UNCHANGED <<claimed, rows, account, kept, listKept, list, outbox, task, batch, orphans, crashes>>
    BY DEF PeerSends, directory, memory, disk, handler, history
  <1> DEFINE m == [sess |-> s, type |-> type]
  <1>2. m.sess = s /\ m.type = type
    OBVIOUS
  <1>3. inbox' = [inbox EXCEPT ![p] = @ \union {m}]
    BY <1>1
  <1> HIDE DEF m
  <1>4. \A q \in Peers : Opened(q)' \subseteq Opened(q) \union (IF q = p THEN {s} \ {Own} ELSE {})
    BY <1>t, <1>1, <1>2, <1>3 DEF Opened
  <1>5. pcur[p] # None => s \in Opened(p) \union {Own}
    BY <1>t, <1>1 DEF Opened
  <1>6. pcur[p] = None => Opened(p) = {} /\ s = k
    BY <1>1 DEF OneOpened
  <1>7. \A q \in Peers : \A n \in inbox'[q] : n.type = 0 => n.sess # Own
    BY <1>t, <1>1, <1>2, <1>3 DEF OneOpened
  <1>8. s \in Keys
    BY <1>t, <1>1
  <1> QED
    BY <1>1, <1>4, <1>5, <1>6, <1>7, <1>8

\* Every step leaves each peer with the one session it opened.
LEMMA OpenedStep == TypeOK /\ OneOpened /\ [Next]_vars => OneOpened'
  <1> SUFFICES ASSUME TypeOK, OneOpened, [Next]_vars
               PROVE  OneOpened'
    OBVIOUS
  <1>t. /\ plist \in [Peers -> SUBSET Keys] /\ list \in [Peers -> SUBSET Keys]
        /\ inbox \in [Peers -> SUBSET Messages]
        /\ task \in [Peers -> {"idle", "sessions", "account", "upload", "uploaded"}]
        /\ pcur \in [Peers -> Keys \union {None}]
    BY DEF TypeOK
  <1>1. CASE UNCHANGED vars
    BY <1>1 DEF OneOpened, Opened, vars, peer, wire, memory, disk, handler
  <1>2. ASSUME NEW p \in Peers, PeerClaims(p)
        PROVE  OneOpened'
    BY <1>2 DEF PeerClaims, OneOpened, Opened, wire, memory, disk, handler
  <1>3. ASSUME NEW p \in Peers, PeerSends(p)
        PROVE  OneOpened'
    <2>1. PICK k \in bundle[p], s \in Keys :
            /\ s \in Opened(p) \union {Own} \/ (Opened(p) = {} /\ s = k)
            /\ pcur' = [pcur EXCEPT ![p] = s]
            /\ \A q \in Peers : Opened(q)' \subseteq Opened(q) \union (IF q = p THEN {s} \ {Own} ELSE {})
            /\ \A q \in Peers : \A n \in inbox'[q] : n.type = 0 => n.sess # Own
            /\ UNCHANGED <<list, task>>
      BY <1>3, Opens
    <2>2. s # None
      BY NoneAssumption
    <2>3. \A q \in Peers : \A x, y \in Opened(q)' : x = y
      BY <2>1 DEF OneOpened
    <2>4. \A q \in Peers : pcur'[q] = None => Opened(q)' = {}
      BY <1>t, <2>1, <2>2 DEF OneOpened
    <2> QED
      BY <2>1, <2>3, <2>4 DEF OneOpened
  <1>4. ASSUME NEW p \in Peers, NEW s \in outbox[p], PeerReceives(p, s)
        PROVE  OneOpened'
    <2>1. /\ plist' = [plist EXCEPT ![p] = @ \union {s}]
          /\ pcur' = IF s \in plist[p] THEN pcur ELSE [pcur EXCEPT ![p] = s]
          /\ UNCHANGED <<inbox, list, task>>
      BY <1>4 DEF PeerReceives, memory, handler
    <2>2. \A q \in Peers : Opened(q)' \subseteq Opened(q)
      BY <1>4, Shrinks
    <2>3. s # None
      BY NoneAssumption DEF TypeOK
    <2>4. \A q \in Peers : pcur'[q] = None => Opened(q)' = {}
      BY <1>t, <2>1, <2>2, <2>3 DEF OneOpened
    <2> QED
      BY <2>1, <2>2, <2>4 DEF OneOpened
  <1>5. ASSUME NEW p \in Peers, NEW m \in inbox[p], HandleIncoming(p, m)
        PROVE  OneOpened'
    <2>1. /\ inbox' = [inbox EXCEPT ![p] = @ \ {m}]
          /\ UNCHANGED pcur
          /\ \/ UNCHANGED <<list, task>>
             \/ /\ HasKey(m)
                /\ list' = [list EXCEPT ![p] = @ \union {m.sess}]
                /\ task' = [task EXCEPT ![p] = "sessions"]
      BY <1>5 DEF HandleIncoming, peer, memory
    <2>2. \A q \in Peers : Opened(q)' \subseteq Opened(q)
      BY <1>5, Shrinks
    <2>3. \A q \in Peers : task'[q] # "idle" => list'[q] \ {Own} # {}
      <3>1. HasKey(m) => m.sess # Own
        BY DEF HasKey, OneOpened
      <3>2. \A q \in Peers : task[q] # "idle" => list[q] \ {Own} # {}
        BY DEF OneOpened
      <3> QED
        BY <1>t, <2>1, <3>1, <3>2
    <2>4. \A q \in Peers : inbox'[q] \subseteq inbox[q]
      BY <1>t, <2>1
    <2> QED
      BY <2>1, <2>2, <2>3, <2>4 DEF OneOpened
  <1>6. ASSUME NEW p \in Peers,
               SaveSessions(p) \/ SaveAccount(p) \/ Replenish(p) \/ SaveAgain(p)
        PROVE  OneOpened'
    <2>1. UNCHANGED <<pcur, inbox, list>>
      BY <1>6 DEF SaveSessions, SaveAccount, Replenish, SaveAgain, peer, wire, memory
    <2>2. \A q \in Peers : Opened(q)' \subseteq Opened(q)
      BY <1>6, Shrinks
    <2>3. \A q \in Peers : task'[q] # "idle" => task[q] # "idle"
      BY <1>6, <1>t DEF SaveSessions, SaveAccount, Replenish, SaveAgain
    <2> QED
      BY <2>1, <2>2, <2>3 DEF OneOpened
  <1>7. ASSUME NEW p \in Peers, DeviceSends(p)
        PROVE  OneOpened'
    <2>1. /\ \A q \in Peers : list[q] \subseteq list'[q]
          /\ UNCHANGED <<pcur, inbox, task>>
      BY <1>7, <1>t DEF DeviceSends, peer, handler
    <2>2. \A q \in Peers : Opened(q)' \subseteq Opened(q)
      BY <1>7, Shrinks
    <2> QED
      BY <2>1, <2>2 DEF OneOpened
  <1>8. ASSUME Crash
        PROVE  OneOpened'
    <2>1. task' = [p \in Peers |-> "idle"] /\ UNCHANGED <<pcur, inbox>>
      BY <1>8 DEF Crash, peer, wire
    <2>2. \A q \in Peers : Opened(q)' \subseteq Opened(q)
      BY <1>8, Shrinks
    <2> QED
      BY <2>1, <2>2 DEF OneOpened
  <1> QED
    BY <1>1, <1>2, <1>3, <1>4, <1>5, <1>6, <1>7, <1>8 DEF Next

\* The directory, the device, its peers and the messages between them stay
\* well typed; the session in use is one of the list, in memory and on disk.
THEOREM TypeCorrect == Spec => []TypeOK
  <1>1. Init => OneOpened
    BY DEF Init, OneOpened, Opened
  <1> QED
    BY <1>1, InitType, TypeStep, OpenedStep, PTL DEF Spec

Held(p) == Opened(p) \union bundle[p]

\* What a peer holds has been claimed, and by it alone; a key waiting in a
\* claim response has not opened a session.
Sharing ==
  /\ \A p \in Peers : Held(p) \subseteq claimed \union {Fallback}
  /\ \A p, q \in Peers : p # q => Held(p) \intersect Held(q) \subseteq {Fallback}
  /\ \A p \in Peers : Opened(p) \intersect bundle[p] \subseteq {Fallback}

\* A step that claims nothing and opens no session.
LEMMA SharingIdle ==
  ASSUME Sharing, UNCHANGED bundle, claimed \subseteq claimed',
         \A q \in Peers : Opened(q)' \subseteq Opened(q)
  PROVE  Sharing'
  BY DEF Sharing, Held

\* Every step leaves the peers with keys of their own.
LEMMA SharingStep == TypeOK /\ OneOpened /\ Sharing /\ [Next]_vars => Sharing'
  <1> SUFFICES ASSUME TypeOK, OneOpened, Sharing, [Next]_vars
               PROVE  Sharing'
    OBVIOUS
  <1>t. bundle \in [Peers -> SUBSET Keys]
    BY DEF TypeOK
  <1>0. CASE UNCHANGED vars \/ Crash
    <2>1. UNCHANGED <<bundle, claimed>>
      BY <1>0 DEF vars, directory, peer, Crash
    <2>2. \A q \in Peers : Opened(q)' \subseteq Opened(q)
      BY <1>0, Shrinks
    <2> QED
      BY <2>1, <2>2, SharingIdle
  <1>1. ASSUME NEW p \in Peers,
               \/ (\E s \in outbox[p] : PeerReceives(p, s))
               \/ (\E m \in inbox[p] : HandleIncoming(p, m)) \/ SaveSessions(p) \/ SaveAccount(p)
               \/ Replenish(p) \/ SaveAgain(p) \/ DeviceSends(p)
        PROVE  Sharing'
    <2>1. UNCHANGED <<bundle, claimed>>
      BY <1>1 DEF directory, peer, PeerReceives, HandleIncoming, SaveSessions, SaveAccount,
             Replenish, SaveAgain, DeviceSends
    <2>2. \A q \in Peers : Opened(q)' \subseteq Opened(q)
      BY <1>1, Shrinks
    <2> QED
      BY <2>1, <2>2, SharingIdle
  <1>2. ASSUME NEW p \in Peers, PeerClaims(p)
        PROVE  Sharing'
    <2>1. \A q \in Peers : Opened(q)' \subseteq Opened(q)
      BY <1>2, Shrinks
    <2>2. PICK k : /\ bundle' = [bundle EXCEPT ![p] = {k}]
                   /\ \/ k \notin claimed /\ claimed' = claimed \union {k}
                      \/ k = Fallback /\ claimed' = claimed
      BY <1>2 DEF PeerClaims, Claim, ClaimFallback, Unclaimed
    <2>3. \A q \in Peers : k \notin Held(q) \ {Fallback}
      BY <2>2 DEF Sharing
    <2>4. \A q \in Peers : bundle'[q] = IF q = p THEN {k} ELSE bundle[q]
      BY <1>t, <2>2
    <2>5. \A q \in Peers : Held(q)' \subseteq Held(q) \union (IF q = p THEN {k} ELSE {})
      BY <2>1, <2>4 DEF Held
    <2>6. \A q \in Peers : Held(q)' \subseteq claimed' \union {Fallback}
      BY <2>2, <2>5 DEF Sharing
    <2>7. \A q, r \in Peers : q # r => Held(q)' \intersect Held(r)' \subseteq {Fallback}
      BY <2>3, <2>5 DEF Sharing
    <2>8. \A q \in Peers : Opened(q)' \intersect bundle'[q] \subseteq {Fallback}
      BY <2>1, <2>3, <2>4 DEF Sharing, Held
    <2> QED
      BY <2>6, <2>7, <2>8 DEF Sharing
  <1>3. ASSUME NEW p \in Peers, PeerSends(p)
        PROVE  Sharing'
    <2>1. PICK k \in bundle[p], s \in Keys :
            /\ s \in Opened(p) \union {Own} \/ (Opened(p) = {} /\ s = k)
            /\ bundle' = [bundle EXCEPT ![p] = {}]
            /\ \A q \in Peers : Opened(q)' \subseteq Opened(q) \union (IF q = p THEN {s} \ {Own} ELSE {})
            /\ UNCHANGED claimed
      BY <1>3, Opens
    <2>2. \A q \in Peers : bundle'[q] = IF q = p THEN {} ELSE bundle[q]
      BY <1>t, <2>1
    <2>3. \A q \in Peers : Held(q)' \subseteq Held(q)
      BY <2>1, <2>2 DEF Held
    <2>4. \A q \in Peers : Opened(q)' \intersect bundle'[q] \subseteq {Fallback}
      BY <2>1, <2>2 DEF Sharing
    <2> QED
      BY <2>1, <2>3, <2>4 DEF Sharing
  <1> QED
    BY <1>0, <1>1, <1>2, <1>3 DEF Next

\* No two peers ever build on the same one-time key, whatever they send,
\* whenever the device's page dies, and for any number of peers and keys.
THEOREM Distinct == Spec => []NoSharedKey
  <1>1. Init => OneOpened /\ Sharing
    BY DEF Init, OneOpened, Sharing, Held, Opened
  <1>2. Sharing => NoSharedKey
    BY DEF Sharing, Held, Opened, NoSharedKey
  <1> QED
    BY <1>1, <1>2, InitType, TypeStep, OpenedStep, SharingStep, PTL DEF Spec

\* Key ids are counted within a run of the page; keys of an earlier run are
\* older than every key the present one makes.
Numbered ==
  /\ account.next >= 1 /\ kept.next >= 1
  /\ \A k \in kept.priv : k.life <= crashes /\ k.id >= 1
  /\ \A k \in rows \union account.priv \union UNION {batch[p] : p \in Peers} :
       k.life <= crashes /\ k.id >= 1 /\ (k.life = crashes => k.id < account.next)

\* A batch on its way to the directory is new there, and on the device but for
\* what made room for a later one.
Uploading ==
  \A p \in Peers : task[p] = "upload" =>
    /\ batch[p] \subseteq account.priv \union orphans /\ batch[p] \intersect rows = {}
    /\ \A q \in Peers : q # p /\ task[q] = "upload" => batch[p] \intersect batch[q] = {}

Backed == Numbered /\ Uploading /\ DirectoryBacked

\* A key that is not in the directory yet, or that nobody has used, has opened
\* no session.
LEMMA Unstarted ==
  ASSUME TypeOK, Sharing, Numbered, NEW k, k # Fallback,
         \/ k.id >= 1 /\ k \notin rows
         \/ k \in Unclaimed \union UNION {bundle[p] : p \in Peers}
  PROVE  NoSession(k, list) /\ NoSession(k, listKept)
  <1>1. k \in rows => k.id >= 1
    BY DEF Numbered
  <1>2. k # Own
    <2>1. k.id >= 1
      BY <1>1 DEF TypeOK, Unclaimed, Sharing, Held
    <2> QED
      BY <2>1 DEF Own
  <1>3. \A p \in Peers : k \notin Opened(p)
    BY DEF TypeOK, Unclaimed, Sharing, Held
  <1> QED
    BY <1>2, <1>3 DEF Opened, NoSession

\* Handing out a key, receiving one or saving the sessions changes neither the
\* keys on the device nor those in the directory.
LEMMA BackedIdle ==
  ASSUME Backed, UNCHANGED <<rows, account, kept, batch, orphans, crashes>>,
         \A p \in Peers : task'[p] = "upload" => task[p] = "upload",
         Unclaimed' \subseteq Unclaimed,
         \A p \in Peers : bundle'[p] \subseteq bundle[p] \union Unclaimed \union {Fallback}
  PROVE  Backed'
  <1>1. Numbered'
    BY DEF Backed, Numbered
  <1>2. Uploading'
    BY DEF Backed, Uploading
  <1>3. DirectoryBacked'
    BY DEF Backed, DirectoryBacked
  <1> QED
    BY <1>1, <1>2, <1>3 DEF Backed

\* Every step keeps the directory backed by the device.
LEMMA BackedStep ==
  TypeOK /\ OneOpened /\ Sharing /\ Backed /\ [Next]_vars => Backed'
  <1> SUFFICES ASSUME TypeOK, OneOpened, Sharing, Backed, [Next]_vars
               PROVE  Backed'
    OBVIOUS
  <1>t. /\ bundle \in [Peers -> SUBSET Keys] /\ batch \in [Peers -> SUBSET Keys]
        /\ task \in [Peers -> {"idle", "sessions", "account", "upload", "uploaded"}]
        /\ rows \subseteq Keys /\ claimed \subseteq rows /\ crashes \in Nat
        /\ account \in Accounts /\ kept \in Accounts
    BY BoundAssumption DEF TypeOK
  <1>a. account.next \in Nat /\ kept.next \in Nat /\ account.priv \subseteq Keys /\ kept.priv \subseteq Keys
    BY <1>t DEF Accounts
  <1>k. \A k \in Keys : k.id \in Nat /\ k.life \in Nat
    BY DEF Keys
  <1>1. CASE UNCHANGED vars
    BY <1>1, BackedIdle DEF vars, directory, peer, memory, disk, handler, history, Unclaimed
  <1>2. ASSUME NEW p \in Peers, PeerClaims(p)
        PROVE  Backed'
    <2>1. UNCHANGED <<rows, account, kept, task, batch, orphans, crashes>>
      BY <1>2 DEF PeerClaims, memory, disk, handler, history
    <2>2. /\ claimed \subseteq claimed'
          /\ \A q \in Peers : bundle'[q] \subseteq bundle[q] \union Unclaimed \union {Fallback}
      BY <1>2, <1>t DEF PeerClaims, Claim, ClaimFallback
    <2> QED
      BY <2>1, <2>2, BackedIdle DEF Unclaimed
  <1>3. ASSUME NEW p \in Peers, PeerSends(p)
        PROVE  Backed'
    <2>1. /\ bundle' = [bundle EXCEPT ![p] = {}]
          /\ UNCHANGED <<claimed, rows, account, kept, task, batch, orphans, crashes>>
      BY <1>3, Opens
    <2>2. \A q \in Peers : bundle'[q] \subseteq bundle[q]
      BY <1>t, <2>1
    <2> QED
      BY <2>1, <2>2, BackedIdle DEF Unclaimed
  <1>4. ASSUME NEW p \in Peers,
               (\E s \in outbox[p] : PeerReceives(p, s)) \/ DeviceSends(p)
        PROVE  Backed'
    <2>1. UNCHANGED <<rows, claimed, bundle, account, kept, task, batch, orphans, crashes>>
      BY <1>4 DEF PeerReceives, DeviceSends, directory, peer, memory, disk, handler, history
    <2> QED
      BY <2>1, BackedIdle DEF Unclaimed
  <1>5. ASSUME NEW p \in Peers, NEW m \in inbox[p], HandleIncoming(p, m)
        PROVE  Backed'
    <2>1. UNCHANGED <<rows, claimed, bundle, kept, batch, orphans, crashes>>
      BY <1>5 DEF HandleIncoming, directory, peer
    <2>2. CASE UNCHANGED <<account, task>>
      BY <2>1, <2>2, BackedIdle DEF Unclaimed
    <2>3. CASE HasKey(m) /\ account' = [account EXCEPT !.priv = @ \ {m.sess}]
                         /\ task' = [task EXCEPT ![p] = "sessions"]
      <3>1. account'.next = account.next /\ account'.priv = account.priv \ {m.sess}
        BY <1>t, <2>3 DEF Accounts
      <3>2. m.sess \in Opened(p)
        BY <2>3 DEF HasKey, OneOpened, Opened
      <3>3. \/ m.sess = Fallback
            \/ m.sess \in claimed /\ \A q \in Peers : m.sess \notin bundle[q]
        BY <3>2 DEF Sharing, Held
      <3>4. Numbered'
        BY <2>1, <3>1 DEF Backed, Numbered
      <3>5. Uploading'
        <4>1. ASSUME NEW q \in Peers, task'[q] = "upload"
              PROVE  task[q] = "upload" /\ m.sess \notin batch[q]
          <5>1. task[q] = "upload"
            BY <1>t, <2>3, <4>1
          <5>2. \A k \in batch[q] : k.id >= 1
            BY DEF Backed, Numbered
          <5>3. Fallback.id = 0
            BY DEF Fallback
          <5> QED
            BY <1>t, <3>3, <5>1, <5>2, <5>3 DEF Backed, Uploading
        <4> QED
          BY <2>1, <3>1, <4>1 DEF Backed, Uploading
      <3>6. DirectoryBacked'
        BY <2>1, <3>1, <3>3 DEF Backed, DirectoryBacked, Unclaimed
      <3> QED
        BY <3>4, <3>5, <3>6 DEF Backed
    <2> QED
      BY <1>5, <2>2, <2>3 DEF HandleIncoming, memory
  <1>6. ASSUME NEW p \in Peers, SaveSessions(p)
        PROVE  Backed'
    <2>1. /\ task' = [task EXCEPT ![p] = "account"]
          /\ UNCHANGED <<rows, claimed, bundle, account, kept, batch, orphans, crashes>>
      BY <1>6 DEF SaveSessions, directory, peer, memory
    <2> QED
      BY <1>t, <2>1, BackedIdle DEF Unclaimed
  <1>7. ASSUME NEW p \in Peers, SaveAccount(p)
        PROVE  Backed'
    <2> DEFINE new == Fresh(account.next, Batch, crashes)
    <2> DEFINE all == account.priv \union new
    <2>1. /\ kept' = account
          /\ account'.priv = Newest(all) /\ account'.next = account.next + Batch
          /\ orphans' = orphans \union {k \in all \ Newest(all) : NoSession(k, list)}
          /\ batch' = [batch EXCEPT ![p] = new]
          /\ task' = [task EXCEPT ![p] = "upload"]
          /\ UNCHANGED <<rows, claimed, bundle, crashes>>
      BY <1>7 DEF SaveAccount, KeepAccount, directory, peer
    <2>n. account'.priv \subseteq account.priv \union new
      BY <2>1, NewestKept
    <2>o. \A k \in account.priv \union new \union orphans :
            NoSession(k, list) => k \in account'.priv \union orphans'
      BY <2>1
    <2>p. orphans \subseteq orphans'
      BY <2>1
    <2>2. \A k \in new : /\ k \in Keys /\ k.life = crashes
                         /\ account.next <= k.id /\ k.id < account.next + Batch
      BY <1>t, <1>a, KeyAssumption, FreshKeys
    <2> HIDE DEF new
    <2>3. \A k \in rows \union UNION {batch[q] : q \in Peers} : k \notin new
      <3>1. ASSUME NEW k \in rows \union UNION {batch[q] : q \in Peers}, k \in new
            PROVE  FALSE
        <4>1. k.life = crashes => k.id < account.next
          BY DEF Backed, Numbered
        <4> QED
          BY <1>a, <1>k, <2>2, <3>1, <4>1
      <3> QED
        BY <3>1
    <2>4. Numbered'
      <3>1. account'.next >= 1 /\ kept'.next >= 1
        BY <1>a, <2>1, KeyAssumption DEF Backed, Numbered
      <3>2. \A k \in kept'.priv : k.life <= crashes /\ k.id >= 1
        BY <2>1 DEF Backed, Numbered
      <3>3. \A k \in rows \union account.priv \union UNION {batch[q] : q \in Peers} :
              k \in Keys /\ k.life <= crashes /\ k.id >= 1 /\ (k.life = crashes => k.id < account.next)
        BY <1>t, <1>a DEF Backed, Numbered
      <3>4. ASSUME NEW k \in rows \union account'.priv \union UNION {batch'[q] : q \in Peers}
            PROVE  k.life <= crashes /\ k.id >= 1 /\ (k.life = crashes => k.id < account'.next)
        <4>1. k \in new \/ k \in rows \union account.priv \union UNION {batch[q] : q \in Peers}
          BY <1>t, <2>1, <2>n
        <4>2. CASE k \in new
          <5>1. account.next >= 1
            BY DEF Backed, Numbered
          <5> QED
            BY <1>t, <1>a, <1>k, <2>1, <2>2, <4>2, <5>1
        <4>3. CASE k \in rows \union account.priv \union UNION {batch[q] : q \in Peers}
          BY <1>a, <1>k, <2>1, <3>3, <4>3, KeyAssumption
        <4> QED
          BY <4>1, <4>2, <4>3
      <3> QED
        BY <2>1, <3>1, <3>2, <3>4 DEF Numbered
    <2>5. Uploading'
      <3>1. ASSUME NEW k, k.id >= 1, k \notin rows
            PROVE  NoSession(k, list)
        BY <3>1, Unstarted DEF Backed, Fallback
      <3>2. ASSUME NEW q \in Peers, task'[q] = "upload", NEW k \in batch'[q]
            PROVE  k \in account'.priv \union orphans' /\ k \notin rows
        <4>1. CASE q = p
          <5>1. k \in new /\ k \notin rows
            BY <1>t, <2>1, <2>3, <3>2, <4>1
          <5>2. k.id >= 1
            <6>1. account.next >= 1
              BY DEF Backed, Numbered
            <6> QED
              BY <1>a, <1>k, <2>2, <5>1, <6>1
          <5> QED
            BY <2>o, <3>1, <5>1, <5>2
        <4>2. CASE q # p
          <5>1. task[q] = "upload" /\ k \in batch[q]
            BY <1>t, <2>1, <3>2, <4>2
          <5>2. k \in account.priv \union orphans /\ k \notin rows /\ k.id >= 1
            BY <5>1 DEF Backed, Uploading, Numbered
          <5> QED
            BY <2>o, <3>1, <5>2
        <4> QED
          BY <4>1, <4>2
      <3>3. ASSUME NEW q \in Peers, NEW r \in Peers, q # r, task'[q] = "upload", task'[r] = "upload"
            PROVE  batch'[q] \intersect batch'[r] = {}
        BY <1>t, <2>1, <2>3, <3>3 DEF Backed, Uploading
      <3> QED
        BY <2>1, <3>2, <3>3 DEF Uploading
    <2>6. DirectoryBacked'
      <3>1. ASSUME NEW k \in Unclaimed \union UNION {bundle[q] : q \in Peers}, k # Fallback
            PROVE  k \in account'.priv \union orphans'
        <4>1. k \in account.priv \union orphans
          BY <3>1 DEF Backed, DirectoryBacked
        <4>2. NoSession(k, list)
          BY <3>1, Unstarted DEF Backed
        <4> QED
          BY <2>o, <4>1, <4>2
      <3> QED
        BY <2>1, <3>1 DEF DirectoryBacked, Unclaimed
    <2> QED
      BY <2>4, <2>5, <2>6 DEF Backed
  <1>8. ASSUME NEW p \in Peers, Replenish(p)
        PROVE  Backed'
    <2>1. /\ task[p] = "upload" /\ task' = [task EXCEPT ![p] = "uploaded"]
          /\ rows' \subseteq rows \union batch[p]
          /\ UNCHANGED <<claimed, bundle, account, kept, batch, orphans, crashes>>
      BY <1>8 DEF Replenish, Inserted, peer, memory, disk, history
    <2>2. batch[p] \subseteq account.priv \union orphans
      BY <2>1 DEF Backed, Uploading
    <2>3. Numbered'
      BY <2>1 DEF Backed, Numbered
    <2>4. Uploading'
      BY <1>t, <2>1 DEF Backed, Uploading
    <2>5. DirectoryBacked'
      BY <2>1, <2>2 DEF Backed, DirectoryBacked, Unclaimed
    <2> QED
      BY <2>3, <2>4, <2>5 DEF Backed
  <1>9. ASSUME NEW p \in Peers, SaveAgain(p)
        PROVE  Backed'
    <2>1. /\ task' = [task EXCEPT ![p] = "idle"] /\ kept' = account
          /\ batch' = [batch EXCEPT ![p] = {}]
          /\ UNCHANGED <<rows, claimed, bundle, account, orphans, crashes>>
      BY <1>9 DEF SaveAgain, KeepAccount, directory, peer, memory
    <2>2. \A q \in Peers : batch'[q] \subseteq batch[q]
      BY <1>t, <2>1
    <2>3. Numbered'
      BY <2>1, <2>2 DEF Backed, Numbered
    <2>4. Uploading'
      BY <1>t, <2>1 DEF Backed, Uploading
    <2>5. DirectoryBacked'
      BY <2>1 DEF Backed, DirectoryBacked, Unclaimed
    <2> QED
      BY <2>3, <2>4, <2>5 DEF Backed
  <1>10. ASSUME Crash
         PROVE  Backed'
    <2>1. /\ crashes' = crashes + 1 /\ account' = kept
          /\ task' = [p \in Peers |-> "idle"] /\ batch' = [p \in Peers |-> {}]
          /\ orphans' = {k \in (rows \union orphans) \ kept.priv : NoSession(k, listKept)}
          /\ UNCHANGED <<rows, claimed, bundle, kept>>
      BY <1>10 DEF Crash, directory, peer, disk
    <2>2. Numbered'
      <3>1. \A k \in rows \union kept.priv : k \in Keys /\ k.life <= crashes /\ k.id >= 1
        BY <1>t, <1>a DEF Backed, Numbered
      <3>2. \A k \in rows \union kept.priv : k.life <= crashes' /\ k.life # crashes'
        BY <1>t, <1>k, <2>1, <3>1
      <3>3. rows' \union account'.priv \union UNION {batch'[p] : p \in Peers} = rows \union kept.priv
        BY <2>1
      <3> QED
        BY <2>1, <3>1, <3>2, <3>3 DEF Backed, Numbered
    <2>3. Uploading'
      BY <2>1 DEF Uploading
    <2>4. ASSUME NEW k \in Unclaimed \union UNION {bundle[p] : p \in Peers}, k # Fallback
          PROVE  k \in rows /\ NoSession(k, listKept)
      <3>1. k \in rows
        BY <1>t, <2>4 DEF Unclaimed, Sharing, Held
      <3> QED
        BY <2>4, <3>1, Unstarted DEF Backed
    <2>5. DirectoryBacked'
      BY <2>1, <2>4 DEF DirectoryBacked, Unclaimed
    <2> QED
      BY <2>2, <2>3, <2>5 DEF Backed
  <1> QED
    BY <1>1, <1>2, <1>3, <1>4, <1>5, <1>6, <1>7, <1>8, <1>9, <1>10 DEF Next

\* A fresh device backs its directory.
LEMMA InitBacked == Init => Backed
  <1> SUFFICES ASSUME Init
               PROVE  Backed
    OBVIOUS
  <1>1. /\ rows = Fresh(1, Initial, 0) /\ account.priv = rows /\ account.next = Initial + 1
        /\ kept = account /\ crashes = 0
        /\ \A p \in Peers : batch[p] = {} /\ bundle[p] = {} /\ task[p] = "idle"
    BY DEF Init
  <1>2. \A k \in rows : k \in Keys /\ k.life = 0 /\ 1 <= k.id /\ k.id < 1 + Initial
    BY <1>1, KeyAssumption, FreshKeys
  <1>3. Numbered
    BY <1>1, <1>2, KeyAssumption DEF Numbered, Keys
  <1> QED
    BY <1>1, <1>3 DEF Backed, Uploading, DirectoryBacked, Unclaimed

\* Whatever the server hands out can open a session with the device, unless it
\* was orphaned, by a crash or for lack of room: ids used twice never make
\* directory and account disagree.
THEOREM Backing == Spec => []DirectoryBacked
  <1>1. Init => OneOpened /\ Sharing
    BY DEF Init, OneOpened, Sharing, Held, Opened
  <1>2. Backed => DirectoryBacked
    BY DEF Backed
  <1> QED
    BY <1>1, <1>2, InitType, InitBacked, TypeStep, OpenedStep, SharingStep, BackedStep, PTL DEF Spec

\* A session a peer has opened is on the device, or can still be created.
Startable ==
  \A p \in Peers : Opened(p) \subseteq list[p] \union account.priv \union orphans \union {Fallback}

\* What the device has answered with, and what a peer takes for established,
\* is on its disk.
Established ==
  \A p \in Peers :
    /\ listKept[p] \subseteq list[p] /\ outbox[p] \subseteq listKept[p]
    /\ Own \in plist[p] => Own \in listKept[p]
    /\ p \in replied => Opened(p) \subseteq listKept[p] /\ plist[p] \ {Own} # {}
    /\ \A m \in inbox[p] : m.type = 1 => m.sess \in listKept[p]

\* Every step keeps the sessions startable.
LEMMA StartableStep ==
  TypeOK /\ OneOpened /\ Sharing /\ Backed /\ Established /\ Startable /\ [Next]_vars => Startable'
  <1> SUFFICES ASSUME TypeOK, OneOpened, Sharing, Backed, Established, Startable, [Next]_vars
               PROVE  Startable'
    OBVIOUS
  <1>t. /\ list \in [Peers -> SUBSET Keys] /\ listKept \in [Peers -> SUBSET Keys]
        /\ claimed \subseteq rows /\ account \in Accounts
    BY DEF TypeOK
  <1>1. CASE UNCHANGED vars
    BY <1>1 DEF Startable, Opened, vars, peer, wire, memory, disk, history
  <1>2. ASSUME NEW p \in Peers, PeerSends(p)
        PROVE  Startable'
    <2>1. PICK k \in bundle[p], s \in Keys :
            /\ s \in Opened(p) \union {Own} \/ (Opened(p) = {} /\ s = k)
            /\ \A q \in Peers : Opened(q)' \subseteq Opened(q) \union (IF q = p THEN {s} \ {Own} ELSE {})
            /\ UNCHANGED <<account, list, orphans>>
      BY <1>2, Opens
    <2>2. k \in account.priv \union orphans \union {Fallback}
      BY DEF Backed, DirectoryBacked
    <2> QED
      BY <2>1, <2>2 DEF Startable
  <1>3. ASSUME NEW p \in Peers, NEW m \in inbox[p], HandleIncoming(p, m)
        PROVE  Startable'
    <2>1. \A q \in Peers : Opened(q)' \subseteq Opened(q)
      BY <1>3, Shrinks
    <2>2. UNCHANGED orphans
      BY <1>3 DEF HandleIncoming
    <2>3. CASE UNCHANGED <<account, list>>
      BY <2>1, <2>2, <2>3 DEF Startable
    <2>4. CASE /\ HasKey(m) /\ account' = [account EXCEPT !.priv = @ \ {m.sess}]
               /\ list' = [list EXCEPT ![p] = @ \union {m.sess}]
      <3>1. account'.priv = account.priv \ {m.sess}
        BY <1>t, <2>4 DEF Accounts
      <3>2. m.sess \in Opened(p)
        BY <2>4 DEF HasKey, OneOpened, Opened
      <3>3. ASSUME NEW q \in Peers, q # p
            PROVE  m.sess \in Opened(q) => m.sess = Fallback
        BY <3>2, <3>3 DEF Sharing, Held
      <3>4. \A q \in Peers : list'[q] = IF q = p THEN list[p] \union {m.sess} ELSE list[q]
        BY <1>t, <2>4
      <3>5. ASSUME NEW q \in Peers, NEW s \in Opened(q)
            PROVE  s \in list'[q] \union account'.priv \union orphans \union {Fallback}
        BY <3>1, <3>3, <3>4 DEF Startable
      <3> QED
        BY <2>1, <2>2, <3>5 DEF Startable
    <2> QED
      BY <1>3, <2>3, <2>4 DEF HandleIncoming, memory
  <1>4. ASSUME NEW p \in Peers,
               \/ PeerClaims(p) \/ (\E s \in outbox[p] : PeerReceives(p, s))
               \/ SaveSessions(p) \/ Replenish(p) \/ SaveAgain(p) \/ DeviceSends(p)
        PROVE  Startable'
    <2>1. \A q \in Peers : Opened(q)' \subseteq Opened(q)
      BY <1>4, Shrinks
    <2>2. UNCHANGED <<account, orphans>>
      BY <1>4 DEF PeerClaims, PeerReceives, SaveSessions, Replenish, SaveAgain,
             DeviceSends, memory, history
    <2>3. \A q \in Peers : list[q] \subseteq list'[q]
      BY <1>4, <1>t DEF PeerClaims, PeerReceives, SaveSessions, Replenish, SaveAgain,
             DeviceSends, memory
    <2> QED
      BY <2>1, <2>2, <2>3 DEF Startable
  <1>6. ASSUME NEW p \in Peers, SaveAccount(p)
        PROVE  Startable'
    <2> DEFINE all == account.priv \union Fresh(account.next, Batch, crashes)
    <2>1. \A q \in Peers : Opened(q)' \subseteq Opened(q)
      BY <1>6, Shrinks
    <2>2. /\ account'.priv = Newest(all) /\ UNCHANGED list
          /\ orphans' = orphans \union {k \in all \ Newest(all) : NoSession(k, list)}
      BY <1>6 DEF SaveAccount
    <2>3. ASSUME NEW q \in Peers, NEW s \in Opened(q), s # Fallback
          PROVE  s \in list[q] \union account'.priv \union orphans'
      <3>1. CASE s \in list[q] \union orphans
        BY <2>2, <3>1
      <3>2. CASE s \in account.priv /\ s \notin list[q]
        <4>1. \A r \in Peers : r # q => s \notin Opened(r)
          BY <2>3 DEF Sharing, Held
        <4>2. NoSession(s, list)
          BY <3>2, <4>1 DEF Opened, NoSession
        <4> QED
          BY <2>2, <3>2, <4>2
      <3> QED
        BY <2>3, <3>1, <3>2 DEF Startable
    <2> QED
      BY <2>1, <2>2, <2>3 DEF Startable
  <1>5. ASSUME Crash
        PROVE  Startable'
    <2>1. /\ account' = kept /\ list' = listKept /\ UNCHANGED listKept
          /\ orphans' = {k \in (rows \union orphans) \ kept.priv : NoSession(k, listKept)}
      BY <1>5 DEF Crash, disk
    <2>2. \A q \in Peers : Opened(q)' \subseteq Opened(q)
      BY <1>5, Shrinks
    <2>3. ASSUME NEW q \in Peers, NEW s \in Opened(q), s # Fallback, s \notin listKept[q]
          PROVE  s \in rows /\ NoSession(s, listKept)
      <3>1. s \in rows
        BY <1>t, <2>3 DEF Sharing, Held
      <3>2. \A p \in Peers : p # q => s \notin Opened(p)
        BY <2>3 DEF Sharing, Held
      <3>3. s # Own
        BY DEF Opened
      <3> QED
        BY <2>3, <3>1, <3>2, <3>3 DEF Opened, NoSession
    <2> QED
      BY <2>1, <2>2, <2>3 DEF Startable
  <1> QED
    BY <1>1, <1>2, <1>3, <1>4, <1>5, <1>6 DEF Next

\* Every step keeps on disk what others rely on.
LEMMA EstablishedStep ==
  TypeOK /\ OneOpened /\ Sharing /\ Backed /\ Established /\ [Next]_vars => Established'
  <1> SUFFICES ASSUME TypeOK, OneOpened, Sharing, Backed, Established, [Next]_vars
               PROVE  Established'
    OBVIOUS
  <1>t. /\ list \in [Peers -> SUBSET Keys] /\ listKept \in [Peers -> SUBSET Keys]
        /\ plist \in [Peers -> SUBSET Keys] /\ outbox \in [Peers -> SUBSET Keys]
        /\ inbox \in [Peers -> SUBSET Messages] /\ bundle \in [Peers -> SUBSET Keys]
        /\ \A p \in Peers : pcur[p] \in plist[p] \union {None}
    BY DEF TypeOK
  <1>1. CASE UNCHANGED vars
    BY <1>1 DEF Established, Opened, vars, peer, wire, memory, disk
  <1>2. ASSUME NEW p \in Peers, PeerClaims(p)
        PROVE  Established'
    BY <1>2 DEF PeerClaims, Established, Opened, wire, memory, disk
  <1>3. ASSUME NEW p \in Peers, PeerSends(p)
        PROVE  Established'
    <2>1. PICK k, s, type :
            /\ k \in bundle[p]
            /\ s = IF pcur[p] = None THEN k ELSE pcur[p]
            /\ type = IF s # Own /\ p \notin replied THEN 0 ELSE 1
            /\ plist' = [plist EXCEPT ![p] = @ \union {s}]
            /\ inbox' = [inbox EXCEPT ![p] = @ \union {[sess |-> s, type |-> type]}]
            /\ UNCHANGED <<listKept, list, outbox, replied>>
      BY <1>3 DEF PeerSends, memory, disk
    <2> DEFINE m == [sess |-> s, type |-> type]
    <2>2. m.sess = s /\ m.type = type
      OBVIOUS
    <2>3. inbox' = [inbox EXCEPT ![p] = @ \union {m}]
      BY <2>1
    <2> HIDE DEF m
    <2>4. p \in replied => pcur[p] # None
      BY <1>t DEF Established, OneOpened, Opened
    <2>5. /\ p \in replied => s \in plist[p]
          /\ s = Own => Own \in plist[p] \/ Own \in bundle[p]
      BY <1>t, <2>1, <2>4
    <2>o. Own \notin bundle[p]
      <3>1. \A x \in bundle[p] : x = Fallback \/ x.id >= 1
        BY DEF Sharing, Held, TypeOK, Backed, Numbered
      <3>2. Own # Fallback /\ Own.id = 0
        BY DEF Own, Fallback
      <3> QED
        BY <3>1, <3>2
    <2>6. type = 1 => s \in listKept[p]
      <3>1. CASE s = Own
        BY <2>5, <2>o, <3>1 DEF Established
      <3>2. CASE s # Own
        BY <2>1, <2>5, <3>2 DEF Established, Opened
      <3> QED
        BY <3>1, <3>2
    <2>7. s = Own => Own \in listKept[p]
      BY <2>1, <2>6
    <2>8. \A q \in Peers : /\ plist'[q] = IF q = p THEN plist[p] \union {s} ELSE plist[q]
                           /\ inbox'[q] = IF q = p THEN inbox[p] \union {m} ELSE inbox[q]
      BY <1>t, <2>1, <2>3
    <2>9. \A q \in Peers : q \in replied => Opened(q)' \subseteq Opened(q)
      BY <2>1, <2>2, <2>5, <2>8 DEF Opened
    <2> QED
      BY <2>1, <2>2, <2>6, <2>7, <2>8, <2>9 DEF Established
  <1>4. ASSUME NEW p \in Peers, NEW s \in outbox[p], PeerReceives(p, s)
        PROVE  Established'
    <2>1. /\ outbox' = [outbox EXCEPT ![p] = @ \ {s}]
          /\ plist' = [plist EXCEPT ![p] = @ \union {s}]
          /\ replied' = IF s = Own THEN replied ELSE replied \union {p}
          /\ UNCHANGED <<inbox, list, listKept>>
      BY <1>4 DEF PeerReceives, memory, disk
    <2>2. \A q \in Peers : Opened(q)' \subseteq Opened(q)
      BY <1>4, Shrinks
    <2>3. s \in listKept[p]
      BY DEF Established
    <2>4. \A q \in Peers : /\ plist'[q] = IF q = p THEN plist[p] \union {s} ELSE plist[q]
                           /\ outbox'[q] \subseteq outbox[q]
      BY <1>t, <2>1
    <2>5. s # Own => Opened(p) \subseteq listKept[p]
      BY <2>3 DEF OneOpened, Opened
    <2> QED
      BY <2>1, <2>2, <2>3, <2>4, <2>5 DEF Established
  <1>5. ASSUME NEW p \in Peers, NEW m \in inbox[p], HandleIncoming(p, m)
        PROVE  Established'
    <2>1. /\ inbox' = [inbox EXCEPT ![p] = @ \ {m}]
          /\ UNCHANGED <<plist, replied, outbox>>
          /\ \/ UNCHANGED list /\ listKept' = [listKept EXCEPT ![p] = list[p]]
             \/ UNCHANGED listKept /\ list' = [list EXCEPT ![p] = @ \union {m.sess}]
             \/ UNCHANGED <<list, listKept>>
      BY <1>5 DEF HandleIncoming, peer, memory
    <2>2. \A q \in Peers : Opened(q)' \subseteq Opened(q)
      BY <1>5, Shrinks
    <2>3. \A q \in Peers : inbox'[q] \subseteq inbox[q]
      BY <1>t, <2>1
    <2>4. \A q \in Peers : listKept[q] \subseteq listKept'[q] /\ listKept'[q] \subseteq list'[q]
      BY <1>t, <2>1 DEF Established
    <2> QED
      BY <2>1, <2>2, <2>3, <2>4 DEF Established
  <1>6. ASSUME NEW p \in Peers,
               SaveSessions(p) \/ SaveAccount(p) \/ Replenish(p) \/ SaveAgain(p)
        PROVE  Established'
    <2>1. UNCHANGED <<plist, replied, inbox, outbox, list>>
      BY <1>6 DEF SaveSessions, SaveAccount, Replenish, SaveAgain, peer, wire, memory
    <2>2. \A q \in Peers : Opened(q)' \subseteq Opened(q)
      BY <1>6, Shrinks
    <2>3. \/ UNCHANGED listKept
          \/ listKept' = [listKept EXCEPT ![p] = list[p]]
      BY <1>6 DEF SaveSessions, SaveAccount, Replenish, SaveAgain, disk
    <2>4. \A q \in Peers : listKept[q] \subseteq listKept'[q] /\ listKept'[q] \subseteq list'[q]
      BY <1>t, <2>1, <2>3 DEF Established
    <2> QED
      BY <2>1, <2>2, <2>4 DEF Established
  <1>7. ASSUME NEW p \in Peers, DeviceSends(p)
        PROVE  Established'
    <2> DEFINE s == IF cur[p] = None THEN Own ELSE cur[p]
    <2>1. /\ list' = [list EXCEPT ![p] = @ \union {s}]
          /\ listKept' = [listKept EXCEPT ![p] = list[p] \union {s}]
          /\ outbox' = [outbox EXCEPT ![p] = @ \union {s}]
          /\ UNCHANGED <<plist, replied, inbox>>
      BY <1>7, <1>t DEF DeviceSends, peer
    <2> HIDE DEF s
    <2>2. \A q \in Peers : Opened(q)' \subseteq Opened(q)
      BY <1>7, Shrinks
    <2>3. \A q \in Peers : /\ listKept[q] \subseteq listKept'[q] /\ listKept'[q] \subseteq list'[q]
                           /\ outbox'[q] \subseteq listKept'[q]
      BY <1>t, <2>1 DEF Established
    <2> QED
      BY <2>1, <2>2, <2>3 DEF Established
  <1>8. ASSUME Crash
        PROVE  Established'
    <2>1. /\ list' = listKept
          /\ UNCHANGED <<listKept, plist, replied, inbox, outbox>>
      BY <1>8 DEF Crash, peer, wire, disk
    <2>2. \A q \in Peers : Opened(q)' \subseteq Opened(q)
      BY <1>8, Shrinks
    <2> QED
      BY <2>1, <2>2 DEF Established
  <1> QED
    BY <1>1, <1>2, <1>3, <1>4, <1>5, <1>6, <1>7, <1>8 DEF Next

\* Whatever a peer has sent or sends next the device can decrypt, unless the key
\* its session was opened with was orphaned, by a crash or for lack of room:
\* through glare, shared fallback keys, overlapping first messages and any
\* number of crashes.
THEOREM Working == Spec => []SessionsWork
  <1>1. Init => OneOpened /\ Sharing /\ Backed /\ Startable /\ Established
    <2> SUFFICES ASSUME Init
                 PROVE  OneOpened /\ Sharing /\ Backed /\ Startable /\ Established
      OBVIOUS
    <2>1. OneOpened /\ Sharing /\ Startable /\ Established
      BY DEF Init, OneOpened, Sharing, Held, Opened, Startable, Established
    <2> QED
      BY <2>1, InitBacked
  <1>2. TypeOK /\ OneOpened /\ Startable /\ Established => SessionsWork
    <2> SUFFICES ASSUME TypeOK, OneOpened, Startable, Established, NEW p \in Peers
                 PROVE  /\ \A m \in inbox[p] : Readable(p, m)
                        /\ pcur[p] # None =>
                             Readable(p, [sess |-> pcur[p],
                                          type |-> IF pcur[p] # Own /\ p \notin replied THEN 0 ELSE 1])
      BY DEF SessionsWork
    <2>1. ASSUME NEW m, m.type \in {0, 1}, m.sess \in Opened(p) \union {Own},
                 m.type = 1 => m.sess \in listKept[p], m.type = 0 => m.sess # Own
          PROVE  Readable(p, m)
      BY <2>1 DEF Readable, MatchesInbound, HasKey, Startable, Established
    <2>2. \A m \in inbox[p] : Readable(p, m)
      <3> TAKE m \in inbox[p]
      <3>1. m.type \in {0, 1}
        BY DEF TypeOK, Messages
      <3>2. m.sess \in Opened(p) \union {Own}
        BY DEF Opened
      <3> QED
        BY <2>1, <3>1, <3>2 DEF OneOpened, Established
    <2>3. ASSUME pcur[p] # None
          PROVE  Readable(p, [sess |-> pcur[p],
                              type |-> IF pcur[p] # Own /\ p \notin replied THEN 0 ELSE 1])
      <3> DEFINE m == [sess |-> pcur[p],
                       type |-> IF pcur[p] # Own /\ p \notin replied THEN 0 ELSE 1]
      <3>1. pcur[p] \in plist[p]
        BY <2>3 DEF TypeOK
      <3>2. /\ m.sess = pcur[p] /\ m.type \in {0, 1}
            /\ m.type = 0 => m.sess # Own
            /\ m.type = 1 => m.sess = Own \/ p \in replied
        OBVIOUS
      <3> HIDE DEF m
      <3>3. m.sess \in Opened(p) \union {Own}
        BY <3>1, <3>2 DEF Opened
      <3>4. m.type = 1 => m.sess \in listKept[p]
        BY <3>1, <3>2, <3>3 DEF Established
      <3>5. Readable(p, m)
        BY <2>1, <3>2, <3>3, <3>4
      <3> QED
        BY <3>5 DEF m
    <2> QED
      BY <2>2, <2>3
  <1> QED
    BY <1>1, <1>2, InitType, TypeStep, OpenedStep, SharingStep, BackedStep, StartableStep,
       EstablishedStep, PTL DEF Spec

\* A published key is on the device: its private half, or a session it opened
\* that is saved or about to be.  Where both are there, after a crash, the
\* session is saved.
InMemory ==
  /\ \A p \in Peers : account.priv \intersect list[p] \subseteq listKept[p]
  /\ \A k \in rows \ orphans :
       \/ k \in account.priv
       \/ \E p \in Peers : k \in list[p] /\ (k \in listKept[p] \/ task[p] = "sessions")

\* A published key is on the disk, or in one of the two windows of a crash.
Recoverable ==
  \A k \in rows \ orphans :
    \/ k \in kept.priv
    \/ \E p \in Peers :
         \/ k \in listKept[p]
         \/ task[p] = "uploaded" /\ k \in batch[p]
         \/ p \in exposed /\ k \in list[p]

\* Writing to a peer or hearing of the directory loses nothing.
LEMMA RecoverableIdle ==
  ASSUME InMemory, Recoverable, UNCHANGED <<rows, orphans, account, kept, task, batch, exposed>>,
         \A p \in Peers : /\ list[p] \subseteq list'[p] /\ listKept[p] \subseteq listKept'[p]
                          /\ list'[p] \subseteq list[p] \union listKept'[p]
  PROVE  InMemory' /\ Recoverable'
  <1>1. InMemory'
    BY DEF InMemory
  <1>2. Recoverable'
    BY DEF Recoverable
  <1> QED
    BY <1>1, <1>2

\* Every step keeps the published keys recoverable.
LEMMA RecoverableStep ==
  /\ TypeOK /\ OneOpened /\ Sharing /\ Backed /\ Established
  /\ InMemory /\ Recoverable /\ [Next]_vars
  => InMemory' /\ Recoverable'
  <1> SUFFICES ASSUME TypeOK, OneOpened, Sharing, Backed, Established,
                      InMemory, Recoverable, [Next]_vars
               PROVE  InMemory' /\ Recoverable'
    OBVIOUS
  <1>t. /\ list \in [Peers -> SUBSET Keys] /\ listKept \in [Peers -> SUBSET Keys]
        /\ batch \in [Peers -> SUBSET Keys] /\ account \in Accounts /\ exposed \subseteq Peers
        /\ task \in [Peers -> {"idle", "sessions", "account", "upload", "uploaded"}]
    BY DEF TypeOK
  <1>1. ASSUME \/ UNCHANGED vars
               \/ \E p \in Peers : \/ PeerClaims(p) \/ PeerSends(p)
                                   \/ \E s \in outbox[p] : PeerReceives(p, s)
        PROVE  InMemory' /\ Recoverable'
    <2>1. UNCHANGED <<rows, orphans, account, kept, task, batch, exposed, list, listKept>>
      BY <1>1 DEF vars, directory, memory, disk, handler, history, PeerClaims, PeerSends, PeerReceives
    <2> QED
      BY <2>1, RecoverableIdle
  <1>2. ASSUME NEW p \in Peers, DeviceSends(p)
        PROVE  InMemory' /\ Recoverable'
    <2>1. UNCHANGED <<rows, orphans, account, kept, task, batch, exposed>>
      BY <1>2 DEF DeviceSends, directory, handler, history
    <2>2. \A q \in Peers : /\ list[q] \subseteq list'[q] /\ listKept[q] \subseteq listKept'[q]
                           /\ list'[q] \subseteq list[q] \union listKept'[q]
      BY <1>2, <1>t DEF DeviceSends, Established
    <2> QED
      BY <2>1, <2>2, RecoverableIdle
  <1>3. ASSUME NEW p \in Peers, NEW m \in inbox[p], HandleIncoming(p, m)
        PROVE  InMemory' /\ Recoverable'
    <2>1. UNCHANGED <<rows, orphans, kept, batch>>
      BY <1>3 DEF HandleIncoming, directory
    <2>2. CASE /\ UNCHANGED <<account, list, task>>
               /\ listKept' = [listKept EXCEPT ![p] = list[p]] /\ exposed' = exposed \ {p}
      <3>1. \A q \in Peers : /\ listKept[q] \subseteq listKept'[q]
                             /\ listKept'[q] = IF q = p THEN list[p] ELSE listKept[q]
        BY <1>t, <2>2 DEF Established
      <3>2. InMemory'
        BY <2>1, <2>2, <3>1 DEF InMemory
      <3>3. Recoverable'
        BY <2>1, <2>2, <3>1 DEF Recoverable
      <3> QED
        BY <3>2, <3>3
    <2>3. CASE /\ HasKey(m) /\ ~MatchesInbound(p, m)
               /\ account' = [account EXCEPT !.priv = @ \ {m.sess}]
               /\ list' = [list EXCEPT ![p] = @ \union {m.sess}]
               /\ task' = [task EXCEPT ![p] = "sessions"]
               /\ UNCHANGED <<listKept, exposed>>
      <3>1. account'.priv = account.priv \ {m.sess}
        BY <1>t, <2>3 DEF Accounts
      <3>2. task[p] = "idle"
        BY <2>3 DEF OneOpened, Opened, MatchesInbound, HasKey
      <3>3. \A q \in Peers : /\ list[q] \subseteq list'[q] /\ list'[q] \subseteq list[q] \union {m.sess}
                             /\ q # p => task'[q] = task[q]
        BY <1>t, <2>3
      <3>4. m.sess \in list'[p] /\ task'[p] = "sessions"
        BY <1>t, <2>3
      <3>5. InMemory'
        BY <2>1, <2>3, <3>1, <3>2, <3>3, <3>4 DEF InMemory
      <3>6. Recoverable'
        BY <2>1, <2>3, <3>2, <3>3 DEF Recoverable
      <3> QED
        BY <3>5, <3>6
    <2>4. CASE UNCHANGED <<account, list, task, listKept, exposed>>
      BY <2>1, <2>4, RecoverableIdle
    <2> QED
      BY <1>3, <2>2, <2>3, <2>4 DEF HandleIncoming, memory
  <1>4. ASSUME NEW p \in Peers, SaveSessions(p)
        PROVE  InMemory' /\ Recoverable'
    <2>1. /\ task[p] = "sessions" /\ task' = [task EXCEPT ![p] = "account"]
          /\ listKept' = [listKept EXCEPT ![p] = list[p]] /\ exposed' = exposed \ {p}
          /\ UNCHANGED <<rows, orphans, account, list, kept, batch>>
      BY <1>4 DEF SaveSessions, directory, memory
    <2>2. \A q \in Peers : /\ listKept[q] \subseteq listKept'[q]
                           /\ listKept'[q] = IF q = p THEN list[p] ELSE listKept[q]
                           /\ q # p => task'[q] = task[q]
      BY <1>t, <2>1 DEF Established
    <2>3. InMemory'
      BY <2>1, <2>2 DEF InMemory
    <2>4. Recoverable'
      BY <2>1, <2>2 DEF Recoverable
    <2> QED
      BY <2>3, <2>4
  <1>5. ASSUME NEW p \in Peers, task[p] \in {"account", "uploaded"}, KeepAccount(p),
               task'[p] # "sessions", \A q \in Peers \ {p} : task'[q] = task[q],
               orphans \subseteq orphans',
               \A k \in account.priv \ account'.priv : NoSession(k, list) => k \in orphans',
               \A k \in account'.priv \ account.priv : NoSession(k, list),
               UNCHANGED <<rows, list, listKept>>
        PROVE  InMemory' /\ Recoverable'
    <2>1. InMemory'
      <3>1. \A q \in Peers : account'.priv \intersect list[q] \subseteq listKept[q]
        BY <1>5 DEF InMemory, NoSession
      <3>2. ASSUME NEW k \in rows \ orphans', k \notin account'.priv
            PROVE  \E q \in Peers : k \in list[q] /\ (k \in listKept[q] \/ task'[q] = "sessions")
        <4>1. CASE k \in account.priv
          BY <1>5, <3>2, <4>1 DEF InMemory, NoSession
        <4>2. CASE k \notin account.priv
          BY <1>5, <3>2, <4>2 DEF InMemory
        <4> QED
          BY <4>1, <4>2
      <3> QED
        BY <1>5, <3>1, <3>2 DEF InMemory
    <2>2. Recoverable'
      <3>1. ASSUME NEW k \in rows \ orphans, k \notin account.priv
            PROVE  \E q \in Peers : k \in listKept[q] \/ (q \in exposed' /\ k \in list[q])
        <4>1. PICK q \in Peers : k \in list[q] /\ (k \in listKept[q] \/ task[q] = "sessions")
          BY <3>1 DEF InMemory
        <4>2. CASE k \notin listKept[q]
          <5>1. q # p /\ task[q] = "sessions"
            BY <1>5, <4>1, <4>2
          <5> QED
            BY <1>5, <4>1, <5>1 DEF KeepAccount
        <4> QED
          BY <4>1, <4>2
      <3>2. kept' = account
        BY <1>5 DEF KeepAccount
      <3> QED
        BY <1>5, <3>1, <3>2 DEF Recoverable
    <2> QED
      BY <2>1, <2>2
  <1>6. ASSUME NEW p \in Peers, SaveAccount(p) \/ SaveAgain(p)
        PROVE  InMemory' /\ Recoverable'
    <2>1. /\ task[p] \in {"account", "uploaded"} /\ KeepAccount(p)
          /\ orphans \subseteq orphans'
          /\ UNCHANGED <<rows, list, listKept>>
      BY <1>6 DEF SaveAccount, SaveAgain, directory, memory
    <2>2. task'[p] # "sessions" /\ \A q \in Peers \ {p} : task'[q] = task[q]
      BY <1>6, <1>t DEF SaveAccount, SaveAgain
    <2>3. /\ \A k \in account.priv \ account'.priv : NoSession(k, list) => k \in orphans'
          /\ \A k \in account'.priv \ account.priv : NoSession(k, list)
      <3>1. CASE SaveAgain(p)
        BY <3>1 DEF SaveAgain, memory
      <3>2. CASE SaveAccount(p)
        <4> DEFINE new == Fresh(account.next, Batch, crashes)
                   all == account.priv \union new
        <4>1. /\ account'.priv = Newest(all)
              /\ orphans' = orphans \union {k \in all \ Newest(all) : NoSession(k, list)}
          BY <3>2 DEF SaveAccount
        <4>2. ASSUME NEW k \in new
              PROVE  NoSession(k, list)
          <5>1. account.next \in Nat /\ crashes \in Nat /\ account.next >= 1
            BY BoundAssumption DEF TypeOK, Accounts, Backed, Numbered
          <5>2. k \in Keys /\ k.life = crashes /\ account.next <= k.id
            BY <5>1, KeyAssumption, FreshKeys
          <5>3. k.id \in Nat
            BY <5>2 DEF Keys
          <5>4. k \notin rows
            BY <5>1, <5>2, <5>3 DEF Backed, Numbered
          <5>5. k.id >= 1 /\ k # Fallback
            BY <5>1, <5>2, <5>3 DEF Fallback
          <5> QED
            BY <5>4, <5>5, Unstarted DEF Backed
        <4> HIDE DEF new
        <4>3. Newest(all) \subseteq all
          BY NewestKept
        <4> QED
          BY <4>1, <4>2, <4>3
      <3> QED
        BY <1>6, <3>1, <3>2
    <2> QED
      BY <1>5, <2>1, <2>2, <2>3
  <1>7. ASSUME NEW p \in Peers, Replenish(p)
        PROVE  InMemory' /\ Recoverable'
    <2>1. /\ task[p] = "upload" /\ task' = [task EXCEPT ![p] = "uploaded"]
          /\ rows' \subseteq rows \union batch[p]
          /\ UNCHANGED <<orphans, account, kept, list, listKept, batch, exposed>>
      BY <1>7 DEF Replenish, Inserted, memory, disk, history
    <2>2. batch[p] \subseteq account.priv \union orphans
      BY <2>1 DEF Backed, Uploading
    <2>3. task'[p] = "uploaded" /\ \A q \in Peers : q # p => task'[q] = task[q]
      BY <1>t, <2>1
    <2>4. InMemory'
      BY <2>1, <2>2, <2>3 DEF InMemory
    <2>5. Recoverable'
      BY <2>1, <2>3 DEF Recoverable
    <2> QED
      BY <2>4, <2>5
  <1>8. ASSUME Crash
        PROVE  InMemory' /\ Recoverable'
    <2>1. /\ account' = kept /\ list' = listKept
          /\ orphans' = {k \in (rows \union orphans) \ kept.priv : NoSession(k, listKept)}
          /\ UNCHANGED <<rows, kept, listKept>>
      BY <1>8 DEF Crash, directory, disk
    <2>2. \A k \in rows \ orphans' : k \in kept.priv \/ \E p \in Peers : k \in listKept[p]
      BY <2>1 DEF NoSession
    <2>3. InMemory'
      BY <2>1, <2>2 DEF InMemory
    <2>4. Recoverable'
      BY <2>1, <2>2 DEF Recoverable
    <2> QED
      BY <2>3, <2>4
  <1> QED
    BY <1>1, <1>2, <1>3, <1>4, <1>6, <1>7, <1>8 DEF Next

\* The keys of an account are finitely many.
Countable == IsFiniteSet(account.priv) /\ IsFiniteSet(kept.priv)

\* Every step keeps them so.
LEMMA CountableStep == TypeOK /\ Countable /\ [Next]_vars => Countable'
  <1> SUFFICES ASSUME TypeOK, Countable, [Next]_vars
               PROVE  Countable'
    OBVIOUS
  <1>t. account \in Accounts /\ crashes \in Nat
    BY BoundAssumption DEF TypeOK
  <1>1. ASSUME UNCHANGED <<account, kept>>
        PROVE  Countable'
    BY <1>1 DEF Countable
  <1>2. ASSUME \/ UNCHANGED vars
               \/ \E p \in Peers : \/ PeerClaims(p) \/ PeerSends(p)
                                   \/ \E s \in outbox[p] : PeerReceives(p, s)
                                   \/ SaveSessions(p) \/ Replenish(p) \/ DeviceSends(p)
        PROVE  Countable'
    BY <1>1, <1>2 DEF vars, memory, disk, PeerClaims, PeerSends, PeerReceives, SaveSessions,
           Replenish, DeviceSends
  <1>3. ASSUME NEW p \in Peers, NEW m \in inbox[p], HandleIncoming(p, m)
        PROVE  Countable'
    <2>1. kept' = kept /\ (account'.priv = account.priv \/ account'.priv = account.priv \ {m.sess})
      BY <1>3, <1>t DEF HandleIncoming, memory, Accounts
    <2> QED
      BY <2>1, FS_RemoveElement DEF Countable
  <1>4. ASSUME NEW p \in Peers, SaveAccount(p)
        PROVE  Countable'
    <2> DEFINE new == Fresh(account.next, Batch, crashes)
    <2>1. kept' = account /\ account'.priv = Newest(account.priv \union new)
      BY <1>4 DEF SaveAccount, KeepAccount
    <2>2. IsFiniteSet(new)
      BY <1>t, KeyAssumption, FreshCount DEF Accounts
    <2> HIDE DEF new
    <2>3. IsFiniteSet(account.priv \union new)
      BY <2>2, FS_Union DEF Countable
    <2>4. Newest(account.priv \union new) \in SUBSET (account.priv \union new)
      BY NewestKept
    <2>5. IsFiniteSet(Newest(account.priv \union new))
      BY <2>3, <2>4, FS_Subset
    <2> QED
      BY <2>1, <2>5 DEF Countable
  <1>5. ASSUME NEW p \in Peers, SaveAgain(p)
        PROVE  Countable'
    BY <1>5 DEF SaveAgain, KeepAccount, memory, Countable
  <1>6. ASSUME Crash
        PROVE  Countable'
    BY <1>6 DEF Crash, disk, Countable
  <1> QED
    BY <1>2, <1>3, <1>4, <1>5, <1>6 DEF Next

\* A published key becomes useless only in the three windows: by a crash between
\* an upload and the save after it, by one while a session is unsaved whose key
\* another handler has removed from the disk, and for lack of room when a batch
\* is generated.
THEOREM Recovery == Spec => OrphansOnlyInWindow
  <1>1. Init => OneOpened /\ Sharing /\ Established /\ InMemory /\ Recoverable /\ Countable
    <2> SUFFICES ASSUME Init
                 PROVE  OneOpened /\ Sharing /\ Established /\ InMemory /\ Recoverable /\ Countable
      OBVIOUS
    <2>1. OneOpened /\ Sharing /\ Established
      BY DEF Init, OneOpened, Sharing, Held, Opened, Established
    <2>2. rows = account.priv /\ rows = kept.priv /\ \A p \in Peers : list[p] = {}
      BY DEF Init
    <2>3. Countable
      BY KeyAssumption, FreshCount DEF Init, Countable
    <2> QED
      BY <2>1, <2>2, <2>3 DEF InMemory, Recoverable
  <1>2. TypeOK /\ Countable /\ Recoverable /\ [Next]_vars => [OrphansKey]_vars
    <2> SUFFICES ASSUME TypeOK, Countable, Recoverable, Next, ~(orphans' \subseteq orphans)
                 PROVE  OrphansKey
      BY DEF OrphansKey, vars, history
    <2>1. Crash \/ \E p \in Peers : SaveAccount(p)
      BY DEF Next, PeerClaims, PeerSends, PeerReceives, HandleIncoming, SaveSessions,
             Replenish, SaveAgain, DeviceSends, history
    <2>2. CASE Crash
      <3>1. crashes' = crashes + 1 /\ crashes \in Nat
        BY <2>2, BoundAssumption DEF Crash, TypeOK
      <3>2. PICK k \in rows \ orphans : k \notin kept.priv /\ NoSession(k, listKept)
        BY <2>2 DEF Crash
      <3>3. exposed # {} \/ \E p \in Peers : task[p] = "uploaded"
        BY <3>2 DEF Recoverable, NoSession
      <3> QED
        BY <3>1, <3>3 DEF OrphansKey
    <2>3. ASSUME NEW p \in Peers, SaveAccount(p)
          PROVE  OrphansKey
      <3> DEFINE new == Fresh(account.next, Batch, crashes)
                 all == account.priv \union new
      <3>1. /\ task[p] = "account" /\ task' = [task EXCEPT ![p] = "upload"]
            /\ orphans' = orphans \union {k \in all \ Newest(all) : NoSession(k, list)}
        BY <2>3 DEF SaveAccount
      <3>2. task'[p] = "upload"
        BY <3>1 DEF TypeOK
      <3>3. IsFiniteSet(new) /\ Cardinality(new) <= Batch
        <4>1. account.next \in Nat /\ crashes \in Nat
          BY BoundAssumption DEF TypeOK, Accounts
        <4> QED
          BY <4>1, KeyAssumption, FreshCount
      <3> HIDE DEF new
      <3>4. IsFiniteSet(account.priv)
        BY DEF Countable
      <3>5. /\ IsFiniteSet(all)
            /\ Cardinality(all) = Cardinality(account.priv) + Cardinality(new) - Cardinality(account.priv \cap new)
        BY <3>3, <3>4, FS_Union
      <3>6. /\ Cardinality(all) \in Nat /\ Cardinality(account.priv) \in Nat /\ Cardinality(new) \in Nat
            /\ Cardinality(account.priv \cap new) \in Nat
        BY <3>3, <3>4, <3>5, FS_CardinalityType, FS_Intersection
      <3>7. Newest(all) # all
        BY <3>1
      <3>8. ~(Cardinality(all) <= Limit)
        BY <3>5, <3>7, NewestKept
      <3> HIDE DEF all
      <3>9. Cardinality(account.priv) + Batch > Limit
        BY <3>3, <3>5, <3>6, <3>8, KeyAssumption
      <3> QED
        BY <3>1, <3>2, <3>9 DEF OrphansKey
    <2> QED
      BY <2>1, <2>2, <2>3
  <1> QED
    BY <1>1, <1>2, InitType, InitBacked, TypeStep, OpenedStep, SharingStep, BackedStep,
       EstablishedStep, RecoverableStep, CountableStep, PTL DEF Spec, OrphansOnlyInWindow
=============================================================================

--------------------------- MODULE MailboxProofs ---------------------------
(***************************************************************************)
(* Proofs about Mailbox for every set of messages and sockets and any      *)
(* number of broken connections and crashes.                               *)
(***************************************************************************)
EXTENDS Mailbox, TLAPS

\* What the runs cannot say by themselves: who may hold a message.  Only
\* accepted messages are anywhere; a record is saved after its ratchet, the
\* ratchet after the message is decrypted; and until a page crashes, an ack
\* means the page has taken the message and a used key that it still will.
Custody ==
  /\ down \subseteq accepted
  /\ Taken \union saved \subseteq accepted
  /\ routing \union store \subseteq saved
  /\ decrypted \intersect saved = {}
  /\ routing \intersect store = {}

HonestAcks ==
  crashes = 0 =>
    /\ \A sk \in Sockets : up[sk] \subseteq Taken
    /\ accepted \subseteq mailbox \union Taken
    /\ saved \subseteq routing \union store

IInv == TypeOK /\ Custody /\ HonestAcks /\ RowsOnTheWay

(***************************************************************************)
(* The steps, grouped by what they leave alone.                            *)
(***************************************************************************)

\* The steps that only break or make connections.
Connection ==
  \/ \E sk \in Sockets : Connect(sk) \/ ServerNotices(sk)
  \/ GatewayOpens \/ ServerDrops \/ ServerRestarts
  \/ ClientNotices \/ ClientDrops

\* Every step keeps the types.
LEMMA TypeStep ==
  ASSUME TypeOK, [Next]_vars
  PROVE  TypeOK'
  <1> USE SocketAssumption, BoundAssumption DEF TypeOK
  <1>1. ASSUME NEW m \in Msgs, SendEnvelope(m)
        PROVE  TypeOK'
    BY <1>1 DEF SendEnvelope, Enqueue, Deliver, handler, faults
  <1>2. ASSUME NEW m \in Msgs, HandleIncoming(m)
        PROVE  TypeOK'
    <2>1. up' \in [Sockets -> SUBSET Msgs]
      BY <1>2 DEF HandleIncoming
    <2>2. decrypted' \subseteq Msgs /\ down' \subseteq Msgs
      BY <1>2 DEF HandleIncoming
    <2> QED
      BY <1>2, <2>1, <2>2 DEF HandleIncoming, faults
  <1>3. ASSUME NEW m \in Msgs, SaveRatchet(m) \/ PutMessage(m)
        PROVE  TypeOK'
    BY <1>3 DEF SaveRatchet, PutMessage, server, client, faults
  <1>4. ASSUME NEW sk \in Sockets, NEW m \in Msgs, AckDelete(sk, m)
        PROVE  TypeOK'
    <2>1. up' \in [Sockets -> SUBSET Msgs]
      BY <1>4 DEF AckDelete
    <2> QED
      BY <1>4, <2>1 DEF AckDelete, client, handler, faults
  <1>5. ASSUME NEW sk \in Sockets, Connect(sk)
        PROVE  TypeOK'
    BY <1>5 DEF Connect, server, handler, faults
  <1>6. ASSUME NEW sk \in Sockets \union {sock}, Unregister(sk), drops' \in {drops, drops + 1},
               drops < MaxDrops \/ drops' = drops, crashes' = crashes
        PROVE  TypeOK'
    <2>1. up' \in [Sockets -> SUBSET Msgs]
      BY <1>6 DEF Unregister
    <2> QED
      BY <1>6, <2>1 DEF Unregister, client, handler
  <1>7. ASSUME GatewayOpens
        PROVE  TypeOK'
    BY <1>7 DEF GatewayOpens, Drain, handler, faults
  <1>8. ASSUME ServerRestarts
        PROVE  TypeOK'
    BY <1>8 DEF ServerRestarts, client, handler
  <1>9. ASSUME ClientNotices \/ ClientDrops \/ Crash
        PROVE  TypeOK'
    <2>1. /\ OnClose /\ UNCHANGED <<mailbox, accepted, sinks, up, saved, store>>
          /\ decrypted' \subseteq decrypted /\ routing' \subseteq routing
      BY <1>9 DEF ClientNotices, ClientDrops, Crash, server, handler
    <2>2. drops' \in 0..MaxDrops /\ crashes' \in 0..MaxCrashes
      BY <1>9 DEF ClientNotices, ClientDrops, Crash, faults
    <2> QED
      BY <2>1, <2>2 DEF OnClose
  <1>10. ASSUME UNCHANGED vars
         PROVE  TypeOK'
    BY <1>10 DEF vars, server, client, handler, faults
  <1>11. ASSUME NEW sk \in Sockets, ServerNotices(sk)
         PROVE  TypeOK'
    BY <1>6, <1>11 DEF ServerNotices, faults
  <1>12. ASSUME ServerDrops
         PROVE  TypeOK'
    BY <1>6, <1>12 DEF ServerDrops
  <1> QED
    BY <1>1, <1>2, <1>3, <1>4, <1>5, <1>7, <1>8, <1>9, <1>10, <1>11, <1>12 DEF Next

\* What a connection step can do to the messages: frames appear in the channel
\* to the client only from the mailbox, and acks only disappear.
LEMMA ConnectionFacts ==
  ASSUME TypeOK, Connection
  PROVE  /\ UNCHANGED <<mailbox, accepted, handler, crashes>>
         /\ \A sk \in Sockets : up'[sk] \subseteq up[sk]
         /\ down' \subseteq mailbox \union down
         /\ down' = down \/ down' = {} \/ (down = {} /\ down' = mailbox)
  <1> USE DEF TypeOK
  <1>1. ASSUME NEW sk \in Sockets, Connect(sk)
        PROVE  UNCHANGED <<mailbox, accepted, handler, crashes, up, down>>
    BY <1>1 DEF Connect, server, handler, faults
  <1>2. ASSUME NEW sk, Unregister(sk)
        PROVE  /\ UNCHANGED <<mailbox, accepted, handler, down>>
               /\ \A k \in Sockets : up'[k] \subseteq up[k]
    BY <1>2 DEF Unregister, client, handler
  <1>3. ASSUME NEW sk \in Sockets, ServerNotices(sk)
        PROVE  /\ UNCHANGED <<mailbox, accepted, handler, crashes, down>>
               /\ \A k \in Sockets : up'[k] \subseteq up[k]
    BY <1>2, <1>3 DEF ServerNotices, faults
  <1>4. ASSUME ServerDrops
        PROVE  /\ UNCHANGED <<mailbox, accepted, handler, crashes, down>>
               /\ \A k \in Sockets : up'[k] \subseteq up[k]
    BY <1>2, <1>4 DEF ServerDrops
  <1>5. ASSUME ServerRestarts
        PROVE  /\ UNCHANGED <<mailbox, accepted, handler, crashes, down>>
               /\ \A k \in Sockets : up'[k] \subseteq up[k]
    BY <1>5 DEF ServerRestarts, client, handler
  <1>6. ASSUME GatewayOpens
        PROVE  /\ UNCHANGED <<mailbox, accepted, handler, crashes, up>>
               /\ down = {} /\ down' = mailbox
    BY <1>6 DEF GatewayOpens, Drain, handler, faults
  <1>7. ASSUME ClientNotices \/ ClientDrops
        PROVE  /\ UNCHANGED <<mailbox, accepted, handler, crashes, up>>
               /\ down' = {}
    BY <1>7 DEF ClientNotices, ClientDrops, OnClose, server, handler, faults
  <1> QED
    BY <1>1, <1>3, <1>4, <1>5, <1>6, <1>7 DEF Connection

\* Every step keeps the custody of messages.
LEMMA CustodyStep ==
  ASSUME TypeOK, Custody, [Next]_vars
  PROVE  Custody'
  <1> USE DEF TypeOK, Custody, Taken
  <1>1. ASSUME NEW m \in Msgs, SendEnvelope(m)
        PROVE  Custody'
    BY <1>1 DEF SendEnvelope, Enqueue, Deliver, handler
  <1>2. ASSUME NEW m \in Msgs, HandleIncoming(m)
        PROVE  Custody'
    BY <1>2 DEF HandleIncoming, Fresh
  <1>3. ASSUME NEW m \in Msgs, SaveRatchet(m)
        PROVE  Custody'
    BY <1>3 DEF SaveRatchet, server, client
  <1>4. ASSUME NEW m \in Msgs, PutMessage(m)
        PROVE  Custody'
    BY <1>4 DEF PutMessage, server, client
  <1>5. ASSUME NEW sk \in Sockets, NEW m \in Msgs, AckDelete(sk, m)
        PROVE  Custody'
    BY <1>5 DEF AckDelete, client, handler
  <1>6. ASSUME Connection
        PROVE  Custody'
    BY <1>6, ConnectionFacts DEF handler
  <1>7. ASSUME Crash
        PROVE  Custody'
    BY <1>7 DEF Crash, OnClose, server
  <1>8. ASSUME UNCHANGED vars
        PROVE  Custody'
    BY <1>8 DEF vars, server, client, handler
  <1> QED
    BY <1>1, <1>2, <1>3, <1>4, <1>5, <1>6, <1>7, <1>8 DEF Next, Connection

\* Until a page crashes, an ack is only sent for what the page has taken.
LEMMA HonestStep ==
  ASSUME IInv, [Next]_vars
  PROVE  HonestAcks'
  <1> SUFFICES ASSUME crashes' = 0
               PROVE  /\ \A sk \in Sockets : up'[sk] \subseteq Taken'
                      /\ accepted' \subseteq mailbox' \union Taken'
                      /\ saved' \subseteq routing' \union store'
    BY DEF HonestAcks
  <1> DEFINE Goal == /\ \A sk \in Sockets : up'[sk] \subseteq Taken'
                     /\ accepted' \subseteq mailbox' \union Taken'
                     /\ saved' \subseteq routing' \union store'
  <1>1. ASSUME crashes = 0
        PROVE  /\ \A sk \in Sockets : up[sk] \subseteq Taken
               /\ accepted \subseteq mailbox \union Taken
               /\ saved \subseteq routing \union store
    BY <1>1 DEF IInv, HonestAcks
  <1> USE DEF IInv, TypeOK, Taken
  <1>2. ASSUME NEW m \in Msgs, SendEnvelope(m)
        PROVE  Goal
    BY <1>1, <1>2 DEF SendEnvelope, Enqueue, Deliver, handler, faults
  <1>3. ASSUME NEW m \in Msgs, HandleIncoming(m)
        PROVE  Goal
    <2>1. crashes = 0
      BY <1>3 DEF HandleIncoming, faults
    <2>2. Taken' = Taken \union (IF Fresh(m) THEN {m} ELSE {})
      BY <1>3 DEF HandleIncoming
    <2>3. ~Fresh(m) => m \in Taken
      BY <1>1, <2>1 DEF Fresh
    <2>4. \A sk \in Sockets : up'[sk] \subseteq up[sk] \union {m}
      BY <1>3 DEF HandleIncoming
    <2>5. UNCHANGED <<accepted, mailbox, saved, routing, store>>
      BY <1>3 DEF HandleIncoming
    <2> HIDE DEF Taken
    <2> QED
      BY <1>1, <2>1, <2>2, <2>3, <2>4, <2>5
  <1>4. ASSUME NEW m \in Msgs, SaveRatchet(m)
        PROVE  Goal
    BY <1>1, <1>4 DEF SaveRatchet, server, client, faults
  <1>5. ASSUME NEW m \in Msgs, PutMessage(m)
        PROVE  Goal
    BY <1>1, <1>5 DEF PutMessage, server, client, faults
  <1>6. ASSUME NEW sk \in Sockets, NEW m \in Msgs, AckDelete(sk, m)
        PROVE  Goal
    <2>1. crashes = 0 /\ Taken' = Taken
      BY <1>6 DEF AckDelete, handler, faults
    <2>2. m \in Taken
      BY <1>1, <1>6, <2>1 DEF AckDelete
    <2>3. \A k \in Sockets : up'[k] \subseteq up[k]
      BY <1>6 DEF AckDelete
    <2>4. mailbox' = mailbox \ {m} /\ UNCHANGED <<accepted, saved, routing, store>>
      BY <1>6 DEF AckDelete, client, handler
    <2> HIDE DEF Taken
    <2> QED
      BY <1>1, <2>1, <2>2, <2>3, <2>4
  <1>7. ASSUME Connection
        PROVE  Goal
    BY <1>1, <1>7, ConnectionFacts DEF handler
  <1>8. ASSUME Crash
        PROVE  FALSE
    BY <1>8 DEF Crash
  <1>9. ASSUME UNCHANGED vars
        PROVE  Goal
    BY <1>1, <1>9 DEF vars, server, client, handler, faults
  <1> QED
    BY <1>2, <1>3, <1>4, <1>5, <1>6, <1>7, <1>8, <1>9 DEF Next, Connection

\* A row gets its frame when it is stored or drained, and the frame is followed
\* by an ack on the same socket before it is gone.
LEMMA RowsStep ==
  ASSUME TypeOK, RowsOnTheWay, [Next]_vars
  PROVE  RowsOnTheWay'
  <1> SUFFICES ASSUME sock' \in sinks'
               PROVE  mailbox' \subseteq down' \union up'[sock']
    BY DEF RowsOnTheWay
  <1> USE DEF TypeOK, RowsOnTheWay
  <1>1. ASSUME NEW m \in Msgs, SendEnvelope(m)
        PROVE  mailbox' \subseteq down' \union up'[sock']
    BY <1>1 DEF SendEnvelope, Enqueue, Deliver
  <1>2. ASSUME NEW m \in Msgs, HandleIncoming(m)
        PROVE  mailbox' \subseteq down' \union up'[sock']
    <2>1. sock \in sinks /\ sock \in Sockets /\ UNCHANGED <<mailbox, sock>>
      BY <1>2 DEF HandleIncoming
    <2>2. up'[sock] = up[sock] \union {m} /\ down' = down \ {m}
      BY <1>2, <2>1 DEF HandleIncoming
    <2> QED
      BY <2>1, <2>2
  <1>3. ASSUME NEW m \in Msgs, SaveRatchet(m) \/ PutMessage(m)
        PROVE  mailbox' \subseteq down' \union up'[sock']
    BY <1>3 DEF SaveRatchet, PutMessage, server, client
  <1>4. ASSUME NEW sk \in Sockets, NEW m \in Msgs, AckDelete(sk, m)
        PROVE  mailbox' \subseteq down' \union up'[sock']
    <2>1. sock \in sinks /\ sock \in Sockets /\ UNCHANGED <<sock, down>>
      BY <1>4 DEF AckDelete, client
    <2>2. mailbox' = mailbox \ {m} /\ up[sock] \ {m} \subseteq up'[sock]
      BY <1>4, <2>1 DEF AckDelete
    <2> QED
      BY <2>1, <2>2
  <1>5. ASSUME NEW sk \in Sockets, Connect(sk)
        PROVE  FALSE
    BY <1>5 DEF Connect, server
  <1>6. ASSUME NEW sk \in Sockets, ServerNotices(sk)
        PROVE  mailbox' \subseteq down' \union up'[sock']
    <2>1. sock \in sinks /\ sock \in Sockets /\ sock # sk /\ UNCHANGED <<mailbox, sock, down>>
      BY <1>6 DEF ServerNotices, Unregister, client
    <2>2. up'[sock] = up[sock]
      BY <1>6, <2>1 DEF ServerNotices, Unregister
    <2> QED
      BY <2>1, <2>2
  <1>7. CASE GatewayOpens
    BY <1>7 DEF GatewayOpens, Drain
  <1>8. CASE ServerDrops \/ ServerRestarts
    BY <1>8 DEF ServerDrops, Unregister, ServerRestarts, client
  <1>9. CASE ClientNotices \/ ClientDrops \/ Crash
    BY <1>9, SocketAssumption DEF ClientNotices, ClientDrops, Crash, OnClose, server
  <1>10. CASE UNCHANGED vars
    BY <1>10 DEF vars, server, client
  <1> QED
    BY <1>1, <1>2, <1>3, <1>4, <1>5, <1>6, <1>7, <1>8, <1>9, <1>10 DEF Next

(***************************************************************************)
(* The theorems.                                                           *)
(***************************************************************************)

\* The invariant is inductive.
LEMMA Inductive ==
  /\ Init => IInv
  /\ IInv /\ [Next]_vars => IInv'
  <1>1. Init => IInv
    <2> SUFFICES ASSUME Init
                 PROVE  IInv
      OBVIOUS
    <2>1. TypeOK
      <3>1. drops \in 0..MaxDrops /\ crashes \in 0..MaxCrashes
        BY BoundAssumption DEF Init
      <3>2. up \in [Sockets -> SUBSET Msgs]
        BY DEF Init
      <3>3. opened = FALSE /\ due = TRUE /\ sock = NoSocket
        BY DEF Init
      <3>4. opened \in BOOLEAN /\ due \in BOOLEAN
        BY <3>3
      <3>5. (due <=> sock = NoSocket) /\ ~opened
        BY <3>3
      <3> QED
        BY <3>1, <3>2, <3>4, <3>5 DEF Init, TypeOK
    <2>2. Custody /\ HonestAcks /\ RowsOnTheWay
      BY DEF Init, Custody, HonestAcks, Taken, RowsOnTheWay
    <2> QED
      BY <2>1, <2>2 DEF IInv
  <1>2. IInv /\ [Next]_vars => IInv'
    BY TypeStep, CustodyStep, HonestStep, RowsStep DEF IInv
  <1> QED
    BY <1>1, <1>2

\* Every reachable state is well typed; a reconnect is pending exactly while
\* the client has no socket.
THEOREM TypeCorrect == Spec => []TypeOK
  <1>1. IInv => TypeOK
    BY DEF IInv
  <1> QED
    BY <1>1, Inductive, PTL DEF Spec

\* However often connections break and acks go missing, no message is lost before
\* a page crashes: ws.ts keeps a row until it is acked, and messaging.ts acks what
\* it goes on to save.
THEOREM NoneLost == Spec => [](crashes = 0 => Lost = {})
  <1>1. IInv => (crashes = 0 => Lost = {})
    BY DEF IInv, HonestAcks, Lost, Taken
  <1> QED
    BY <1>1, Inductive, PTL DEF Spec

\* No message is processed again once its record is saved.
THEOREM ProcessedOnce == Spec => []HandledOnce
  <1>1. IInv => HandledOnce
    BY DEF IInv, Custody, HandledOnce, Taken
  <1> QED
    BY <1>1, Inductive, PTL DEF Spec

\* GatewayOpens need not be repeated for any row, whatever acks and frames of
\* earlier sockets were lost.
THEOREM NoRowWaits == Spec => []RowsOnTheWay
  <1>1. IInv => RowsOnTheWay
    BY DEF IInv
  <1> QED
    BY <1>1, Inductive, PTL DEF Spec

(***************************************************************************)
(* Refinement of StoreForward.                                             *)
(***************************************************************************)

\* A lost message stays lost, and none is lost unless a page has crashed.
Settles ==
  /\ UNCHANGED <<accepted, store>>
  /\ Lost \subseteq Lost'
  /\ crashes' \in {crashes, crashes + 1}
  /\ Lost' # Lost => crashes' > 0

\* A step that settles is a Fail step of the abstract service or a stutter.
LEMMA SettlesIsAbstract ==
  ASSUME Settles, crashes \in Nat
  PROVE  [Abstract!Next]_(Abstract!vars)
  <1>1. Lost' \subseteq Lost \union (accepted \ (store \union Lost))
    BY DEF Settles, Lost, Taken
  <1>2. (accepted \ (store \union Lost))' = (accepted \ (store \union Lost)) \ Lost'
    BY DEF Settles
  <1>3. CASE Lost' = Lost /\ crashes' = crashes
    BY <1>3 DEF Settles, Abstract!vars
  <1>4. CASE Lost' # Lost \/ crashes' # crashes
    <2>1. crashes' > 0
      BY <1>4 DEF Settles
    <2>2. Abstract!Fail
      BY <1>1, <1>2, <2>1 DEF Settles, Abstract!Fail
    <2> QED
      BY <2>2 DEF Abstract!Next
  <1> QED
    BY <1>3, <1>4

\* Every step of the message path is a step of the abstract service.
LEMMA StepRefines ==
  ASSUME IInv, IInv', [Next]_vars
  PROVE  [Abstract!Next]_(Abstract!vars)
  <1> USE DEF IInv, Custody, TypeOK
  <1>0. ASSUME crashes = 0, crashes' = 0
        PROVE  Lost = {} /\ Lost' = {}
    BY <1>0 DEF HonestAcks, Lost, Taken
  <1>00. crashes \in Nat
    BY BoundAssumption
  <1>01. ASSUME crashes' = crashes
         PROVE  /\ crashes' \in {crashes, crashes + 1}
                /\ Lost' # Lost => crashes' > 0
    <2>1. CASE crashes = 0
      BY <1>0, <1>01, <2>1
    <2>2. CASE crashes # 0
      <3>1. crashes' > 0
        BY <1>00, <1>01, <2>2
      <3> QED
        BY <1>01, <3>1
    <2> QED
      BY <2>1, <2>2
  <1>1. ASSUME NEW m \in Msgs, SendEnvelope(m)
        PROVE  [Abstract!Next]_(Abstract!vars)
    <2>1. /\ m \notin accepted /\ accepted' = accepted \union {m}
          /\ UNCHANGED <<decrypted, routing, saved, store, crashes>>
          /\ mailbox' = mailbox \union {m}
          /\ down \subseteq down' /\ down' \subseteq down \union {m}
      BY <1>1 DEF SendEnvelope, Enqueue, Deliver, handler, faults
    <2>2. Lost' = Lost
      BY <2>1 DEF Lost, Taken
    <2>3. m \notin store \union Lost
      BY <2>1 DEF Taken, Lost
    <2>4. (accepted \ (store \union Lost))' = (accepted \ (store \union Lost)) \union {m}
      BY <2>1, <2>2, <2>3
    <2>5. Abstract!Accept(m)
      BY <2>1, <2>2, <2>3, <2>4 DEF Abstract!Accept, Abstract!Known
    <2> QED
      BY <2>5 DEF Abstract!Next
  <1>2. ASSUME NEW m \in Msgs, HandleIncoming(m)
        PROVE  Settles
    <2>1. /\ UNCHANGED <<mailbox, accepted, routing, saved, store, crashes>>
          /\ m \in down /\ down' = down \ {m}
          /\ decrypted' = IF Fresh(m) THEN decrypted \union {m} ELSE decrypted
      BY <1>2 DEF HandleIncoming, faults
    <2>2. Lost \subseteq Lost'
      <3>1. CASE Fresh(m)
        BY <2>1, <3>1 DEF Lost, Taken, Fresh
      <3>2. CASE ~Fresh(m)
        BY <2>1, <3>2 DEF Lost, Taken, Fresh
      <3> QED
        BY <3>1, <3>2
    <2> QED
      BY <1>01, <2>1, <2>2 DEF Settles
  <1>3. ASSUME NEW m \in Msgs, SaveRatchet(m)
        PROVE  Settles
    <2>1. UNCHANGED <<accepted, store, crashes>> /\ Lost \subseteq Lost'
      BY <1>3 DEF SaveRatchet, server, client, faults, Lost, Taken
    <2> QED
      BY <1>01, <2>1 DEF Settles
  <1>4. ASSUME NEW m \in Msgs, PutMessage(m)
        PROVE  [Abstract!Next]_(Abstract!vars)
    <2>1. /\ m \in routing /\ m \notin store /\ m \in accepted
          /\ store' = store \union {m} /\ UNCHANGED <<accepted, crashes>>
      BY <1>4 DEF PutMessage, Taken, server, faults
    <2>2. Lost' = Lost /\ m \notin Lost
      BY <1>4 DEF PutMessage, Lost, Taken, server, client
    <2>3. Abstract!Deliver(m)
      BY <2>1, <2>2 DEF Abstract!Deliver
    <2> QED
      BY <2>3 DEF Abstract!Next
  <1>5. ASSUME NEW sk \in Sockets, NEW m \in Msgs, AckDelete(sk, m)
        PROVE  Settles
    <2>1. /\ UNCHANGED <<accepted, decrypted, routing, saved, store, down, crashes>>
          /\ mailbox' = mailbox \ {m}
      BY <1>5 DEF AckDelete, client, handler, faults
    <2>2. Lost \subseteq Lost'
      BY <2>1 DEF Lost, Taken
    <2> QED
      BY <1>01, <2>1, <2>2 DEF Settles
  <1>6. ASSUME Connection
        PROVE  Settles
    <2>1. /\ UNCHANGED <<mailbox, accepted, decrypted, routing, saved, store, crashes>>
          /\ mailbox \union down' \subseteq mailbox \union down
      BY <1>6, ConnectionFacts DEF handler
    <2>2. Lost \subseteq Lost'
      BY <2>1 DEF Lost, Taken
    <2> QED
      BY <1>01, <2>1, <2>2 DEF Settles
  <1>7. ASSUME Crash
        PROVE  Settles
    <2>1. /\ UNCHANGED <<mailbox, accepted, saved, store>>
          /\ decrypted' = {} /\ routing' = {} /\ down' = {}
      BY <1>7 DEF Crash, OnClose, server
    <2>2. Lost \subseteq Lost'
      BY <2>1 DEF Lost, Taken
    <2>3. crashes' = crashes + 1 /\ crashes' > 0
      BY <1>7, <1>00 DEF Crash
    <2> QED
      BY <2>1, <2>2, <2>3 DEF Settles
  <1>8. ASSUME UNCHANGED vars
        PROVE  Settles
    <2>1. UNCHANGED <<accepted, store, crashes>> /\ Lost' = Lost
      BY <1>8 DEF vars, server, client, handler, faults, Lost, Taken
    <2> QED
      BY <2>1 DEF Settles
  <1> QED
    BY <1>1, <1>2, <1>3, <1>4, <1>5, <1>6, <1>7, <1>8, <1>00, SettlesIsAbstract
    DEF Next, Connection

\* The message path implements store-and-forward: an accepted message is
\* delivered at most once and then kept, a lost one never comes back, and
\* none is lost before a page has crashed.
THEOREM Refinement == Spec => ImplementsStoreForward
  <1>1. Init => Abstract!Init
    BY DEF Init, Abstract!Init, Lost, Taken
  <1> QED
    BY <1>1, StepRefines, Inductive, PTL DEF Spec, ImplementsStoreForward, Abstract!Spec
=============================================================================

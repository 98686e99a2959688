-------------------------- MODULE DirectMessageProofs --------------------------
(***************************************************************************)
(* Proofs about DirectMessage.  The composition is shown to implement each *)
(* of its components, so that what ConversationProofs and MailboxProofs    *)
(* prove of them holds in it; what it says end to end follows from their   *)
(* invariants and from how they are connected.                             *)
(***************************************************************************)
EXTENDS DirectMessage, TLAPS

\* The components once more, with the proofs about them.
SenderP == INSTANCE ConversationProofs WITH Own <- Messages, Peer <- {}

PathP == INSTANCE MailboxProofs WITH Msgs <- Messages, MaxDrops <- MaxBreaks, drops <- breaks

RecipientP == INSTANCE ConversationProofs WITH
  Own <- {}, Peer <- Messages, MaxReloads <- MaxCrashes, MaxDrops <- 0,
  table <- inTable, listed <- inListed, view <- inView, known <- inKnown,
  stage <- inStage, gap <- inGap, snapshot <- [m \in {} |-> {}],
  served <- [m \in {} |-> {}], handed <- [m \in {} |-> {}],
  open <- ~TRUE, reloads <- crashes, drops <- 0

\* What they assume of their constants holds of the values they are given.
LEMMA Assumptions ==
  /\ Messages \intersect {} = {} /\ {} \intersect Messages = {}
  /\ Devices # {}
  /\ MaxReloads \in Nat /\ MaxDrops \in Nat
  /\ MaxBreaks \in Nat /\ MaxCrashes \in Nat /\ 0 \in Nat
  /\ NoSocket \notin Sockets
  BY WatchedAssumption, SocketAssumption, BoundAssumption

(***************************************************************************)
(* Both names of a component mean the same.                                *)
(***************************************************************************)

LEMMA SamePath ==
  /\ Path!Init <=> PathP!Init
  /\ Path!Next <=> PathP!Next
  /\ Path!TypeOK <=> PathP!TypeOK
  <1>1. Path!Init <=> PathP!Init
    BY DEF Path!Init, PathP!Init
  <1>2. Path!TypeOK <=> PathP!TypeOK
    BY DEF Path!TypeOK, PathP!TypeOK
  <1>3. Path!Next <=> PathP!Next
    BY DEF Path!Next, Path!SendEnvelope, Path!Enqueue, Path!Deliver, Path!HandleIncoming,
       Path!Fresh, Path!SaveRatchet, Path!PutMessage, Path!Connect, Path!ServerNotices,
       Path!Unregister, Path!AckDelete, Path!GatewayOpens, Path!Drain, Path!ServerDrops,
       Path!ServerRestarts, Path!ClientNotices, Path!ClientDrops, Path!OnClose, Path!Crash,
       Path!server, Path!client, Path!handler, Path!faults,
       PathP!Next, PathP!SendEnvelope, PathP!Enqueue, PathP!Deliver, PathP!HandleIncoming,
       PathP!Fresh, PathP!SaveRatchet, PathP!PutMessage, PathP!Connect, PathP!ServerNotices,
       PathP!Unregister, PathP!AckDelete, PathP!GatewayOpens, PathP!Drain, PathP!ServerDrops,
       PathP!ServerRestarts, PathP!ClientNotices, PathP!ClientDrops, PathP!OnClose, PathP!Crash,
       PathP!server, PathP!client, PathP!handler, PathP!faults
  <1> QED
    BY <1>1, <1>2, <1>3

LEMMA SameSender ==
  /\ Sender!Init <=> SenderP!Init
  /\ Sender!Next <=> SenderP!Next
  /\ Sender!TypeOK <=> SenderP!TypeOK
  <1>1. Sender!Init <=> SenderP!Init
    BY DEF Sender!Init, Sender!Empty, Sender!Msgs, SenderP!Init, SenderP!Empty, SenderP!Msgs
  <1>2. Sender!TypeOK <=> SenderP!TypeOK
    BY DEF Sender!TypeOK, Sender!Views, Sender!Statuses, Sender!Stages, Sender!Settled,
       Sender!Empty, Sender!Msgs, SenderP!TypeOK, SenderP!Views, SenderP!Statuses,
       SenderP!Stages, SenderP!Settled, SenderP!Empty, SenderP!Msgs
  <1>3. Sender!Next <=> SenderP!Next
    BY DEF Sender!Next, Sender!FinishAppend, Sender!RouteOlmContent, Sender!SendText,
       Sender!SendAttachment, Sender!Uploaded, Sender!StartAppend, Sender!SendOlmContent,
       Sender!Sent, Sender!SendThrows, Sender!StartUpdate, Sender!FinishUpdate,
       Sender!EnsureDm, Sender!SocketCloses, Sender!SocketOpens, Sender!Boot,
       Sender!Written, Sender!FirstStatus, Sender!Overtakes, Sender!Empty, Sender!Msgs,
       SenderP!Next, SenderP!FinishAppend, SenderP!RouteOlmContent, SenderP!SendText,
       SenderP!SendAttachment, SenderP!Uploaded, SenderP!StartAppend, SenderP!SendOlmContent,
       SenderP!Sent, SenderP!SendThrows, SenderP!StartUpdate, SenderP!FinishUpdate,
       SenderP!EnsureDm, SenderP!SocketCloses, SenderP!SocketOpens, SenderP!Boot,
       SenderP!Written, SenderP!FirstStatus, SenderP!Overtakes, SenderP!Empty, SenderP!Msgs
  <1> QED
    BY <1>1, <1>2, <1>3

LEMMA SameRecipient ==
  /\ Recipient!Init <=> RecipientP!Init
  /\ Recipient!Next <=> RecipientP!Next
  /\ Recipient!TypeOK <=> RecipientP!TypeOK
  <1>1. Recipient!Init <=> RecipientP!Init
    BY DEF Recipient!Init, Recipient!Empty, Recipient!Msgs, RecipientP!Init, RecipientP!Empty, RecipientP!Msgs
  <1>2. Recipient!TypeOK <=> RecipientP!TypeOK
    BY DEF Recipient!TypeOK, Recipient!Views, Recipient!Statuses, Recipient!Stages, Recipient!Settled,
       Recipient!Empty, Recipient!Msgs, RecipientP!TypeOK, RecipientP!Views, RecipientP!Statuses,
       RecipientP!Stages, RecipientP!Settled, RecipientP!Empty, RecipientP!Msgs
  <1>3. Recipient!Next <=> RecipientP!Next
    BY DEF Recipient!Next, Recipient!FinishAppend, Recipient!RouteOlmContent, Recipient!SendText,
       Recipient!SendAttachment, Recipient!Uploaded, Recipient!StartAppend, Recipient!SendOlmContent,
       Recipient!Sent, Recipient!SendThrows, Recipient!StartUpdate, Recipient!FinishUpdate,
       Recipient!EnsureDm, Recipient!SocketCloses, Recipient!SocketOpens, Recipient!Boot,
       Recipient!Written, Recipient!FirstStatus, Recipient!Overtakes, Recipient!Empty, Recipient!Msgs,
       RecipientP!Next, RecipientP!FinishAppend, RecipientP!RouteOlmContent, RecipientP!SendText,
       RecipientP!SendAttachment, RecipientP!Uploaded, RecipientP!StartAppend, RecipientP!SendOlmContent,
       RecipientP!Sent, RecipientP!SendThrows, RecipientP!StartUpdate, RecipientP!FinishUpdate,
       RecipientP!EnsureDm, RecipientP!SocketCloses, RecipientP!SocketOpens, RecipientP!Boot,
       RecipientP!Written, RecipientP!FirstStatus, RecipientP!Overtakes, RecipientP!Empty, RecipientP!Msgs
  <1> QED
    BY <1>1, <1>2, <1>3

(***************************************************************************)
(* The composition implements its components.                              *)
(***************************************************************************)

\* What the server and the device's connection do is nothing to the pages.
LEMMA PathWorksFacts ==
  ASSUME PathWorks
  PROVE  Path!Next /\ UNCHANGED <<store, crashes, sender, link, recipient>>
  <1>1. UNCHANGED <<sender, link, recipient>>
    BY DEF PathWorks
  <1>2. ASSUME NEW m \in Messages, Path!HandleIncoming(m) \/ Path!SaveRatchet(m)
        PROVE  Path!Next /\ UNCHANGED <<store, crashes>>
    BY <1>2 DEF Path!Next, Path!HandleIncoming, Path!SaveRatchet, Path!faults
  <1>3. ASSUME NEW sk \in Sockets, Path!Connect(sk) \/ Path!ServerNotices(sk)
        PROVE  Path!Next /\ UNCHANGED <<store, crashes>>
    BY <1>3 DEF Path!Next, Path!Connect, Path!ServerNotices, Path!Unregister, Path!handler, Path!faults
  <1>4. ASSUME NEW sk \in Sockets, NEW m \in Messages, Path!AckDelete(sk, m)
        PROVE  Path!Next /\ UNCHANGED <<store, crashes>>
    BY <1>4 DEF Path!Next, Path!AckDelete, Path!handler, Path!faults
  <1>5. ASSUME Path!GatewayOpens \/ Path!ServerDrops
        PROVE  Path!Next /\ UNCHANGED <<store, crashes>>
    BY <1>5 DEF Path!Next, Path!GatewayOpens, Path!ServerDrops, Path!Unregister, Path!handler, Path!faults
  <1>6. ASSUME Path!ClientNotices \/ Path!ClientDrops
        PROVE  Path!Next /\ UNCHANGED <<store, crashes>>
    BY <1>6 DEF Path!Next, Path!ClientNotices, Path!ClientDrops, Path!handler, Path!faults
  <1> QED
    BY <1>1, <1>2, <1>3, <1>4, <1>5, <1>6 DEF PathWorks

LEMMA SenderStep == [Next]_vars => [Sender!Next]_(Sender!vars)
  <1> SUFFICES ASSUME [Next]_vars
               PROVE  Sender!Next \/ UNCHANGED Sender!vars
    OBVIOUS
  <1>1. UNCHANGED sender => UNCHANGED Sender!vars
    BY DEF sender, Sender!vars
  <1>2. CASE SenderWorks
    BY <1>2 DEF SenderWorks, Sender!Next, Sender!Msgs
  <1>3. ASSUME NEW m \in Messages, NEW d \in Devices, SendOlmContent(m, d)
        PROVE  Sender!Next
    BY <1>3 DEF SendOlmContent, Sender!Next
  <1>4. CASE SocketOpens \/ SenderLeaves
    BY <1>4 DEF SocketOpens, SenderLeaves, Sender!Next
  <1>5. CASE UplinkCut \/ ServerRestarts \/ RecipientOpens \/ RecipientReboots
    BY <1>1, <1>5 DEF UplinkCut, ServerRestarts, RecipientOpens, RecipientReboots
  <1>6. ASSUME NEW m \in Messages, ServerReceives(m) \/ Route(m) \/ Append(m)
        PROVE  UNCHANGED Sender!vars
    BY <1>1, <1>6 DEF ServerReceives, Route, Append
  <1>7. CASE PathWorks
    BY <1>1, <1>7, PathWorksFacts
  <1>8. CASE UNCHANGED vars
    BY <1>1, <1>8 DEF vars
  <1> QED
    BY <1>2, <1>3, <1>4, <1>5, <1>6, <1>7, <1>8 DEF Next

LEMMA PathStep == [Next]_vars => [Path!Next]_(Path!vars)
  <1> SUFFICES ASSUME [Next]_vars
               PROVE  Path!Next \/ UNCHANGED Path!vars
    OBVIOUS
  <1>1. UNCHANGED path => UNCHANGED Path!vars
    BY DEF path, Path!vars, Path!server, Path!client, Path!handler, Path!faults
  <1>2. CASE SenderWorks \/ SocketOpens \/ SenderLeaves \/ UplinkCut \/ RecipientOpens
    BY <1>1, <1>2 DEF SenderWorks, SocketOpens, SenderLeaves, UplinkCut, RecipientOpens
  <1>3. ASSUME NEW m \in Messages, NEW d \in Devices, SendOlmContent(m, d)
        PROVE  UNCHANGED Path!vars
    BY <1>1, <1>3 DEF SendOlmContent
  <1>4. ASSUME NEW m \in Messages, ServerReceives(m) \/ Append(m)
        PROVE  Path!Next
    BY <1>4 DEF ServerReceives, Append, Path!Next
  <1>5. ASSUME NEW m \in Messages, Route(m)
        PROVE  UNCHANGED Path!vars
    BY <1>1, <1>5 DEF Route
  <1>6. CASE ServerRestarts \/ RecipientReboots
    BY <1>6 DEF ServerRestarts, RecipientReboots, Path!Next
  <1>7. CASE PathWorks
    BY <1>7, PathWorksFacts
  <1>8. CASE UNCHANGED vars
    BY <1>1, <1>8 DEF vars
  <1> QED
    BY <1>2, <1>3, <1>4, <1>5, <1>6, <1>7, <1>8 DEF Next

LEMMA RecipientStep == [Next]_vars => [Recipient!Next]_(Recipient!vars)
  <1> SUFFICES ASSUME [Next]_vars
               PROVE  Recipient!Next \/ UNCHANGED Recipient!vars
    OBVIOUS
  <1>1. UNCHANGED <<recipient, crashes>> => UNCHANGED Recipient!vars
    BY DEF recipient, Recipient!vars
  <1>2. UNCHANGED path => UNCHANGED crashes
    BY DEF path
  <1>3. CASE SenderWorks \/ SocketOpens \/ SenderLeaves \/ UplinkCut
    BY <1>1, <1>2, <1>3 DEF SenderWorks, SocketOpens, SenderLeaves, UplinkCut
  <1>4. ASSUME NEW m \in Messages, NEW d \in Devices, SendOlmContent(m, d)
        PROVE  UNCHANGED Recipient!vars
    BY <1>1, <1>2, <1>4 DEF SendOlmContent
  <1>5. ASSUME NEW m \in Messages, ServerReceives(m)
        PROVE  UNCHANGED Recipient!vars
    BY <1>1, <1>5 DEF ServerReceives, Path!SendEnvelope, Path!faults
  <1>6. ASSUME NEW m \in Messages, Route(m) \/ Append(m)
        PROVE  Recipient!Next
    BY <1>6 DEF Route, Append, Recipient!Next, Recipient!Msgs
  <1>7. CASE ServerRestarts
    BY <1>1, <1>7 DEF ServerRestarts, Path!ServerRestarts
  <1>8. CASE RecipientOpens \/ RecipientReboots
    BY <1>8 DEF RecipientOpens, RecipientReboots, Recipient!Next
  <1>9. CASE PathWorks
    BY <1>1, <1>9, PathWorksFacts
  <1>10. CASE UNCHANGED vars
    BY <1>1, <1>2, <1>10 DEF vars
  <1> QED
    BY <1>3, <1>4, <1>5, <1>6, <1>7, <1>8, <1>9, <1>10 DEF Next

\* Each component behaves in the composition as its module says.
THEOREM Components == Spec => Sender!Spec /\ Path!Spec /\ Recipient!Spec
  <1>1. Init => Sender!Init /\ Path!Init /\ Recipient!Init
    BY DEF Init
  <1> QED
    BY <1>1, SenderStep, PathStep, RecipientStep, PTL
       DEF Spec, Sender!Spec, Path!Spec, Recipient!Spec

(***************************************************************************)
(* How the components are connected.                                       *)
(***************************************************************************)

\* A frame on the wire or at the server was written, to a device that was
\* served, of a message that is on record.
Carried ==
  /\ wire \intersect accepted = {}
  /\ \A m \in wire \union accepted : Watched \in handed[m]
  /\ \A m \in Messages : handed[m] \subseteq served[m]
  /\ \A m \in Messages : served[m] # {} => table[m] # "none"

\* Until the sender is disconnected, no frame is lost between it and the server.
Reliable ==
  reloads = 0 /\ drops = 0 /\ cuts = 0 =>
    /\ open => uplink
    /\ \A m \in Messages : Watched \in handed[m] => m \in wire \union accepted

\* The sender's table holds messages it sends; the device's table holds the
\* records that were put, all of them received, and its screen is complete
\* until it reloads.
Linked ==
  /\ \A m \in Messages : table[m] # "received"
  /\ \A m \in Messages : inTable[m] = IF m \in store THEN "received" ELSE "none"
  /\ crashes = 0 => ~inGap

LinkTypes ==
  /\ wire \subseteq Messages /\ uplink \in BOOLEAN
  /\ cuts \in 0..MaxCuts
  /\ uplink => open

IInv ==
  /\ SenderP!IInv /\ PathP!IInv /\ RecipientP!IInv
  /\ Carried /\ Reliable /\ Linked /\ LinkTypes

\* The invariants of the components, from the proofs about them.
LEMMA ComponentsInductive ==
  /\ Init => SenderP!IInv /\ PathP!IInv /\ RecipientP!IInv
  /\ SenderP!IInv /\ [Next]_vars => SenderP!IInv'
  /\ PathP!IInv /\ [Next]_vars => PathP!IInv'
  /\ RecipientP!IInv /\ [Next]_vars => RecipientP!IInv'
  <1>1. /\ SenderP!Init => SenderP!IInv
        /\ SenderP!IInv /\ [SenderP!Next]_(SenderP!vars) => SenderP!IInv'
    BY Assumptions, SenderP!Inductive
  <1>2. /\ PathP!Init => PathP!IInv
        /\ PathP!IInv /\ [PathP!Next]_(PathP!vars) => PathP!IInv'
    BY Assumptions, PathP!Inductive
  <1>3. /\ RecipientP!Init => RecipientP!IInv
        /\ RecipientP!IInv /\ [RecipientP!Next]_(RecipientP!vars) => RecipientP!IInv'
    BY Assumptions, RecipientP!Inductive
  <1>4. [Next]_vars => [SenderP!Next]_(SenderP!vars)
    BY SenderStep, SameSender DEF Sender!vars, SenderP!vars
  <1>5. [Next]_vars => [PathP!Next]_(PathP!vars)
    BY PathStep, SamePath DEF Path!vars, PathP!vars, Path!server, PathP!server, Path!client,
       PathP!client, Path!handler, PathP!handler, Path!faults, PathP!faults
  <1>6. [Next]_vars => [RecipientP!Next]_(RecipientP!vars)
    BY RecipientStep, SameRecipient DEF Recipient!vars, RecipientP!vars
  <1>7. Init => SenderP!Init /\ PathP!Init /\ RecipientP!Init
    BY SameSender, SamePath, SameRecipient DEF Init
  <1> QED
    BY <1>1, <1>2, <1>3, <1>4, <1>5, <1>6, <1>7

\* What the components' invariants say of the state the composition shares.
LEMMA ComponentTypes ==
  ASSUME SenderP!IInv, PathP!IInv, RecipientP!IInv
  PROVE  /\ served \in [Messages -> SUBSET Devices] /\ handed \in [Messages -> SUBSET Devices]
         /\ reloads \in Nat /\ drops \in Nat /\ crashes \in Nat
         /\ open \in BOOLEAN
         /\ inTable \in [Messages -> RecipientP!Statuses]
         /\ accepted \subseteq Messages
         /\ \A m \in Messages : stage[m] = "sending" => table[m] = "sending"
  <1>1. /\ served \in [Messages -> SUBSET Devices] /\ handed \in [Messages -> SUBSET Devices]
        /\ reloads \in Nat /\ drops \in Nat /\ open \in BOOLEAN
    BY Assumptions DEF SenderP!IInv, SenderP!TypeOK
  <1>2. crashes \in Nat /\ accepted \subseteq Messages
    BY Assumptions DEF PathP!IInv, PathP!TypeOK
  <1>3. inTable \in [Messages -> RecipientP!Statuses]
    BY DEF RecipientP!IInv, RecipientP!TypeOK, RecipientP!Views, RecipientP!Msgs
  <1>4. \A m \in Messages : stage[m] = "sending" => table[m] = "sending"
    BY DEF SenderP!IInv, SenderP!Progress
  <1> QED
    BY <1>1, <1>2, <1>3, <1>4

\* The sender's records are made as "sending" and settled once.
LEMMA SenderRecords ==
  ASSUME SenderP!IInv, [Next]_vars, NEW m \in Messages
  PROVE  \/ table'[m] = table[m]
         \/ table[m] = "none" /\ table'[m] = "sending"
         \/ table[m] = "sending" /\ table'[m] \in {"sent", "failed"}
  <1>1. [SenderP!Next]_(SenderP!vars) /\ m \in SenderP!Msgs
    BY SenderStep, SameSender DEF Sender!vars, SenderP!vars, SenderP!Msgs
  <1>2. \/ table'[m] = table[m]
        \/ table[m] = "none" /\ table'[m] = SenderP!FirstStatus(m)
        \/ m \in Messages /\ table[m] = "sending" /\ table'[m] \in SenderP!Settled
    BY <1>1, Assumptions, SenderP!TableMoves
  <1> QED
    BY <1>2 DEF SenderP!FirstStatus, SenderP!Settled

\* Only SendOlmContent serves devices.
LEMMA ServedOnly ==
  ASSUME [Next]_vars
  PROVE  \/ UNCHANGED <<served, handed>>
         \/ \E m \in Messages, d \in Devices : SendOlmContent(m, d)
  <1>1. UNCHANGED sender => UNCHANGED <<served, handed>>
    BY DEF sender
  <1>2. CASE SenderWorks
    <2>1. ASSUME NEW m \in Messages, Sender!SendText(m) \/ Sender!SendAttachment(m) \/ Sender!Uploaded(m)
          PROVE  UNCHANGED <<served, handed>>
      BY <2>1 DEF Sender!SendText, Sender!SendAttachment, Sender!Uploaded, Sender!StartAppend
    <2>2. ASSUME NEW m \in Messages,
                 \/ Sender!FinishAppend(m) \/ Sender!Sent(m)
                 \/ Sender!SendThrows(m) \/ Sender!FinishUpdate(m)
          PROVE  UNCHANGED <<served, handed>>
      BY <2>2 DEF Sender!FinishAppend, Sender!Sent, Sender!SendThrows, Sender!FinishUpdate
    <2>3. CASE Sender!EnsureDm
      BY <2>3 DEF Sender!EnsureDm
    <2> QED
      BY <1>2, <2>1, <2>2, <2>3 DEF SenderWorks
  <1>3. CASE SocketOpens \/ SenderLeaves
    BY <1>3 DEF SocketOpens, SenderLeaves, Sender!SocketOpens, Sender!SocketCloses, Sender!Boot
  <1>4. CASE UplinkCut \/ ServerRestarts \/ RecipientOpens \/ RecipientReboots
    BY <1>1, <1>4 DEF UplinkCut, ServerRestarts, RecipientOpens, RecipientReboots
  <1>5. ASSUME NEW m \in Messages, ServerReceives(m) \/ Route(m) \/ Append(m)
        PROVE  UNCHANGED <<served, handed>>
    BY <1>1, <1>5 DEF ServerReceives, Route, Append
  <1>6. CASE PathWorks \/ UNCHANGED vars
    BY <1>1, <1>6, PathWorksFacts DEF vars
  <1> QED
    BY <1>2, <1>3, <1>4, <1>5, <1>6 DEF Next

\* What the other steps leave alone.
LEMMA LinkMoves ==
  ASSUME [Next]_vars
  PROVE  \/ \E m \in Messages, d \in Devices : SendOlmContent(m, d)
         \/ SocketOpens \/ SenderLeaves \/ UplinkCut \/ ServerRestarts
         \/ \E m \in Messages : ServerReceives(m)
         \/ UNCHANGED <<wire, uplink, cuts, accepted, open, reloads, drops>>
  <1> DEFINE Still == UNCHANGED <<wire, uplink, cuts, accepted, open, reloads, drops>>
  <1>1. UNCHANGED <<link, sender, accepted>> => Still
    BY DEF link, sender
  <1>2. CASE SenderWorks
    <2>1. UNCHANGED <<wire, uplink, cuts, accepted>>
      BY <1>2 DEF SenderWorks, link, path
    <2>2. ASSUME NEW m \in Messages, Sender!SendText(m) \/ Sender!SendAttachment(m) \/ Sender!Uploaded(m)
          PROVE  UNCHANGED <<open, reloads, drops>>
      BY <2>2 DEF Sender!SendText, Sender!SendAttachment, Sender!Uploaded, Sender!StartAppend
    <2>3. ASSUME NEW m \in Messages,
                 \/ Sender!FinishAppend(m) \/ Sender!Sent(m)
                 \/ Sender!SendThrows(m) \/ Sender!FinishUpdate(m)
          PROVE  UNCHANGED <<open, reloads, drops>>
      BY <2>3 DEF Sender!FinishAppend, Sender!Sent, Sender!SendThrows, Sender!FinishUpdate
    <2>4. CASE Sender!EnsureDm
      BY <2>1, <2>4 DEF Sender!EnsureDm
    <2> QED
      BY <1>2, <2>1, <2>2, <2>3, <2>4 DEF SenderWorks
  <1>3. ASSUME NEW m \in Messages, Route(m)
        PROVE  Still
    BY <1>1, <1>3 DEF Route, path
  <1>4. ASSUME NEW m \in Messages, Append(m)
        PROVE  Still
    BY <1>1, <1>4 DEF Append, Path!PutMessage, Path!server
  <1>5. CASE RecipientOpens
    BY <1>1, <1>5 DEF RecipientOpens, path
  <1>6. CASE RecipientReboots
    BY <1>1, <1>6 DEF RecipientReboots, Path!Crash, Path!server
  <1>7. CASE PathWorks
    <2>1. UNCHANGED <<sender, link>>
      BY <1>7 DEF PathWorks
    <2>2. UNCHANGED accepted
      BY <1>7 DEF PathWorks, Path!HandleIncoming, Path!SaveRatchet, Path!Connect,
         Path!ServerNotices, Path!Unregister, Path!AckDelete, Path!GatewayOpens,
         Path!ServerDrops, Path!ClientNotices, Path!ClientDrops, Path!server
    <2> QED
      BY <1>1, <2>1, <2>2
  <1>8. CASE UNCHANGED vars
    BY <1>1, <1>8 DEF vars, path
  <1> QED
    BY <1>2, <1>3, <1>4, <1>5, <1>6, <1>7, <1>8 DEF Next

\* The steps at the sender's end of the wire.
LEMMA SendFacts ==
  ASSUME NEW m \in Messages, NEW d \in Devices, SendOlmContent(m, d)
  PROVE  /\ stage[m] = "sending" /\ d \notin served[m]
         /\ served' = [served EXCEPT ![m] = @ \union {d}]
         /\ handed' = IF open THEN [handed EXCEPT ![m] = @ \union {d}] ELSE handed
         /\ wire' = IF d = Watched /\ uplink THEN wire \union {m} ELSE wire
         /\ UNCHANGED <<table, open, reloads, drops, uplink, cuts, accepted>>
  BY DEF SendOlmContent, Sender!SendOlmContent, path

LEMMA LeaveFacts ==
  ASSUME SenderLeaves, reloads \in Nat, drops \in Nat
  PROVE  /\ UNCHANGED <<cuts, accepted>>
         /\ wire' \subseteq wire /\ uplink' = FALSE
         /\ ~(reloads' = 0 /\ drops' = 0)
  BY DEF SenderLeaves, Disconnect, Sender!SocketCloses, Sender!Boot, path

LEMMA CutFacts ==
  ASSUME UplinkCut \/ ServerRestarts, cuts \in Nat, MaxCuts \in Nat
  PROVE  /\ UNCHANGED accepted
         /\ wire' \subseteq wire /\ uplink' = FALSE
         /\ cuts' # 0 /\ (cuts \in 0..MaxCuts => cuts' \in 0..MaxCuts)
  BY DEF UplinkCut, ServerRestarts, Disconnect, Path!ServerRestarts, path

LEMMA ReceiveFacts ==
  ASSUME NEW m \in Messages, ServerReceives(m)
  PROVE  /\ m \in wire /\ m \notin accepted
         /\ wire' = wire \ {m} /\ accepted' = accepted \union {m}
         /\ UNCHANGED <<uplink, cuts, open, reloads, drops>>
  BY DEF ServerReceives, Path!SendEnvelope, Path!Enqueue, sender

LEMMA OpenFacts ==
  ASSUME SocketOpens
  PROVE  /\ uplink' = TRUE /\ open' = TRUE
         /\ UNCHANGED <<wire, cuts, accepted, reloads, drops>>
  BY DEF SocketOpens, Sender!SocketOpens, path

LEMMA CarriedStep ==
  ASSUME IInv, [Next]_vars
  PROVE  Carried'
  <1> USE ComponentTypes DEF IInv
  <1>1. ASSUME NEW m \in Messages, NEW d \in Devices, SendOlmContent(m, d)
        PROVE  Carried'
    <2> USE <1>1, SendFacts
    <2>1. m \in wire' => m \notin accepted
      BY DEF Carried
    <2>2. \A n \in Messages : handed[n] \subseteq handed'[n]
      OBVIOUS
    <2>3. \A n \in wire' \union accepted' : Watched \in handed'[n]
      BY <2>2 DEF Carried, LinkTypes
    <2>4. \A n \in Messages : handed'[n] \subseteq served'[n]
      BY DEF Carried
    <2>5. \A n \in Messages : served'[n] # {} => table'[n] # "none"
      BY DEF Carried
    <2> QED
      BY <2>1, <2>3, <2>4, <2>5 DEF Carried
  <1>2. ASSUME UNCHANGED <<served, handed>>,
               wire' \subseteq wire \union accepted, accepted' \subseteq wire \union accepted,
               wire' \intersect accepted' = {}
        PROVE  Carried'
    <2>1. \A m \in Messages : table[m] # "none" => table'[m] # "none"
      BY SenderRecords
    <2> QED
      BY <1>2, <2>1 DEF Carried
  <1>3. CASE UNCHANGED <<served, handed>>
    <2>1. \/ \E m \in Messages, d \in Devices : SendOlmContent(m, d)
          \/ /\ wire' \subseteq wire \union accepted /\ accepted' \subseteq wire \union accepted
             /\ wire' \intersect accepted' = {}
      <3>1. CASE SocketOpens
        BY <3>1, OpenFacts DEF Carried
      <3>2. CASE SenderLeaves
        BY <3>2, LeaveFacts DEF Carried
      <3>3. CASE UplinkCut \/ ServerRestarts
        <4>1. cuts \in Nat /\ MaxCuts \in Nat
          BY BoundAssumption DEF LinkTypes
        <4> QED
          BY <3>3, <4>1, CutFacts DEF Carried
      <3>4. ASSUME NEW m \in Messages, ServerReceives(m)
            PROVE  /\ wire' \subseteq wire \union accepted /\ accepted' \subseteq wire \union accepted
                   /\ wire' \intersect accepted' = {}
        BY <3>4, ReceiveFacts DEF Carried
      <3>5. CASE UNCHANGED <<wire, uplink, cuts, accepted, open, reloads, drops>>
        BY <3>5 DEF Carried
      <3> QED
        BY <3>1, <3>2, <3>3, <3>4, <3>5, LinkMoves
    <2> QED
      BY <1>1, <1>2, <1>3, <2>1
  <1> QED
    BY <1>1, <1>3, ServedOnly

LEMMA ReliableStep ==
  ASSUME IInv, [Next]_vars
  PROVE  Reliable' /\ LinkTypes'
  <1> USE ComponentTypes, BoundAssumption DEF IInv, LinkTypes
  <1>1. ASSUME NEW m \in Messages, NEW d \in Devices, SendOlmContent(m, d)
        PROVE  Reliable' /\ LinkTypes'
    BY <1>1, SendFacts DEF Reliable
  <1>2. CASE SocketOpens
    <2>1. UNCHANGED handed
      BY <1>2 DEF SocketOpens, Sender!SocketOpens
    <2> QED
      BY <1>2, <2>1, OpenFacts DEF Reliable
  <1>3. CASE SenderLeaves
    BY <1>3, LeaveFacts DEF Reliable
  <1>4. CASE UplinkCut \/ ServerRestarts
    <2>1. cuts \in Nat /\ MaxCuts \in Nat
      OBVIOUS
    <2>2. /\ wire' \subseteq wire /\ uplink' = FALSE
          /\ cuts' # 0 /\ cuts' \in 0..MaxCuts
      BY <1>4, <2>1, CutFacts
    <2> QED
      BY <2>2 DEF Reliable
  <1>5. ASSUME NEW m \in Messages, ServerReceives(m)
        PROVE  Reliable' /\ LinkTypes'
    <2>1. UNCHANGED handed
      BY <1>5 DEF ServerReceives, sender
    <2> QED
      BY <1>5, <2>1, ReceiveFacts DEF Reliable
  <1>6. ASSUME UNCHANGED <<wire, uplink, cuts, accepted, open, reloads, drops>>
        PROVE  Reliable' /\ LinkTypes'
    <2>1. CASE UNCHANGED handed
      BY <1>6, <2>1 DEF Reliable
    <2> QED
      BY <1>1, <2>1, ServedOnly
  <1> QED
    BY <1>1, <1>2, <1>3, <1>4, <1>5, <1>6, LinkMoves

LEMMA LinkedStep ==
  ASSUME IInv, [Next]_vars
  PROVE  Linked'
  <1> USE ComponentTypes DEF IInv
  <1>1. ASSUME UNCHANGED <<inTable, store>>,
               crashes' = 0 => crashes = 0 /\ UNCHANGED inGap
        PROVE  Linked'
    <2>1. \A m \in Messages : table'[m] # "received"
      BY SenderRecords DEF Linked
    <2> QED
      BY <1>1, <2>1 DEF Linked
  <1>2. ASSUME UNCHANGED path, UNCHANGED recipient
        PROVE  Linked'
    BY <1>1, <1>2 DEF path, recipient
  <1>3. CASE SenderWorks \/ SocketOpens \/ SenderLeaves \/ UplinkCut
    BY <1>2, <1>3 DEF SenderWorks, SocketOpens, SenderLeaves, UplinkCut
  <1>4. ASSUME NEW m \in Messages, NEW d \in Devices, SendOlmContent(m, d)
        PROVE  Linked'
    BY <1>2, <1>4 DEF SendOlmContent
  <1>5. ASSUME NEW m \in Messages, ServerReceives(m)
        PROVE  Linked'
    BY <1>1, <1>5 DEF ServerReceives, Path!SendEnvelope, Path!handler, Path!faults, recipient
  <1>6. CASE PathWorks
    BY <1>1, <1>6, PathWorksFacts DEF recipient
  <1>7. CASE ServerRestarts
    BY <1>1, <1>7 DEF ServerRestarts, Path!ServerRestarts, Path!handler, recipient
  <1>8. ASSUME NEW m \in Messages, Route(m)
        PROVE  Linked'
    BY <1>1, <1>8 DEF Route, path, Recipient!RouteOlmContent, Recipient!StartAppend
  <1>9. ASSUME NEW m \in Messages, Append(m)
        PROVE  Linked'
    <2>1. /\ store' = store \union {m} /\ UNCHANGED <<crashes, table>>
          /\ inTable' = [inTable EXCEPT ![m] = "received"]
          /\ inGap' = (inGap \/ Recipient!Overtakes(m))
      BY <1>9 DEF Append, sender, Path!PutMessage, Path!faults, Recipient!FinishAppend,
         Recipient!FirstStatus
    <2>2. ~Recipient!Overtakes(m)
      BY DEF Recipient!Overtakes
    <2>3. inGap' => inGap
      BY <2>1, <2>2
    <2> QED
      BY <2>1, <2>3 DEF Linked
  <1>10. CASE RecipientOpens
    BY <1>1, <1>10 DEF RecipientOpens, path, Recipient!EnsureDm
  <1>11. CASE RecipientReboots
    BY <1>1, <1>11 DEF RecipientReboots, Path!Crash
  <1>12. CASE UNCHANGED vars
    BY <1>2, <1>12 DEF vars
  <1> QED
    BY <1>3, <1>4, <1>5, <1>6, <1>7, <1>8, <1>9, <1>10, <1>11, <1>12 DEF Next

LEMMA Inductive ==
  /\ Init => IInv
  /\ IInv /\ [Next]_vars => IInv'
  <1>1. Init => IInv
    <2> SUFFICES ASSUME Init
                 PROVE  IInv
      OBVIOUS
    <2>1. /\ served = [m \in Messages |-> {}] /\ handed = [m \in Messages |-> {}]
          /\ open = FALSE
      BY DEF Init, Sender!Init
    <2>2. accepted = {} /\ store = {}
      BY DEF Init, Path!Init
    <2>3. /\ table = [m \in Messages |-> "none"] /\ inTable = [m \in Messages |-> "none"]
          /\ inGap = FALSE
      BY DEF Init, Sender!Init, Sender!Empty, Sender!Msgs,
         Recipient!Init, Recipient!Empty, Recipient!Msgs
    <2>4. wire = {} /\ uplink = FALSE /\ cuts = 0
      BY DEF Init
    <2>5. Carried /\ Reliable /\ Linked
      BY <2>1, <2>2, <2>3, <2>4 DEF Carried, Reliable, Linked
    <2>6. LinkTypes
      <3>1. 0 \in 0..MaxCuts
        BY BoundAssumption
      <3>2. ~uplink /\ uplink \in BOOLEAN
        BY <2>4
      <3> QED
        BY <2>4, <3>1, <3>2 DEF LinkTypes
    <2> QED
      BY <2>5, <2>6, ComponentsInductive DEF IInv
  <1>2. IInv /\ [Next]_vars => IInv'
    <2> SUFFICES ASSUME IInv, [Next]_vars
                 PROVE  IInv'
      OBVIOUS
    <2>1. SenderP!IInv' /\ PathP!IInv' /\ RecipientP!IInv'
      BY ComponentsInductive DEF IInv
    <2> QED
      BY <2>1, CarriedStep, ReliableStep, LinkedStep DEF IInv
  <1> QED
    BY <1>1, <1>2

LEMMA Invariance == Spec => []IInv
  BY Inductive, PTL DEF Spec

(***************************************************************************)
(* The theorems.                                                           *)
(***************************************************************************)

\* The connected components stay well typed: their type invariants, and that a
\* page sees its socket open whenever what it writes to it arrives.
THEOREM TypeCorrect == Spec => []TypeOK
  <1>1. IInv => SenderP!TypeOK /\ PathP!TypeOK /\ RecipientP!TypeOK
    BY DEF IInv, SenderP!IInv, PathP!IInv, RecipientP!IInv
  <1>2. IInv => TypeOK
    BY <1>1, SameSender, SamePath, SameRecipient DEF TypeOK, IInv, LinkTypes
  <1> QED
    BY <1>2, Invariance, PTL

\* From sendFrame to the screen no message is dropped, as long as the sender is
\* not disconnected and the recipient's page not reloaded.  The recipient may
\* be disconnected at any time: the server keeps a row until a page has it.
THEOREM WrittenReachesScreen == Spec => []WrittenIsShown
  <1>1. ASSUME IInv, NEW m \in Messages,
               Watched \in handed[m], reloads = 0, drops = 0, cuts = 0, crashes = 0
        PROVE  m \in InTransit \/ inView[m] = "received"
    <2>1. m \in wire \union accepted
      BY <1>1 DEF IInv, Reliable
    <2>2. accepted \subseteq mailbox \union decrypted \union routing \union store
      BY <1>1 DEF IInv, PathP!IInv, PathP!HonestAcks, PathP!Taken
    <2>3. inView = inTable
      BY <1>1 DEF IInv, Linked, RecipientP!IInv, RecipientP!CompleteWithoutGap
    <2>4. m \in store => inView[m] = "received"
      BY <1>1, <2>3 DEF IInv, Linked
    <2> QED
      BY <2>1, <2>2, <2>4 DEF InTransit
  <1>2. IInv => WrittenIsShown
    BY <1>1 DEF WrittenIsShown
  <1> QED
    BY <1>2, Invariance, PTL

\* What the recipient's device records, the sender has recorded before, and it
\* records it once.
LEMMA AppendReceives ==
  ASSUME IInv, NEW m \in Messages, Append(m)
  PROVE  Log!Receive(m)
  <1>1. m \in routing /\ store' = store \union {m}
    BY DEF Append, Path!PutMessage
  <1>2. UNCHANGED table
    BY DEF Append, sender
  <1>3. m \notin store /\ m \in accepted
    BY <1>1 DEF IInv, PathP!IInv, PathP!Custody, PathP!Taken
  <1>4. table[m] # "none"
    BY <1>3 DEF IInv, Carried
  <1> QED
    BY <1>1, <1>2, <1>3, <1>4 DEF Log!Receive

\* Only Append adds to the recipient's table.
LEMMA StoreOnly ==
  ASSUME [Next]_vars
  PROVE  UNCHANGED store \/ \E m \in Messages : Append(m)
  <1>1. UNCHANGED path => UNCHANGED store
    BY DEF path
  <1>2. CASE SenderWorks \/ SocketOpens \/ SenderLeaves \/ UplinkCut \/ RecipientOpens
    BY <1>1, <1>2 DEF SenderWorks, SocketOpens, SenderLeaves, UplinkCut, RecipientOpens
  <1>3. ASSUME NEW m \in Messages, NEW d \in Devices, SendOlmContent(m, d)
        PROVE  UNCHANGED store
    BY <1>1, <1>3 DEF SendOlmContent
  <1>4. ASSUME NEW m \in Messages, ServerReceives(m) \/ Route(m)
        PROVE  UNCHANGED store
    BY <1>1, <1>4 DEF ServerReceives, Route, Path!SendEnvelope, Path!handler
  <1>5. CASE PathWorks
    BY <1>5, PathWorksFacts
  <1>6. CASE ServerRestarts \/ RecipientReboots
    BY <1>6 DEF ServerRestarts, RecipientReboots, Path!ServerRestarts, Path!Crash, Path!handler
  <1>7. CASE UNCHANGED vars
    BY <1>1, <1>7 DEF vars
  <1> QED
    BY <1>2, <1>3, <1>4, <1>5, <1>6, <1>7 DEF Next

LEMMA StepRefines ==
  ASSUME IInv, IInv', [Next]_vars
  PROVE  [Log!Next]_(Log!vars)
  <1>1. ASSUME UNCHANGED store
        PROVE  Log!Write
    <2>1. table' \in [Messages -> {"none", "sending", "sent", "failed"}]
      <3>1. table' \in [Messages -> SenderP!Statuses]
        BY DEF IInv, SenderP!IInv, SenderP!TypeOK, SenderP!Views, SenderP!Msgs
      <3>2. \A m \in Messages : table'[m] # "received"
        BY DEF IInv, Linked
      <3> QED
        BY <3>1, <3>2 DEF SenderP!Statuses, SenderP!Settled
    <2>2. \A m \in Messages : table'[m] = table[m] \/ <<table[m], table'[m]>> \in Log!Moves
      BY SenderRecords DEF IInv, Log!Moves
    <2> QED
      BY <1>1, <2>1, <2>2 DEF Log!Write
  <1>2. ASSUME NEW m \in Messages, Append(m)
        PROVE  Log!Receive(m)
    BY <1>2, AppendReceives
  <1> QED
    BY <1>1, <1>2, StoreOnly DEF Log!Next

\* From end to end the two pages and the server keep the log of MessageLog.
THEOREM Refinement == Spec => ImplementsLog
  <1>1. Init => Log!Init
    <2>1. Init => table = [m \in Messages |-> "none"] /\ store = {}
      BY DEF Init, Sender!Init, Sender!Empty, Sender!Msgs, Path!Init
    <2> QED
      BY <2>1 DEF Log!Init
  <1> QED
    BY <1>1, StepRefines, Inductive, PTL DEF Spec, ImplementsLog, Log!Spec
=============================================================================

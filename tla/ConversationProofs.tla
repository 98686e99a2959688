------------------------- MODULE ConversationProofs -------------------------
(***************************************************************************)
(* Proofs about Conversation for any sets of messages and any number of    *)
(* reloads and closed sockets.                                             *)
(***************************************************************************)
EXTENDS Conversation, TLAPS

\* How far the function working on a message is tells what the messages table
\* holds of it, and nobody sends in a conversation the page does not know.
Progress ==
  /\ \A m \in Msgs : stage[m] \in {"idle", "uploading", "appending"} => table[m] = "none"
  /\ \A m \in Own : stage[m] \in {"sending", "updating"} => table[m] = "sending" /\ known
  /\ \A m \in Msgs \ Own : stage[m] \notin {"sending", "updating"}

\* A conversation an update is about to show is as good as the one on screen:
\* what it shows is stored, apart from the outcome that update brings itself.
SnapshotsStored ==
  \A u \in Own : stage[u] = "updating" =>
    /\ snapshot[u][u] \in Settled
    /\ \A m \in Msgs \ {u} :
         /\ snapshot[u][m] # "none" => table[m] # "none"
         /\ snapshot[u][m] \in Settled => table[m] = snapshot[u][m]

\* As long as nothing was overtaken, it differs from the one on screen in that
\* outcome only.
SnapshotsCurrent ==
  ~gap => \A u \in Own : stage[u] = "updating" =>
            \A m \in Msgs \ {u} : snapshot[u][m] = view[m]

\* An outcome on its way to the table is as true as one that is stored.
Outcomes ==
  \A u \in Own : stage[u] = "updating" =>
    /\ snapshot[u][u] = "sent" => served[u] = Devices
    /\ snapshot[u][u] = "failed" => served[u] # Devices

IInv ==
  /\ TypeOK
  /\ Progress
  /\ Outcomes /\ OutcomeTrue
  /\ ShownIsStored
  /\ SnapshotsStored
  /\ CompleteWithoutGap /\ SnapshotsCurrent /\ SettledWithoutGap

(***************************************************************************)
(* Each action keeps the invariant.                                        *)
(***************************************************************************)

\* The statuses, one by one.
LEMMA StatusList ==
  Statuses = {"none", "received", "sending", "sent", "failed"}
  BY DEF Statuses, Settled

\* An append that is started changes no message yet.
LEMMA StartStep ==
  ASSUME IInv, NEW m \in Msgs, StartAppend(m)
  PROVE  IInv'
  <1> USE DEF IInv, StartAppend
  <1>1. TypeOK'
    BY DEF TypeOK, Stages
  <1>2. /\ stage' \in [Msgs -> Stages] /\ stage \in [Msgs -> Stages]
        /\ \A n \in Msgs : stage'[n] = stage[n] \/ (n = m /\ stage'[n] = "appending")
    BY <1>1 DEF TypeOK
  <1>3. Progress'
    BY <1>2 DEF Progress, Msgs
  <1>4. ShownIsStored'
    BY DEF ShownIsStored
  <1>5. SnapshotsStored' /\ SnapshotsCurrent'
    BY <1>2 DEF SnapshotsStored, SnapshotsCurrent, Msgs
  <1>6. CompleteWithoutGap' /\ SettledWithoutGap'
    BY <1>2 DEF CompleteWithoutGap, SettledWithoutGap, Msgs
  <1>7. Outcomes' /\ OutcomeTrue'
    BY <1>2 DEF Outcomes, OutcomeTrue, Msgs
  <1> QED
    BY <1>1, <1>3, <1>4, <1>5, <1>6, <1>7

\* An upload that starts, or fails, changes no message.
LEMMA UploadStep ==
  ASSUME IInv, NEW m \in Own,
         UNCHANGED <<table, listed, view, known, snapshot, served, open, handed, gap, reloads, drops>>,
         \/ stage[m] = "idle" /\ stage' = [stage EXCEPT ![m] = "uploading"]
         \/ stage[m] = "uploading" /\ stage' = [stage EXCEPT ![m] = "stopped"]
  PROVE  IInv'
  <1> USE DEF IInv
  <1>1. TypeOK'
    BY DEF TypeOK, Stages, Msgs
  <1>2. /\ stage' \in [Msgs -> Stages] /\ stage \in [Msgs -> Stages]
        /\ \A n \in Msgs : \/ stage'[n] = stage[n]
                           \/ n = m /\ stage[n] = "idle" /\ stage'[n] = "uploading"
                           \/ n = m /\ stage'[n] = "stopped"
    BY <1>1 DEF TypeOK, Msgs
  <1>3. Progress'
    BY <1>2 DEF Progress, Msgs
  <1>4. ShownIsStored'
    BY DEF ShownIsStored
  <1>5. SnapshotsStored' /\ SnapshotsCurrent'
    BY <1>2 DEF SnapshotsStored, SnapshotsCurrent, Msgs
  <1>6. CompleteWithoutGap' /\ SettledWithoutGap'
    BY <1>2 DEF CompleteWithoutGap, SettledWithoutGap, Msgs
  <1>7. Outcomes' /\ OutcomeTrue'
    BY <1>2 DEF Outcomes, OutcomeTrue, Msgs
  <1> QED
    BY <1>1, <1>3, <1>4, <1>5, <1>6, <1>7

\* An append that completes adds a message that is in no snapshot.
LEMMA AppendStep ==
  ASSUME IInv, NEW m \in Msgs, FinishAppend(m)
  PROVE  IInv'
  <1> USE DEF IInv, FinishAppend
  <1>1. FirstStatus(m) \in {"received", "sending"} /\ (m \in Own => FirstStatus(m) = "sending")
    BY DEF FirstStatus
  <1>2. table[m] = "none" /\ view[m] = "none"
    BY DEF Progress, ShownIsStored
  <1>3. /\ table' = [table EXCEPT ![m] = FirstStatus(m)]
        /\ view' = [view EXCEPT ![m] = FirstStatus(m)]
    BY <1>2
  <1>4. TypeOK'
    <2>1. table' \in Views /\ view' \in Views
      BY <1>1, <1>3, StatusList DEF TypeOK, Views
    <2>2. stage' \in [Msgs -> Stages]
      BY DEF TypeOK, Stages
    <2>3. gap' \in BOOLEAN
      BY DEF TypeOK, Overtakes
    <2> QED
      BY <2>1, <2>2, <2>3 DEF TypeOK
  <1>5. /\ \A n \in Msgs \ {m} : table'[n] = table[n] /\ view'[n] = view[n] /\ stage'[n] = stage[n]
        /\ table'[m] = FirstStatus(m) /\ view'[m] = FirstStatus(m)
        /\ stage'[m] = IF m \in Own THEN "sending" ELSE "done"
    BY <1>3 DEF TypeOK, Views
  <1>6. Progress'
    BY <1>1, <1>5 DEF Progress, Msgs
  <1>7. ShownIsStored'
    BY <1>1, <1>5, StatusList DEF ShownIsStored, Settled
  <1>8. SnapshotsStored'
    BY <1>1, <1>2, <1>5 DEF SnapshotsStored, Msgs, Settled
  <1>9. CompleteWithoutGap'
    BY <1>3 DEF CompleteWithoutGap
  <1>12. ~gap' => ~gap /\ \A u \in Own \ {m} : stage[u] # "updating"
    BY DEF Overtakes
  <1>10. SnapshotsCurrent'
    BY <1>5, <1>12 DEF SnapshotsCurrent, Msgs
  <1>11. SettledWithoutGap'
    BY <1>5, <1>12 DEF SettledWithoutGap, Msgs
  <1>13. Outcomes' /\ OutcomeTrue'
    BY <1>1, <1>5 DEF Outcomes, OutcomeTrue, Msgs
  <1> QED
    BY <1>4, <1>6, <1>7, <1>8, <1>9, <1>10, <1>11, <1>13

\* Serving one more device changes no message.
LEMMA ServeStep ==
  ASSUME IInv, NEW m \in Own, NEW d \in Devices, SendOlmContent(m, d)
  PROVE  IInv'
  <1> USE DEF IInv, SendOlmContent
  <1>1. TypeOK'
    <2>1. served' \in [Own -> SUBSET Devices] /\ handed' \in [Own -> SUBSET Devices]
      BY DEF TypeOK
    <2> QED
      BY <2>1 DEF TypeOK
  <1>2. \A u \in Own : served'[u] = served[u] \/ (u = m /\ table[u] = "sending" /\ stage[u] = "sending")
    BY DEF Progress, TypeOK
  <1>3. Outcomes' /\ OutcomeTrue'
    BY <1>2 DEF Outcomes, OutcomeTrue
  <1>4. Progress' /\ ShownIsStored' /\ SnapshotsStored'
    BY DEF Progress, ShownIsStored, SnapshotsStored
  <1>5. CompleteWithoutGap' /\ SnapshotsCurrent' /\ SettledWithoutGap'
    BY DEF CompleteWithoutGap, SnapshotsCurrent, SettledWithoutGap
  <1> QED
    BY <1>1, <1>3, <1>4, <1>5

\* An update that starts takes its snapshot of the conversation on screen.
LEMMA UpdateStep ==
  ASSUME IInv, NEW m \in Own, NEW status \in Settled,
         stage[m] = "sending", StartUpdate(m, status),
         UNCHANGED <<table, listed, view, known, served, open, handed, gap, reloads, drops>>,
         status = "sent" => served[m] = Devices,
         status = "failed" => served[m] # Devices
  PROVE  IInv'
  <1> USE DEF IInv
  <1>1. m \in Msgs /\ status \in Statuses
    BY DEF Msgs, Statuses
  <1>2. TypeOK'
    <2>1. [view EXCEPT ![m] = status] \in Views
      BY <1>1 DEF TypeOK, Views
    <2> QED
      BY <2>1, <1>1 DEF TypeOK, StartUpdate, Stages
  <1>3. /\ \A n \in Msgs \ {m} : stage'[n] = stage[n]
        /\ \A n \in Own \ {m} : snapshot'[n] = snapshot[n]
        /\ stage'[m] \in {"done", "updating"}
    BY <1>1 DEF StartUpdate, TypeOK
  <1>4. CASE view[m] = "none"
    <2>1. stage'[m] = "done" /\ snapshot' = snapshot
      BY <1>1, <1>4 DEF StartUpdate, TypeOK
    <2>2. Progress' /\ ShownIsStored' /\ CompleteWithoutGap'
      BY <1>3, <2>1 DEF Progress, ShownIsStored, CompleteWithoutGap, Msgs
    <2>3. SnapshotsStored' /\ SnapshotsCurrent'
      BY <1>3, <2>1 DEF SnapshotsStored, SnapshotsCurrent, Msgs
    <2>4. table[m] = "sending"
      BY DEF Progress
    <2>5. gap
      BY <1>4, <2>4 DEF CompleteWithoutGap
    <2>6. Outcomes' /\ OutcomeTrue'
      BY <1>3, <2>1 DEF Outcomes, OutcomeTrue, Msgs
    <2> QED
      BY <1>2, <2>2, <2>3, <2>5, <2>6 DEF SettledWithoutGap
  <1>5. CASE view[m] # "none"
    <2>1. stage'[m] = "updating" /\ snapshot'[m] = [view EXCEPT ![m] = status]
      BY <1>1, <1>5 DEF StartUpdate, TypeOK
    <2>2. snapshot'[m][m] = status /\ \A n \in Msgs \ {m} : snapshot'[m][n] = view[n]
      BY <1>1, <2>1 DEF TypeOK, Views
    <2>3. Progress' /\ ShownIsStored' /\ CompleteWithoutGap' /\ SettledWithoutGap'
      BY <1>3, <2>1 DEF Progress, ShownIsStored, CompleteWithoutGap, SettledWithoutGap, Msgs
    <2>4. SnapshotsStored'
      <3>1. ASSUME NEW u \in Own \ {m}
            PROVE  stage'[u] = stage[u] /\ snapshot'[u] = snapshot[u]
        BY <1>3 DEF Msgs
      <3> QED
        BY <1>1, <2>2, <3>1 DEF SnapshotsStored, ShownIsStored
    <2>5. SnapshotsCurrent'
      <3>1. ASSUME NEW u \in Own \ {m}
            PROVE  stage'[u] = stage[u] /\ snapshot'[u] = snapshot[u]
        BY <1>3 DEF Msgs
      <3> QED
        BY <2>2, <3>1 DEF SnapshotsCurrent
    <2>6. Outcomes' /\ OutcomeTrue'
      BY <1>3, <2>2 DEF Outcomes, OutcomeTrue, Msgs
    <2> QED
      BY <1>2, <2>3, <2>4, <2>5, <2>6
  <1> QED
    BY <1>4, <1>5

\* An update that completes stores its outcome and shows its snapshot.
LEMMA FinishStep ==
  ASSUME IInv, NEW m \in Own, FinishUpdate(m)
  PROVE  IInv'
  <1> USE DEF IInv, FinishUpdate
  <1>1. m \in Msgs /\ table[m] = "sending" /\ known
    BY DEF Msgs, Progress
  <1>2. snapshot[m] \in Views /\ snapshot[m][m] \in Settled
    BY DEF TypeOK, SnapshotsStored
  <1>3. TypeOK'
    <2>1. table' \in Views
      BY <1>1, <1>2 DEF TypeOK, Views
    <2>2. stage' \in [Msgs -> Stages]
      BY <1>1 DEF TypeOK, Stages
    <2>3. gap' \in BOOLEAN
      BY DEF TypeOK, Overtakes
    <2> QED
      BY <1>1, <1>2, <2>1, <2>2, <2>3 DEF TypeOK
  <1>4. /\ \A n \in Msgs \ {m} : table'[n] = table[n] /\ stage'[n] = stage[n]
        /\ table'[m] = snapshot[m][m] /\ stage'[m] = "done" /\ view' = snapshot[m]
    BY <1>1 DEF TypeOK, Views
  <1>5. Progress'
    BY <1>4 DEF Progress, Msgs
  <1>6. ShownIsStored'
    BY <1>2, <1>4 DEF ShownIsStored, SnapshotsStored, Settled
  <1>7. SnapshotsStored'
    <2>1. table'[m] # "none" /\ table[m] \notin Settled /\ table[m] # "none"
      BY <1>1, <1>2, <1>4 DEF Settled
    <2> QED
      BY <1>4, <2>1 DEF SnapshotsStored, Msgs
  <1>8. ASSUME ~gap'
        PROVE  /\ ~gap
               /\ \A u \in Own \ {m} : stage[u] # "updating"
               /\ \A n \in Msgs \ {m} : view'[n] = table[n]
    BY <1>4, <1>8 DEF Overtakes, SnapshotsCurrent, CompleteWithoutGap
  <1>9. CompleteWithoutGap'
    <2>1. table' \in [Msgs -> Statuses] /\ view' \in [Msgs -> Statuses]
      BY <1>3 DEF TypeOK, Views
    <2>2. ASSUME ~gap'
          PROVE  \A n \in Msgs : view'[n] = table'[n]
      BY <1>4, <1>8, <2>2
    <2> QED
      BY <2>1, <2>2 DEF CompleteWithoutGap
  <1>10. SnapshotsCurrent'
    BY <1>4, <1>8 DEF SnapshotsCurrent, Msgs
  <1>11. SettledWithoutGap'
    BY <1>2, <1>4, <1>8 DEF SettledWithoutGap, Msgs
  <1>12. Outcomes' /\ OutcomeTrue'
    BY <1>4 DEF Outcomes, OutcomeTrue, Msgs
  <1> QED
    BY <1>3, <1>5, <1>6, <1>7, <1>9, <1>10, <1>11, <1>12

\* A reload ends every function and shows what is stored.
LEMMA BootStep ==
  ASSUME IInv, Boot
  PROVE  IInv'
  <1> USE DEF IInv, Boot
  <1>1. PICK committed \in SUBSET {m \in Msgs : stage[m] \in {"appending", "updating"}} :
          table' = [m \in Msgs |-> IF m \in committed THEN Written(m) ELSE table[m]]
    OBVIOUS
  <1>2. Empty \in Views
    BY StatusList DEF Empty, Views
  <1>3. table' \in Views
    <2>1. ASSUME NEW m \in committed
          PROVE  Written(m) \in Statuses
      <3>1. CASE stage[m] = "appending"
        BY <3>1, StatusList DEF Written, FirstStatus
      <3>2. CASE stage[m] = "updating" /\ m \in Own
        BY <3>2 DEF Written, TypeOK, Views
      <3>3. CASE stage[m] = "updating" /\ m \notin Own
        BY <3>3 DEF Progress
      <3> QED
        BY <1>1, <3>1, <3>2, <3>3
    <2> QED
      BY <1>1, <2>1 DEF TypeOK, Views
  <1>4. TypeOK'
    <2>1. stage' \in [Msgs -> Stages] /\ gap' \in BOOLEAN
      BY DEF Stages
    <2>2. reloads' \in 0..MaxReloads
      BY BoundAssumption DEF TypeOK
    <2> QED
      BY <1>2, <1>3, <2>1, <2>2 DEF TypeOK
  <1>5. \A m \in Msgs : stage'[m] = IF stage[m] = "idle" THEN "idle" ELSE "stopped"
    OBVIOUS
  <1>6. Progress'
    BY <1>1, <1>5 DEF Progress, Msgs
  <1>7. ShownIsStored'
    BY <1>2, <1>3 DEF ShownIsStored, Empty, Settled
  <1>8. SnapshotsStored' /\ SnapshotsCurrent' /\ SettledWithoutGap'
    BY <1>5 DEF SnapshotsStored, SnapshotsCurrent, SettledWithoutGap, Msgs
  <1>9. CompleteWithoutGap'
    BY DEF CompleteWithoutGap
  <1>10. Outcomes' /\ OutcomeTrue'
    <2>1. ASSUME NEW m \in Own
          PROVE  /\ table'[m] = "sent" => served[m] = Devices
                 /\ table'[m] = "failed" => served[m] # Devices
      <3>1. CASE m \notin committed
        BY <1>1, <3>1 DEF OutcomeTrue, Msgs
      <3>2. CASE m \in committed /\ stage[m] = "appending"
        BY <1>1, <3>2 DEF Written, FirstStatus
      <3>3. CASE m \in committed /\ stage[m] = "updating"
        BY <1>1, <3>3 DEF Written, Outcomes
      <3> QED
        BY <3>1, <3>2, <3>3
    <2> QED
      BY <1>5, <2>1 DEF Outcomes, OutcomeTrue, Msgs
  <1> QED
    BY <1>4, <1>6, <1>7, <1>8, <1>9, <1>10

\* The remaining steps touch neither messages nor functions.
LEMMA QuietStep ==
  ASSUME IInv,
         \/ EnsureDm \/ SocketCloses \/ SocketOpens
         \/ UNCHANGED vars
  PROVE  IInv'
  <1> USE DEF IInv
  <1>1. /\ UNCHANGED <<table, view, stage, snapshot, served, handed, gap>>
        /\ known => known'
    BY DEF EnsureDm, SocketCloses, SocketOpens, vars
  <1>2. TypeOK'
    <2>1. CASE EnsureDm
      BY <2>1 DEF TypeOK, EnsureDm
    <2>2. CASE SocketCloses
      <3>1. drops' \in 0..MaxDrops
        BY <2>2, BoundAssumption DEF TypeOK, SocketCloses
      <3> QED
        BY <2>2, <3>1, Zenon DEF TypeOK, SocketCloses
    <2>3. CASE SocketOpens
      BY <2>3 DEF TypeOK, SocketOpens
    <2>4. CASE UNCHANGED vars
      BY <2>4 DEF TypeOK, vars
    <2> QED
      BY <2>1, <2>2, <2>3, <2>4
  <1>3. Progress'
    BY <1>1 DEF Progress
  <1>4. ShownIsStored' /\ SnapshotsStored'
    BY <1>1 DEF ShownIsStored, SnapshotsStored
  <1>5. CompleteWithoutGap' /\ SnapshotsCurrent' /\ SettledWithoutGap'
    BY <1>1 DEF CompleteWithoutGap, SnapshotsCurrent, SettledWithoutGap
  <1>6. Outcomes' /\ OutcomeTrue'
    BY <1>1 DEF Outcomes, OutcomeTrue
  <1> QED
    BY <1>2, <1>3, <1>4, <1>5, <1>6

\* IInv is inductive.
LEMMA Inductive ==
  /\ Init => IInv
  /\ IInv /\ [Next]_vars => IInv'
  <1>1. Init => IInv
    <2> SUFFICES ASSUME Init
                 PROVE  IInv
      OBVIOUS
    <2> USE DEF Init
    <2>1. Empty \in Views /\ \A m \in Msgs : Empty[m] = "none"
      BY StatusList DEF Empty, Views
    <2>2. TypeOK
      <3>1. stage \in [Msgs -> Stages] /\ snapshot \in [Own -> Views]
        BY <2>1 DEF Stages
      <3>2. 0 \in 0..MaxReloads /\ 0 \in 0..MaxDrops
        BY BoundAssumption
      <3> QED
        BY <2>1, <3>1, <3>2 DEF TypeOK
    <2>3. Progress /\ ShownIsStored
      BY <2>1 DEF Progress, ShownIsStored, Settled, Msgs
    <2>4. SnapshotsStored /\ SnapshotsCurrent /\ SettledWithoutGap /\ CompleteWithoutGap
      BY DEF SnapshotsStored, SnapshotsCurrent, SettledWithoutGap, CompleteWithoutGap, Msgs
    <2>5. Outcomes /\ OutcomeTrue
      BY <2>1 DEF Outcomes, OutcomeTrue, Msgs
    <2> QED
      BY <2>2, <2>3, <2>4, <2>5 DEF IInv
  <1>2. IInv /\ [Next]_vars => IInv'
    <2> SUFFICES ASSUME IInv, [Next]_vars
                 PROVE  IInv'
      OBVIOUS
    <2>1. ASSUME NEW m \in Msgs, StartAppend(m) \/ FinishAppend(m)
          PROVE  IInv'
      BY <2>1, StartStep, AppendStep
    <2>6. ASSUME NEW m \in Own, SendText(m) \/ SendAttachment(m) \/ Uploaded(m)
          PROVE  IInv'
      <3>1. m \in Msgs
        BY DEF Msgs
      <3>2. CASE StartAppend(m)
        BY <3>1, <3>2, StartStep
      <3>3. CASE ~StartAppend(m)
        BY <2>6, <3>3, UploadStep DEF SendText, SendAttachment, Uploaded
      <3> QED
        BY <3>2, <3>3
    <2>7. ASSUME NEW m \in Peer, RouteOlmContent(m)
          PROVE  IInv'
      BY <2>1, <2>7 DEF RouteOlmContent, Msgs
    <2>8. ASSUME NEW m \in Own, NEW d \in Devices, SendOlmContent(m, d)
          PROVE  IInv'
      BY <2>8, ServeStep
    <2>2. ASSUME NEW m \in Own, Sent(m) \/ SendThrows(m)
          PROVE  IInv'
      <3>1. "sent" \in Settled /\ "failed" \in Settled
        BY DEF Settled
      <3>2. /\ stage[m] = "sending"
            /\ UNCHANGED <<table, listed, view, known, served, open, handed, gap, reloads, drops>>
        BY <2>2 DEF Sent, SendThrows
      <3>3. CASE Sent(m)
        BY <3>1, <3>2, <3>3, UpdateStep DEF Sent
      <3>4. CASE SendThrows(m)
        BY <3>1, <3>2, <3>4, UpdateStep DEF SendThrows
      <3> QED
        BY <2>2, <3>3, <3>4
    <2>3. ASSUME NEW m \in Own, FinishUpdate(m)
          PROVE  IInv'
      BY <2>3, FinishStep
    <2>4. CASE Boot
      BY <2>4, BootStep
    <2>5. CASE EnsureDm \/ SocketCloses \/ SocketOpens \/ UNCHANGED vars
      BY <2>5, QuietStep
    <2> QED
      BY <2>1, <2>2, <2>3, <2>4, <2>5, <2>6, <2>7, <2>8 DEF Next
  <1> QED
    BY <1>1, <1>2

\* IInv holds in every reachable state.
LEMMA Invariance == Spec => []IInv
  BY Inductive, PTL DEF Spec

(***************************************************************************)
(* The theorems.                                                           *)
(***************************************************************************)

\* The variables of the client (Messenger and its tables) keep their types.
THEOREM TypeCorrect == Spec => []TypeOK
  <1>1. IInv => TypeOK
    BY DEF IInv
  <1> QED
    BY <1>1, Invariance, PTL

\* Everything on screen is in the messages table, whatever updateMessageStatus
\* and persistAndAppend overwrite of each other.
THEOREM ScreenIsStored == Spec => []ShownIsStored
  <1>1. IInv => ShownIsStored
    BY DEF IInv
  <1> QED
    BY <1>1, Invariance, PTL

\* The screen falls behind the messages table only where an update was
\* overtaken or a conversation is not listed when the page boots.
THEOREM ScreenIsComplete == Spec => []CompleteWithoutGap
  <1>1. IInv => CompleteWithoutGap
    BY DEF IInv
  <1> QED
    BY <1>1, Invariance, PTL

\* The status sendContent leaves behind is true of all devices of the recipient,
\* and without a gap it does leave one.
THEOREM OutcomesAreTold == Spec => []OutcomeTold
  <1>1. IInv => OutcomeTold
    BY DEF IInv, OutcomeTold
  <1> QED
    BY <1>1, Invariance, PTL

\* What a step can do to a record of the messages table: make it, or settle it.
LEMMA TableMoves ==
  ASSUME IInv, [Next]_vars, NEW m \in Msgs
  PROVE  \/ table'[m] = table[m]
         \/ table[m] = "none" /\ table'[m] = FirstStatus(m)
         \/ m \in Own /\ table[m] = "sending" /\ table'[m] \in Settled
  <1> USE DEF IInv
  <1>1. table \in [Msgs -> Statuses]
    BY DEF TypeOK, Views
  <1>2. ASSUME NEW n \in Msgs, FinishAppend(n)
        PROVE  table'[m] = table[m] \/ (table[m] = "none" /\ table'[m] = FirstStatus(m))
    BY <1>1, <1>2 DEF FinishAppend, Progress
  <1>3. ASSUME NEW n \in Own, FinishUpdate(n)
        PROVE  table'[m] = table[m] \/ (m \in Own /\ table[m] = "sending" /\ table'[m] \in Settled)
    BY <1>1, <1>3 DEF FinishUpdate, Progress, SnapshotsStored, Msgs
  <1>4. CASE Boot
    <2>1. PICK committed \in SUBSET {n \in Msgs : stage[n] \in {"appending", "updating"}} :
            table' = [n \in Msgs |-> IF n \in committed THEN Written(n) ELSE table[n]]
      BY <1>4 DEF Boot
    <2>2. CASE m \in committed /\ stage[m] = "appending"
      BY <2>1, <2>2 DEF Progress, Written
    <2>3. CASE m \in committed /\ stage[m] = "updating" /\ m \in Own
      BY <2>1, <2>3 DEF Progress, SnapshotsStored, Written
    <2>4. CASE m \notin committed
      BY <2>1, <2>4
    <2>5. m \in committed => stage[m] = "appending" \/ (stage[m] = "updating" /\ m \in Own)
      BY DEF Progress
    <2> QED
      BY <2>2, <2>3, <2>4, <2>5
  <1>5. \/ \E n \in Msgs : FinishAppend(n)
        \/ \E n \in Own : FinishUpdate(n)
        \/ Boot
        \/ UNCHANGED table
    BY DEF Next, vars, StartAppend, SendText, SendAttachment, Uploaded, RouteOlmContent,
           SendOlmContent, Sent, SendThrows, EnsureDm, SocketCloses, SocketOpens
  <1> QED
    BY <1>2, <1>3, <1>4, <1>5

\* putMessage never takes a stored message or a stored outcome back.
THEOREM TableKeeps == Spec => TableNeverRegresses
  <1>1. ASSUME IInv, [Next]_vars, NEW m \in Msgs
        PROVE  /\ table[m] # "none" => table'[m] # "none"
               /\ table[m] \in Settled => table'[m] = table[m]
    BY <1>1, TableMoves DEF Settled
  <1>2. IInv /\ [Next]_vars => TableKept
    BY <1>1 DEF TableKept
  <1> QED
    BY <1>2, Invariance, PTL DEF Spec, TableNeverRegresses
=============================================================================

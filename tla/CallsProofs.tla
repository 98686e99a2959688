---------------------------- MODULE CallsProofs -----------------------------
(***************************************************************************)
(* Theorems about Calls, for any number of devices, users and attempts:    *)
(* its type invariant, that a device that rings has an offer to accept,    *)
(* and that a microphone is on, and a call shown as connected, only with   *)
(* what belongs to it, unless an attempt of the device was overtaken.      *)
(***************************************************************************)
EXTENDS Calls, TLAPS

\* Only an attempt that was begun has an owner and a connection.
Begun ==
  \A t \in Attempts :
    /\ stage[t] # "unused" => owner[t] \in Devices
    /\ conn[t] # "none" => stage[t] # "unused"

\* An offer carries a description.
Described == \A s \in signals : s.kind = "offer" => s.sdp # None

IInv == TypeOK /\ Begun /\ Described /\ RingingHasOffer

\* What sendControl sends is well typed.
LEMMA SentTyped ==
  ASSUME NEW d \in Devices, NEW u, NEW kind \in {"offer", "answer", "hangup"},
         NEW sdp \in Attempts \union {None}
  PROVE  /\ Sent(d, u, kind, sdp) \subseteq Signals
         /\ \A s \in Sent(d, u, kind, sdp) : s.kind = kind /\ s.sdp = sdp
  BY UserAssumption DEF Sent, Signals

\* Nobody has called yet.
LEMMA InitInvariant == Init => IInv
  BY BoundAssumption DEF Init, IInv, TypeOK, Begun, Described, RingingHasOffer, Statuses, Waiting

\* After a cleanup nothing is held that is closed.
LEMMA CleanupTyped ==
  ASSUME TypeOK, NEW d \in Devices, NEW p \in Attempts \union {None},
         NEW c \in [Attempts -> {"none", "new", "offered", "stable", "closed"}],
         p = pc[d] \/ (p # None /\ owner[p] = d),
         \A e \in Devices : e # d /\ pc[e] # None => c[pc[e]] = conn[pc[e]],
         Cleanup(d, p, c)
  PROVE  /\ pc' \in [Devices -> Attempts \union {None}]
         /\ localStream' \in [Devices -> Attempts \union {None}]
         /\ incomingOffer' \in [Devices -> Attempts \union {None}]
         /\ conn' \in [Attempts -> {"none", "new", "offered", "stable", "closed"}]
         /\ live' \subseteq Attempts
         /\ \A e \in Devices : pc'[e] # None => owner[pc'[e]] = e /\ conn'[pc'[e]] \notin {"none", "closed"}
         /\ \A e \in Devices : e # d => incomingOffer'[e] = incomingOffer[e]
         /\ \A t \in Attempts : conn'[t] # "none" => c[t] # "none" \/ t = p
  <1>t. /\ pc \in [Devices -> Attempts \union {None}]
        /\ localStream \in [Devices -> Attempts \union {None}]
        /\ incomingOffer \in [Devices -> Attempts \union {None}]
        /\ live \subseteq Attempts
        /\ \A e \in Devices : pc[e] # None => owner[pc[e]] = e /\ conn[pc[e]] \notin {"none", "closed"}
    BY DEF TypeOK
  <1>1. /\ conn' = IF p = None THEN c ELSE [c EXCEPT ![p] = "closed"]
        /\ pc' = [pc EXCEPT ![d] = None]
        /\ live' = live \ {localStream[d]}
        /\ localStream' = [localStream EXCEPT ![d] = None]
        /\ incomingOffer' = [incomingOffer EXCEPT ![d] = None]
    BY DEF Cleanup
  <1>2. \A t \in Attempts : t # p => conn'[t] = c[t]
    BY <1>1
  <1>3. ASSUME NEW e \in Devices, pc'[e] # None
        PROVE  owner[pc'[e]] = e /\ conn'[pc'[e]] \notin {"none", "closed"}
    <2>1. e # d /\ pc'[e] = pc[e] /\ pc[e] \in Attempts
      BY <1>t, <1>1, <1>3
    <2>2. owner[pc[e]] = e /\ conn[pc[e]] \notin {"none", "closed"}
      BY <1>t, <1>3, <2>1
    <2>3. pc[e] # p
      BY <1>t, <1>3, <2>1, <2>2
    <2> QED
      BY <1>2, <1>3, <2>1, <2>2, <2>3
  <1> QED
    BY <1>t, <1>1, <1>2, <1>3

\* Every step keeps the invariant.
LEMMA Inductive == IInv /\ [Next]_vars => IInv'
  <1> SUFFICES ASSUME IInv, [Next]_vars
               PROVE  IInv'
    OBVIOUS
  <1>i. TypeOK /\ Begun /\ Described /\ RingingHasOffer
    BY DEF IInv
  <1>t. /\ status \in [Devices -> Statuses]
        /\ peerUserId \in [Devices -> Users \union {None}]
        /\ incomingOffer \in [Devices -> Attempts \union {None}]
        /\ pc \in [Devices -> Attempts \union {None}]
        /\ localStream \in [Devices -> Attempts \union {None}]
        /\ stage \in [Attempts -> Waiting \union {"unused", "done"}]
        /\ owner \in [Attempts -> Devices \union {None}]
        /\ callee \in [Attempts -> Users \union {None}]
        /\ conn \in [Attempts -> {"none", "new", "offered", "stable", "closed"}]
        /\ remote \in [Attempts -> Attempts \union {None}]
        /\ live \subseteq Attempts /\ strayed \subseteq Attempts
        /\ signals \subseteq Signals /\ clicks \in 0..MaxHangUps
        /\ \A d \in Devices :
             pc[d] # None => owner[pc[d]] = d /\ conn[pc[d]] \notin {"none", "closed"}
    BY DEF IInv, TypeOK
  <1>n. None \notin Attempts /\ None \notin Users /\ None \notin Devices
    BY NoneAssumption
  <1>u. \A d \in Devices : UserOf[d] \in Users /\ UnderWay(d) \subseteq Attempts
    BY UserAssumption DEF UnderWay
  <1>w. /\ "media" \in Waiting /\ "turn" \in Waiting /\ "describe" \in Waiting /\ "send" \in Waiting
        /\ "unused" \notin Waiting
    BY DEF Waiting
  \* What is left to show of a step that ends an attempt or a call on d.
  <1>e. ASSUME NEW d \in Devices, NEW p \in Attempts \union {None},
               NEW c \in [Attempts -> {"none", "new", "offered", "stable", "closed"}],
               p = pc[d] \/ (p # None /\ owner[p] = d),
               \A e \in Devices : e # d /\ pc[e] # None => c[pc[e]] = conn[pc[e]],
               \A t \in Attempts : c[t] # "none" => conn[t] # "none",
               p # None => stage[p] # "unused",
               Cleanup(d, p, c),
               status' \in {[status EXCEPT ![d] = "ended"], [status EXCEPT ![d] = "idle"]},
               stage' \in [Attempts -> Waiting \union {"unused", "done"}],
               \A t \in Attempts : stage'[t] = "unused" <=> stage[t] = "unused",
               strayed' \subseteq Attempts,
               signals' \subseteq Signals,
               \A s \in signals' : s.kind = "offer" => s.sdp # None,
               clicks' \in 0..MaxHangUps,
               UNCHANGED <<peerUserId, owner, callee>>,
               remote' \in [Attempts -> Attempts \union {None}]
        PROVE  IInv'
    <2>1. /\ pc' \in [Devices -> Attempts \union {None}]
          /\ localStream' \in [Devices -> Attempts \union {None}]
          /\ incomingOffer' \in [Devices -> Attempts \union {None}]
          /\ conn' \in [Attempts -> {"none", "new", "offered", "stable", "closed"}]
          /\ live' \subseteq Attempts
          /\ \A e \in Devices : pc'[e] # None => owner[pc'[e]] = e /\ conn'[pc'[e]] \notin {"none", "closed"}
          /\ \A e \in Devices : e # d => incomingOffer'[e] = incomingOffer[e]
          /\ \A t \in Attempts : conn'[t] # "none" => c[t] # "none" \/ t = p
      BY <1>i, <1>e, CleanupTyped
    <2>2. TypeOK'
      BY <1>t, <1>e, <2>1 DEF TypeOK, Statuses
    <2>3. Begun'
      <3>1. \A t \in Attempts : owner'[t] = owner[t] /\ (stage'[t] = "unused" <=> stage[t] = "unused")
        BY <1>e
      <3>2. \A t \in Attempts : conn[t] # "none" => stage[t] # "unused"
        BY <1>i DEF Begun
      <3>3. \A t \in Attempts : c[t] # "none" \/ t = p => stage[t] # "unused"
        BY <1>e, <1>n, <3>2
      <3>4. \A t \in Attempts : conn'[t] # "none" => stage[t] # "unused"
        BY <2>1, <3>3
      <3> QED
        BY <1>i, <3>1, <3>4 DEF Begun
    <2>4. Described'
      BY <1>e DEF Described
    <2>5. RingingHasOffer'
      <3>1. \A e \in Devices : status'[e] = "ringing" => e # d /\ status[e] = "ringing"
        BY <1>t, <1>e
      <3> QED
        BY <1>i, <1>e, <2>1, <3>1 DEF RingingHasOffer
    <2> QED
      BY <2>2, <2>3, <2>4, <2>5 DEF IInv
  <1>c. ASSUME NEW t \in Attempts, stage[t] \in {"media", "turn", "describe"},
               NEW p, p = pc[owner[t]] \/ p = t, Catch(t, p, conn), remote' = remote,
               UNCHANGED <<peerUserId, owner, callee, signals, clicks>>
        PROVE  IInv'
    <2>1. owner[t] \in Devices
      BY <1>c, <1>i DEF Begun
    <2>2. p \in Attempts \union {None} /\ (p # None => stage[p] # "unused" /\ owner[p] = owner[t])
      BY <1>c, <1>i, <1>t, <2>1 DEF Begun
    <2>3. /\ stage' = [stage EXCEPT ![t] = "done"] /\ Cleanup(owner[t], p, conn)
          /\ status' = [status EXCEPT ![owner[t]] = "idle"]
          /\ strayed' = strayed \union (UnderWay(owner[t]) \ {t})
      BY <1>c DEF Catch
    <2>4. strayed' \subseteq Attempts
      BY <1>t, <1>u, <2>1, <2>3
    <2>5. /\ stage' \in [Attempts -> Waiting \union {"unused", "done"}]
          /\ \A s \in Attempts : stage'[s] = "unused" <=> stage[s] = "unused"
      BY <1>c, <1>t, <2>3
    <2>6. /\ signals' \subseteq Signals /\ \A s \in signals' : s.kind = "offer" => s.sdp # None
          /\ clicks' \in 0..MaxHangUps /\ UNCHANGED <<peerUserId, owner, callee>>
          /\ remote' \in [Attempts -> Attempts \union {None}]
          /\ status' \in {[status EXCEPT ![owner[t]] = "ended"], [status EXCEPT ![owner[t]] = "idle"]}
      BY <1>c, <1>i, <1>t, <2>3 DEF Described
    <2>7. p = pc[owner[t]] \/ (p # None /\ owner[p] = owner[t])
      BY <1>c, <1>n
    <2>8. /\ conn \in [Attempts -> {"none", "new", "offered", "stable", "closed"}]
          /\ \A e \in Devices : e # owner[t] /\ pc[e] # None => conn[pc[e]] = conn[pc[e]]
          /\ \A x \in Attempts : conn[x] # "none" => conn[x] # "none"
      BY <1>t
    <2> QED
      BY <1>e, <2>1, <2>2, <2>3, <2>4, <2>5, <2>6, <2>7, <2>8
  <1>l. ASSUME NEW d \in Devices, NEW c \in [Attempts -> {"none", "new", "offered", "stable", "closed"}],
               EndLocal(d, c),
               \A e \in Devices : e # d /\ pc[e] # None => c[pc[e]] = conn[pc[e]],
               \A t \in Attempts : c[t] # "none" => conn[t] # "none",
               signals' \subseteq Signals, \A s \in signals' : s.kind = "offer" => s.sdp # None,
               clicks' \in 0..MaxHangUps, UNCHANGED <<peerUserId, stage, owner, callee, remote>>
        PROVE  IInv'
    <2>1. /\ status' = [status EXCEPT ![d] = "ended"] /\ Cleanup(d, pc[d], c)
          /\ strayed' \subseteq Attempts
      BY <1>l, <1>t, <1>u DEF EndLocal
    <2>2. pc[d] \in Attempts \union {None} /\ (pc[d] # None => stage[pc[d]] # "unused")
      BY <1>i, <1>t DEF Begun
    <2>3. /\ stage' \in [Attempts -> Waiting \union {"unused", "done"}]
          /\ \A t \in Attempts : stage'[t] = "unused" <=> stage[t] = "unused"
          /\ UNCHANGED <<peerUserId, owner, callee>>
          /\ remote' \in [Attempts -> Attempts \union {None}]
          /\ status' \in {[status EXCEPT ![d] = "ended"], [status EXCEPT ![d] = "idle"]}
      BY <1>l, <1>t, <2>1
    <2> QED
      BY <1>e, <1>l, <2>1, <2>2, <2>3
  <1>1. CASE UNCHANGED vars
    BY <1>1 DEF vars, manager, runs, IInv, TypeOK, Begun, Described, RingingHasOffer
  <1>2. ASSUME NEW d \in Devices, NEW t \in Attempts, NEW u \in Users, StartCall(d, t, u)
        PROVE  IInv'
    <2>1. /\ status' = [status EXCEPT ![d] = "calling"]
          /\ peerUserId' = [peerUserId EXCEPT ![d] = u]
          /\ stage[t] = "unused" /\ stage' = [stage EXCEPT ![t] = "media"]
          /\ owner' = [owner EXCEPT ![t] = d]
          /\ callee' = [callee EXCEPT ![t] = u]
          /\ strayed' \subseteq strayed \union {t}
          /\ UNCHANGED <<incomingOffer, pc, localStream, conn, remote, live, signals, clicks>>
      BY <1>2 DEF StartCall, Unused
    <2>2. \A e \in Devices : pc[e] # t
      BY <1>i, <1>n, <1>t, <2>1 DEF Begun
    <2>3. TypeOK'
      BY <1>t, <1>w, <2>1, <2>2 DEF TypeOK, Statuses
    <2>4. Begun'
      BY <1>i, <1>t, <2>1 DEF Begun
    <2>5. RingingHasOffer'
      BY <1>i, <1>t, <1>n, <2>1 DEF RingingHasOffer
    <2> QED
      BY <1>i, <2>1, <2>3, <2>4, <2>5 DEF IInv, Described
  <1>3. ASSUME NEW d \in Devices, NEW t \in Attempts, Accept(d, t)
        PROVE  IInv'
    <2>1. /\ stage[t] = "unused" /\ stage' = [stage EXCEPT ![t] = "media"]
          /\ owner' = [owner EXCEPT ![t] = d]
          /\ strayed' \subseteq Attempts
          /\ UNCHANGED <<manager, callee, conn, remote, live, signals, clicks>>
      BY <1>3, <1>t, <1>u DEF Accept, Unused
    <2>2. \A e \in Devices : pc[e] # t
      BY <1>i, <1>n, <1>t, <2>1 DEF Begun
    <2>3. TypeOK'
      BY <1>t, <1>w, <2>1, <2>2 DEF TypeOK, manager
    <2>4. Begun'
      BY <1>i, <1>t, <2>1 DEF Begun
    <2> QED
      BY <1>i, <2>1, <2>3, <2>4 DEF IInv, Described, RingingHasOffer, manager
  <1>4. ASSUME NEW d \in Devices, HangUp(d)
        PROVE  IInv'
    <2>1. /\ clicks < MaxHangUps /\ clicks' = clicks + 1
          /\ signals' = signals \union Sent(d, peerUserId[d], "hangup", None)
          /\ EndLocal(d, conn) /\ UNCHANGED <<peerUserId, stage, owner, callee, remote>>
      BY <1>4 DEF HangUp
    <2>2. signals' \subseteq Signals /\ \A s \in signals' : s.kind = "offer" => s.sdp # None
      BY <1>i, <1>t, <2>1, SentTyped DEF Described
    <2>3. clicks' \in 0..MaxHangUps
      BY <1>t, <2>1, BoundAssumption
    <2> QED
      BY <1>l, <1>t, <2>1, <2>2, <2>3
  <1>5. ASSUME NEW d \in Devices, TimerRuns(d)
        PROVE  IInv'
    <2>1. /\ status' = [status EXCEPT ![d] = "idle"]
          /\ UNCHANGED <<peerUserId, incomingOffer, pc, localStream, runs, signals, strayed, clicks>>
      BY <1>5 DEF TimerRuns
    <2>2. TypeOK'
      BY <1>t, <2>1 DEF TypeOK, Statuses, runs
    <2>3. RingingHasOffer'
      BY <1>i, <1>t, <2>1 DEF RingingHasOffer
    <2> QED
      BY <1>i, <2>1, <2>2, <2>3 DEF IInv, Begun, Described, runs
  <1>6. ASSUME NEW d \in Devices, NEW s \in signals, Receive(d, s)
        PROVE  IInv'
    <2>s. s \in Signals /\ s.from \in Users /\ s.sdp \in Attempts \union {None}
      BY <1>t DEF Signals
    <2>1. CASE s.kind = "offer" /\ status[d] # "idle"
      <3>1. /\ signals' = (signals \ {s}) \union Sent(d, s.from, "hangup", None)
            /\ UNCHANGED <<manager, runs, strayed, clicks>>
        BY <1>6, <2>1 DEF Receive
      <3>2. signals' \subseteq Signals /\ \A x \in signals' : x.kind = "offer" => x.sdp # None
        BY <1>i, <1>t, <3>1, SentTyped DEF Described
      <3>3. TypeOK'
        BY <1>t, <3>1, <3>2 DEF TypeOK, manager, runs
      <3> QED
        BY <1>i, <3>1, <3>2, <3>3 DEF IInv, Begun, Described, RingingHasOffer, manager, runs
    <2>2. CASE s.kind = "offer" /\ status[d] = "idle"
      <3>1. /\ signals' = signals \ {s}
            /\ peerUserId' = [peerUserId EXCEPT ![d] = s.from]
            /\ incomingOffer' = [incomingOffer EXCEPT ![d] = s.sdp]
            /\ status' = [status EXCEPT ![d] = "ringing"]
            /\ UNCHANGED <<pc, localStream, runs, strayed, clicks>>
        BY <1>6, <2>2 DEF Receive
      <3>2. TypeOK'
        BY <1>t, <2>s, <3>1 DEF TypeOK, Statuses, runs
      <3>3. s.sdp # None /\ s.from # None
        BY <1>i, <1>n, <2>2, <2>s DEF Described
      <3>4. RingingHasOffer'
        BY <1>i, <1>t, <3>1, <3>3 DEF RingingHasOffer
      <3> QED
        BY <1>i, <3>1, <3>2, <3>4 DEF IInv, Begun, Described, runs
    <2>3. CASE s.kind = "answer"
      <3>1. /\ signals' = signals \ {s}
            /\ UNCHANGED <<manager, stage, owner, callee, live, strayed, clicks>>
            /\ \/ UNCHANGED <<conn, remote>>
               \/ /\ pc[d] # None /\ conn[pc[d]] = "offered"
                  /\ conn' = [conn EXCEPT ![pc[d]] = "stable"]
                  /\ remote' = [remote EXCEPT ![pc[d]] = s.sdp]
        BY <1>6, <2>3 DEF Receive
      <3>2. TypeOK'
        BY <1>t, <2>s, <3>1 DEF TypeOK, manager
      <3>3. Begun'
        BY <1>i, <1>t, <3>1 DEF Begun
      <3> QED
        BY <1>i, <3>1, <3>2, <3>3 DEF IInv, Described, RingingHasOffer, manager
    <2>4. CASE s.kind = "hangup"
      <3>1. /\ signals' = signals \ {s} /\ EndLocal(d, conn)
            /\ UNCHANGED <<peerUserId, stage, owner, callee, remote, clicks>>
        BY <1>6, <2>4 DEF Receive
      <3> QED
        BY <1>i, <1>l, <1>t, <3>1 DEF Described
    <2> QED
      BY <2>s, <2>1, <2>2, <2>3, <2>4 DEF Signals
  <1>7. ASSUME NEW t \in Attempts, GotMedia(t)
        PROVE  IInv'
    <2>1. /\ stage[t] = "media" /\ owner[t] \in Devices
          /\ live' = live \union {t}
          /\ localStream' = [localStream EXCEPT ![owner[t]] = t]
          /\ stage' = [stage EXCEPT ![t] = "turn"]
          /\ UNCHANGED <<status, peerUserId, incomingOffer, pc, owner, callee, conn, remote, signals, strayed, clicks>>
      BY <1>7, <1>i DEF GotMedia, Begun
    <2>2. TypeOK'
      BY <1>t, <1>w, <2>1 DEF TypeOK
    <2>3. Begun'
      BY <1>i, <1>t, <2>1 DEF Begun
    <2> QED
      BY <1>i, <2>1, <2>2, <2>3 DEF IInv, Described, RingingHasOffer
  <1>8. ASSUME NEW t \in Attempts, NewPeerConnection(t)
        PROVE  IInv'
    <2> DEFINE d == owner[t]
    <2>1. stage[t] = "turn" /\ d \in Devices
      BY <1>8, <1>i DEF NewPeerConnection, Begun
    <2>2. CASE Catch(t, t, conn) /\ UNCHANGED <<remote, peerUserId, owner, callee, signals, clicks>>
      BY <1>c, <2>1, <2>2
    <2>3. CASE /\ pc' = [pc EXCEPT ![d] = t]
               /\ conn' = [conn EXCEPT ![t] = "new"]
               /\ remote' = [remote EXCEPT ![t] = IF callee[t] = None THEN incomingOffer[d] ELSE None]
               /\ stage' = [stage EXCEPT ![t] = "describe"]
               /\ UNCHANGED <<status, incomingOffer, localStream, live, strayed>>
               /\ UNCHANGED <<peerUserId, owner, callee, signals, clicks>>
      <3>1. remote' \in [Attempts -> Attempts \union {None}]
        BY <1>t, <2>1, <2>3
      <3>2. \A e \in Devices : pc'[e] # None => owner[pc'[e]] = e /\ conn'[pc'[e]] \notin {"none", "closed"}
        BY <1>n, <1>t, <2>1, <2>3
      <3>3. TypeOK'
        BY <1>t, <1>w, <2>1, <2>3, <3>1, <3>2 DEF TypeOK
      <3>4. Begun'
        BY <1>i, <1>t, <2>1, <2>3 DEF Begun
      <3> QED
        BY <1>i, <2>3, <3>3, <3>4 DEF IInv, Described, RingingHasOffer
    <2> QED
      BY <1>8, <2>2, <2>3 DEF NewPeerConnection
  <1>9. ASSUME NEW t \in Attempts, SendOffer(t) \/ SendAnswer(t)
        PROVE  IInv'
    <2>1. /\ stage[t] = "describe" /\ owner[t] \in Devices /\ conn[t] = "new"
          /\ conn' \in {[conn EXCEPT ![t] = "offered"], [conn EXCEPT ![t] = "stable"]}
          /\ stage' \in {[stage EXCEPT ![t] = "done"], [stage EXCEPT ![t] = "send"]}
          /\ UNCHANGED <<manager, owner, callee, remote, live, strayed, clicks>>
      BY <1>9, <1>i DEF SendOffer, SendAnswer, Begun
    <2>2. signals' \subseteq Signals /\ \A s \in signals' : s.kind = "offer" => s.sdp # None
      <3>1. \E u : \E kind \in {"offer", "answer"} :
              signals' = signals \union Sent(owner[t], u, kind, t)
        BY <1>9 DEF SendOffer, SendAnswer
      <3>2. PICK u : \E kind \in {"offer", "answer"} :
              signals' = signals \union Sent(owner[t], u, kind, t)
        BY <3>1
      <3>k. PICK kind \in {"offer", "answer"} :
              signals' = signals \union Sent(owner[t], u, kind, t)
        BY <3>2
      <3>3. /\ Sent(owner[t], u, kind, t) \subseteq Signals
            /\ \A s \in Sent(owner[t], u, kind, t) : s.sdp = t
        <4>1. owner[t] \in Devices /\ kind \in {"offer", "answer", "hangup"} /\ t \in Attempts \union {None}
          BY <2>1
        <4> QED
          BY <4>1, SentTyped
      <3> QED
        BY <1>i, <1>n, <1>t, <3>k, <3>3 DEF Described
    <2>3. TypeOK'
      BY <1>t, <1>w, <2>1, <2>2 DEF TypeOK, manager
    <2>4. Begun'
      BY <1>i, <1>t, <2>1 DEF Begun
    <2> QED
      BY <1>i, <2>1, <2>2, <2>3, <2>4 DEF IInv, Described, RingingHasOffer, manager
  <1>10. ASSUME NEW t \in Attempts, AnswerSent(t) \/ Connected(t)
         PROVE  IInv'
    <2>1. /\ owner[t] \in Devices
          /\ status' = [status EXCEPT ![owner[t]] = "connected"]
          /\ stage' = stage \/ (stage[t] = "send" /\ stage' = [stage EXCEPT ![t] = "done"])
          /\ UNCHANGED <<peerUserId, incomingOffer, pc, localStream, owner, callee, conn, remote, live, signals, strayed, clicks>>
      BY <1>10, <1>i DEF AnswerSent, Connected, Matched, Begun, runs
    <2>2. TypeOK'
      BY <1>t, <2>1 DEF TypeOK, Statuses
    <2>3. Begun'
      BY <1>i, <1>t, <2>1 DEF Begun
    <2>4. RingingHasOffer'
      BY <1>i, <1>t, <2>1 DEF RingingHasOffer
    <2> QED
      BY <1>i, <2>1, <2>2, <2>3, <2>4 DEF IInv, Described
  <1>11. ASSUME NEW t \in Attempts, Fails(t)
         PROVE  IInv'
    BY <1>c, <1>11 DEF Fails
  <1>12. ASSUME NEW t \in Attempts, NeverSettles(t)
         PROVE  IInv'
    <2>1. /\ stage[t] = "describe" /\ stage' = [stage EXCEPT ![t] = "done"]
          /\ UNCHANGED <<manager, owner, callee, conn, remote, live, signals, strayed, clicks>>
      BY <1>12 DEF NeverSettles
    <2>2. TypeOK'
      BY <1>t, <2>1 DEF TypeOK, manager
    <2>3. Begun'
      BY <1>i, <1>t, <2>1 DEF Begun
    <2> QED
      BY <1>i, <2>1, <2>2, <2>3 DEF IInv, Described, RingingHasOffer, manager
  <1>13. ASSUME NEW t \in Attempts, Disconnected(t)
         PROVE  IInv'
    <2>1. /\ owner[t] \in Devices /\ EndLocal(owner[t], [conn EXCEPT ![t] = "closed"])
          /\ conn[t] = "stable"
          /\ UNCHANGED <<peerUserId, stage, owner, callee, remote, signals, clicks>>
      BY <1>13, <1>i DEF Disconnected, Begun
    <2>2. /\ [conn EXCEPT ![t] = "closed"] \in [Attempts -> {"none", "new", "offered", "stable", "closed"}]
          /\ \A x \in Attempts : [conn EXCEPT ![t] = "closed"][x] # "none" => conn[x] # "none"
          /\ \A e \in Devices : e # owner[t] /\ pc[e] # None =>
               [conn EXCEPT ![t] = "closed"][pc[e]] = conn[pc[e]]
      BY <1>t, <2>1
    <2>3. /\ signals' \subseteq Signals /\ \A s \in signals' : s.kind = "offer" => s.sdp # None
          /\ clicks' \in 0..MaxHangUps
      BY <1>i, <1>t, <2>1 DEF Described
    <2> DEFINE c == [conn EXCEPT ![t] = "closed"]
    <2>4. EndLocal(owner[t], c)
      BY <2>1
    <2> HIDE DEF c
    <2>5. /\ c \in [Attempts -> {"none", "new", "offered", "stable", "closed"}]
          /\ \A x \in Attempts : c[x] # "none" => conn[x] # "none"
          /\ \A e \in Devices : e # owner[t] /\ pc[e] # None => c[pc[e]] = conn[pc[e]]
      BY <2>2 DEF c
    <2> QED
      BY <1>l, <2>1, <2>3, <2>4, <2>5
  <1> QED
    BY <1>1, <1>2, <1>3, <1>4, <1>5, <1>6, <1>7, <1>8, <1>9, <1>10, <1>11, <1>12, <1>13 DEF Next

\* The manager of every device, its attempts and the signals stay well typed;
\* a device never holds a closed connection or one of another device.
THEOREM TypeCorrect == Spec => []TypeOK
  BY InitInvariant, Inductive, PTL DEF Spec, IInv

\* A device that rings has the offer it rings for, whatever earlier attempts,
\* hangups and timers of it are still under way.
THEOREM Ringing == Spec => []RingingHasOffer
  BY InitInvariant, Inductive, PTL DEF Spec, IInv

\* Streams and connections come with the stages of their attempts.
Clear ==
  /\ \A d \in Devices : localStream[d] # None =>
       owner[localStream[d]] = d /\ stage[localStream[d]] # "unused"
  /\ \A t \in Attempts :
       /\ stage[t] \in {"unused", "media", "turn"} => conn[t] = "none"
       /\ stage[t] = "unused" => callee[t] = None /\ t \notin live \union strayed

Working(t) == stage[t] \in Waiting
Open(t) == conn[t] \notin {"none", "closed"}

\* An attempt that nothing has overtaken fits the status of its device, has
\* the device to itself, and the device holds what it made.
Calm(t) ==
  /\ Working(t) => status[owner[t]] \in {"connected", IF callee[t] = None THEN "ringing" ELSE "calling"}
  /\ stage[t] \in {"turn", "describe", "send"} => t \in live
  /\ stage[t] = "describe" => conn[t] = "new"
  /\ stage[t] = "send" => conn[t] = "stable"
  /\ t \in live =>
       /\ localStream[owner[t]] = t
       /\ status[owner[t]] \in {"calling", "ringing", "connected"}
       /\ stage[t] = "done" => status[owner[t]] # "ringing"
  /\ Working(t) \/ t \in live =>
       \A s \in Attempts : s # t /\ owner[s] = owner[t] => ~Working(s)
  /\ Open(t) => pc[owner[t]] = t /\ t \in live

AllCalm == \A t \in Attempts \ strayed : stage[t] # "unused" => Calm(t)

CInv == Clear /\ AllCalm /\ ConnectedHasPeer

\* An attempt with nothing under way and nothing open is calm.
LEMMA RestIsCalm ==
  ASSUME NEW t, ~Working(t), t \notin live, ~Open(t)
  PROVE  Calm(t)
  BY DEF Calm, Working, Open, Waiting

\* What holds of the attempts of a device other than d, and of its screen,
\* survives a step that only touches d.
LEMMA Elsewhere ==
  ASSUME IInv, CInv, NEW d \in Devices, UNCHANGED callee, strayed \subseteq strayed',
         \A e \in Devices : e # d =>
           status'[e] = status[e] /\ localStream'[e] = localStream[e] /\ pc'[e] = pc[e],
         \A t \in Attempts : stage[t] # "unused" => owner'[t] = owner[t],
         \A t \in Attempts : owner'[t] # d =>
           owner'[t] = owner[t] /\ stage'[t] = stage[t] /\ conn'[t] = conn[t] /\ (t \in live' <=> t \in live)
  PROVE  /\ \A t \in Attempts \ strayed' : owner'[t] # d /\ stage'[t] # "unused" => Calm(t)'
         /\ \A e \in Devices : e # d /\ status'[e] = "connected" /\ Undisturbed(e)' =>
              /\ pc'[e] # None /\ conn'[pc'[e]] = "stable"
              /\ localStream'[e] \in live'
  <1>i. /\ TypeOK /\ Begun /\ Clear /\ AllCalm /\ ConnectedHasPeer
        /\ strayed \subseteq Attempts /\ live \subseteq Attempts
        /\ pc \in [Devices -> Attempts \union {None}]
        /\ localStream \in [Devices -> Attempts \union {None}]
    BY DEF IInv, CInv, TypeOK
  <1>n. None \notin Attempts
    BY NoneAssumption
  <1>1. ASSUME NEW t \in Attempts \ strayed', owner'[t] # d, stage'[t] # "unused"
        PROVE  Calm(t)'
    <2>1. /\ owner'[t] = owner[t] /\ stage'[t] = stage[t] /\ conn'[t] = conn[t]
          /\ (t \in live' <=> t \in live) /\ callee'[t] = callee[t]
      BY <1>1
    <2>2. owner[t] \in Devices /\ owner[t] # d /\ Calm(t)
      BY <1>1, <1>i, <2>1 DEF AllCalm, Begun
    <2>3. /\ status'[owner[t]] = status[owner[t]] /\ localStream'[owner[t]] = localStream[owner[t]]
          /\ pc'[owner[t]] = pc[owner[t]]
      BY <2>2
    <2>4. \A s \in Attempts : owner'[s] = owner[t] => owner[s] = owner[t] /\ stage'[s] = stage[s]
      BY <2>2
    <2> QED
      BY <2>1, <2>2, <2>3, <2>4 DEF Calm, Working, Open
  <1>2. ASSUME NEW e \in Devices, e # d, status'[e] = "connected", Undisturbed(e)'
        PROVE  /\ pc'[e] # None /\ conn'[pc'[e]] = "stable"
               /\ localStream'[e] \in live'
    <2>1. status[e] = "connected" /\ pc'[e] = pc[e] /\ localStream'[e] = localStream[e]
      BY <1>2
    <2>2. Undisturbed(e)
      <3> SUFFICES ASSUME NEW t \in strayed
                   PROVE  owner[t] # e
        BY DEF Undisturbed
      <3>1. t \in strayed' /\ stage[t] # "unused"
        BY <1>i DEF Clear
      <3> QED
        BY <1>2, <1>i, <3>1 DEF Undisturbed
    <2>3. pc[e] # None /\ conn[pc[e]] = "stable" /\ localStream[e] \in live
      BY <1>i, <2>1, <2>2 DEF ConnectedHasPeer
    <2>4. /\ pc[e] \in Attempts /\ owner[pc[e]] = e /\ stage[pc[e]] # "unused"
          /\ localStream[e] \in Attempts /\ owner[localStream[e]] = e /\ stage[localStream[e]] # "unused"
      BY <1>i, <1>n, <2>3 DEF TypeOK, Begun, Clear
    <2>5. owner'[pc[e]] = e /\ owner'[localStream[e]] = e
      BY <2>4
    <2> QED
      BY <1>2, <2>1, <2>3, <2>4, <2>5
  <1> QED
    BY <1>1, <1>2

\* After a cleanup of d its attempts are at rest or overtaken.
LEMMA AfterCleanup ==
  ASSUME IInv, CInv, NEW d \in Devices, UNCHANGED <<owner, callee>>,
         NEW p \in Attempts \union {None}, NEW c, NEW t1 \in Attempts \union {None},
         Cleanup(d, p, c),
         status' \in {[status EXCEPT ![d] = "ended"], [status EXCEPT ![d] = "idle"]},
         \/ t1 = None /\ stage' = stage /\ p = pc[d]
         \/ t1 # None /\ owner[t1] = d /\ Working(t1) /\ (p = t1 \/ p = pc[d])
            /\ stage' = [stage EXCEPT ![t1] = "done"],
         strayed' = strayed \union (UnderWay(d) \ {t1}),
         \/ c = conn
         \/ \E x \in Attempts : owner[x] = d /\ conn[x] = "stable" /\ c = [conn EXCEPT ![x] = "closed"]
  PROVE  CInv'
  <1>i. /\ TypeOK /\ Begun /\ Clear /\ AllCalm /\ ConnectedHasPeer
        /\ strayed \subseteq Attempts /\ live \subseteq Attempts
        /\ status \in [Devices -> Statuses]
        /\ pc \in [Devices -> Attempts \union {None}]
        /\ localStream \in [Devices -> Attempts \union {None}]
        /\ stage \in [Attempts -> Waiting \union {"unused", "done"}]
        /\ conn \in [Attempts -> {"none", "new", "offered", "stable", "closed"}]
        /\ \A e \in Devices : pc[e] # None => owner[pc[e]] = e /\ Open(pc[e])
    BY DEF IInv, CInv, TypeOK, Open
  <1>n. None \notin Attempts /\ None \notin Devices
    BY NoneAssumption
  <1>w. "unused" \notin Waiting /\ "done" \notin Waiting
    BY DEF Waiting
  <1>1. /\ conn' = IF p = None THEN c ELSE [c EXCEPT ![p] = "closed"]
        /\ pc' = [pc EXCEPT ![d] = None]
        /\ live' = live \ {localStream[d]}
        /\ localStream' = [localStream EXCEPT ![d] = None]
    BY DEF Cleanup
  <1>2. p # None => owner[p] = d
    BY <1>i
  <1>3. /\ \A t \in Attempts : owner[t] # d => conn'[t] = conn[t]
        /\ \A t \in Attempts : conn'[t] = conn[t] \/ conn'[t] = "closed"
        /\ p # None => conn'[p] = "closed"
    BY <1>1, <1>2, <1>i
  <1>4. /\ \A t \in Attempts : t # t1 => stage'[t] = stage[t]
        /\ t1 # None => stage'[t1] = "done" /\ stage[t1] # "unused"
    BY <1>i, <1>w DEF Working
  <1>5. \A t \in Attempts : owner[t] # d => stage'[t] = stage[t] /\ (t \in live' <=> t \in live)
    <2>1. ASSUME NEW t \in Attempts, owner[t] # d
          PROVE  t # t1 /\ t # localStream[d]
      BY <1>i, <1>n, <2>1 DEF Clear
    <2> QED
      BY <1>1, <1>4, <2>1
  <1>6. \A e \in Devices : e # d =>
          status'[e] = status[e] /\ localStream'[e] = localStream[e] /\ pc'[e] = pc[e]
    BY <1>1, <1>i
  <1>7. /\ \A t \in Attempts \ strayed' : owner'[t] # d /\ stage'[t] # "unused" => Calm(t)'
        /\ \A e \in Devices : e # d /\ status'[e] = "connected" /\ Undisturbed(e)' =>
             /\ pc'[e] # None /\ conn'[pc'[e]] = "stable"
             /\ localStream'[e] \in live'
    <2>1. UNCHANGED callee /\ strayed \subseteq strayed'
      OBVIOUS
    <2>2. /\ \A t \in Attempts : stage[t] # "unused" => owner'[t] = owner[t]
          /\ \A t \in Attempts : owner'[t] # d =>
               owner'[t] = owner[t] /\ stage'[t] = stage[t] /\ conn'[t] = conn[t] /\ (t \in live' <=> t \in live)
      BY <1>3, <1>5
    <2> QED
      BY <1>6, <2>1, <2>2, Elsewhere
  <1>8. ASSUME NEW t \in Attempts \ strayed', owner[t] = d, stage'[t] # "unused"
        PROVE  Calm(t)'
    <2>1. t \notin strayed /\ stage[t] # "unused" /\ Calm(t)
      BY <1>8, <1>4, <1>i DEF AllCalm
    <2>2. ~Working(t)'
      <3>1. CASE t = t1
        BY <1>4, <1>n, <1>w, <3>1 DEF Working
      <3>2. CASE t # t1
        <4>1. t \notin UnderWay(d) /\ stage'[t] = stage[t]
          BY <1>8, <1>4, <3>2
        <4> QED
          BY <1>8, <4>1 DEF Working, UnderWay
      <3> QED
        BY <3>1, <3>2
    <2>3. t \notin live'
      BY <1>1, <1>8, <2>1 DEF Calm
    <2>4. ~Open(t)'
      <3>1. CASE ~Open(t)
        BY <1>3, <3>1 DEF Open
      <3>2. CASE Open(t)
        <4>1. pc[d] = t /\ t \in live
          BY <1>8, <2>1, <3>2 DEF Calm
        <4>2. p = t
          <5>1. CASE p = pc[d]
            BY <4>1, <5>1
          <5>2. CASE p # pc[d]
            <6>1. t1 # None /\ owner[t1] = d /\ Working(t1) /\ p = t1
              BY <5>2
            <6>2. t1 # t => ~Working(t1)
              BY <1>8, <2>1, <4>1, <6>1 DEF Calm
            <6> QED
              BY <6>1, <6>2
          <5> QED
            BY <5>1, <5>2
        <4> QED
          BY <1>3, <1>n, <4>2 DEF Open
      <3> QED
        BY <3>1, <3>2
    <2> QED
      BY <2>2, <2>3, <2>4 DEF Calm, Working, Open, Waiting
  <1>9. AllCalm'
    BY <1>7, <1>8 DEF AllCalm
  <1>10. Clear'
    <2>1. \A e \in Devices : localStream'[e] # None => e # d /\ localStream'[e] = localStream[e]
      BY <1>1, <1>i
    <2>2. \A t \in Attempts : stage'[t] = "unused" <=> stage[t] = "unused"
      BY <1>4
    <2>3. \A e \in Devices : localStream'[e] # None =>
            owner'[localStream'[e]] = e /\ stage'[localStream'[e]] # "unused"
      BY <1>i, <1>n, <2>1, <2>2 DEF Clear
    <2>4. ASSUME NEW t \in Attempts, stage'[t] \in {"unused", "media", "turn"}
          PROVE  conn'[t] = "none"
      <3>1. t # t1 /\ stage[t] = stage'[t] /\ conn[t] = "none"
        BY <1>4, <1>n, <1>i, <2>4 DEF Clear
      <3>2. t # p
        BY <1>i, <1>n, <3>1 DEF Open
      <3> QED
        BY <1>1, <1>i, <3>1, <3>2
    <2>5. ASSUME NEW t \in Attempts, stage'[t] = "unused"
          PROVE  callee'[t] = None /\ t \notin live' \union strayed'
      <3>1. stage[t] = "unused" /\ callee[t] = None /\ t \notin live \union strayed
        BY <1>i, <2>2, <2>5 DEF Clear
      <3> QED
        BY <1>1, <1>w, <3>1 DEF UnderWay
    <2> QED
      BY <2>3, <2>4, <2>5 DEF Clear
  <1>11. status'[d] # "connected"
    BY <1>i
  <1>12. ConnectedHasPeer'
    BY <1>7, <1>11 DEF ConnectedHasPeer
  <1> QED
    BY <1>9, <1>10, <1>12 DEF CInv

AtRest(t) == ~Working(t) /\ t \notin live /\ ~Open(t)

\* While an attempt is under way, those of its device that nothing has
\* overtaken are at rest, and what the device holds is the attempt's.
LEMMA Alone ==
  ASSUME IInv, CInv, NEW t \in Attempts, Working(t)
  PROVE  /\ \A s \in Attempts \ strayed :
              s # t /\ owner[s] = owner[t] /\ stage[s] # "unused" => AtRest(s)
         /\ Undisturbed(owner[t]) /\ pc[owner[t]] # None => pc[owner[t]] = t
  <1>1. ASSUME NEW s \in Attempts \ strayed, s # t, owner[s] = owner[t], stage[s] # "unused"
        PROVE  AtRest(s)
    BY <1>1 DEF CInv, AllCalm, Calm, AtRest
  <1>2. ASSUME Undisturbed(owner[t]), pc[owner[t]] # None
        PROVE  pc[owner[t]] = t
    <2> DEFINE d == owner[t]
               x == pc[d]
    <2>1. d \in Devices
      BY DEF IInv, Begun, Working, Waiting
    <2>2. x \in Attempts /\ owner[x] = d /\ Open(x) /\ stage[x] # "unused"
      BY <1>2, <2>1 DEF IInv, TypeOK, Begun, Open
    <2>3. x \notin strayed
      BY <1>2, <2>2 DEF Undisturbed
    <2> QED
      BY <1>1, <2>2, <2>3 DEF AtRest
  <1> QED
    BY <1>1, <1>2

\* So are those of a device that shows no call.
LEMMA NoCall ==
  ASSUME IInv, CInv, NEW d \in Devices, status[d] \in {"idle", "ended"}
  PROVE  \A s \in Attempts \ strayed : owner[s] = d /\ stage[s] # "unused" => AtRest(s)
  BY DEF CInv, AllCalm, Calm, AtRest

\* An attempt of d and the screen of d settle the invariant for the others.
LEMMA Settled ==
  ASSUME IInv, CInv, NEW d \in Devices, UNCHANGED callee, strayed \subseteq strayed',
         \A e \in Devices : e # d =>
           status'[e] = status[e] /\ localStream'[e] = localStream[e] /\ pc'[e] = pc[e],
         \A t \in Attempts : stage[t] # "unused" => owner'[t] = owner[t],
         \A t \in Attempts : owner'[t] # d =>
           owner'[t] = owner[t] /\ stage'[t] = stage[t] /\ conn'[t] = conn[t] /\ (t \in live' <=> t \in live),
         Clear',
         \A t \in Attempts \ strayed' : owner'[t] = d /\ stage'[t] # "unused" => Calm(t)',
         status'[d] = "connected" /\ Undisturbed(d)' =>
           pc'[d] # None /\ conn'[pc'[d]] = "stable" /\ localStream'[d] \in live'
  PROVE  CInv'
  <1>1. /\ \A t \in Attempts \ strayed' : owner'[t] # d /\ stage'[t] # "unused" => Calm(t)'
        /\ \A e \in Devices : e # d /\ status'[e] = "connected" /\ Undisturbed(e)' =>
             /\ pc'[e] # None /\ conn'[pc'[e]] = "stable"
             /\ localStream'[e] \in live'
    BY Elsewhere
  <1>2. AllCalm'
    BY <1>1 DEF AllCalm
  <1>3. ConnectedHasPeer'
    BY <1>1 DEF ConnectedHasPeer
  <1> QED
    BY <1>2, <1>3 DEF CInv

\* Every step keeps the attempts nothing has overtaken calm.
LEMMA CalmStep == IInv /\ CInv /\ [Next]_vars => CInv'
  <1> SUFFICES ASSUME IInv, CInv, [Next]_vars
               PROVE  CInv'
    OBVIOUS
  <1>i. /\ TypeOK /\ Begun /\ Clear /\ AllCalm /\ ConnectedHasPeer
        /\ strayed \subseteq Attempts /\ live \subseteq Attempts
        /\ status \in [Devices -> Statuses]
        /\ pc \in [Devices -> Attempts \union {None}]
        /\ localStream \in [Devices -> Attempts \union {None}]
        /\ owner \in [Attempts -> Devices \union {None}]
        /\ stage \in [Attempts -> Waiting \union {"unused", "done"}]
        /\ conn \in [Attempts -> {"none", "new", "offered", "stable", "closed"}]
        /\ \A e \in Devices : pc[e] # None => owner[pc[e]] = e /\ Open(pc[e])
        /\ \A t \in Attempts : stage[t] # "unused" => owner[t] \in Devices
    BY DEF IInv, CInv, TypeOK, Open, Begun
  <1>n. None \notin Attempts /\ None \notin Devices
    BY NoneAssumption
  <1>w. Waiting = {"media", "turn", "describe", "send"}
    BY DEF Waiting
  <1>h. ASSUME NEW d \in Devices, NEW c, EndLocal(d, c), UNCHANGED <<stage, owner, callee>>,
               \/ c = conn
               \/ \E x \in Attempts : owner[x] = d /\ conn[x] = "stable" /\ c = [conn EXCEPT ![x] = "closed"]
        PROVE  CInv'
    <2>1. /\ status' = [status EXCEPT ![d] = "ended"] /\ Cleanup(d, pc[d], c)
          /\ strayed' = strayed \union (UnderWay(d) \ {None})
      BY <1>h, <1>n DEF EndLocal, UnderWay
    <2>2. pc[d] \in Attempts \union {None}
      BY <1>i
    <2> QED
      BY <1>h, <2>1, <2>2, AfterCleanup
  <1>1. CASE UNCHANGED vars
    BY <1>1, <1>i DEF vars, manager, runs, CInv, Clear, AllCalm, Calm, Working, Open,
         ConnectedHasPeer, Undisturbed
  <1>2. ASSUME NEW d \in Devices, NEW t \in Attempts, NEW u \in Users, StartCall(d, t, u)
        PROVE  CInv'
    <2>1. /\ status[d] = "idle" /\ status' = [status EXCEPT ![d] = "calling"]
          /\ stage[t] = "unused" /\ stage' = [stage EXCEPT ![t] = "media"]
          /\ owner' = [owner EXCEPT ![t] = d]
          /\ callee' = [callee EXCEPT ![t] = u]
          /\ strayed' = IF UnderWay(d) = {} THEN strayed ELSE strayed \union {t}
          /\ UNCHANGED <<pc, localStream, conn, live>>
      BY <1>2 DEF StartCall, Unused
    <2>2. conn[t] = "none" /\ t \notin live \union strayed
      BY <1>i, <2>1 DEF Clear
    <2>3. Clear'
      BY <1>i, <1>n, <2>1, <2>2 DEF Clear, IInv, TypeOK
    <2>4. ASSUME NEW s \in Attempts \ strayed', s # t, stage'[s] # "unused"
          PROVE  Calm(s)'
      <3>1. /\ s \notin strayed /\ owner'[s] = owner[s] /\ stage'[s] = stage[s]
            /\ stage[s] # "unused" /\ Calm(s) /\ callee'[s] = callee[s]
        BY <1>i, <2>1, <2>4 DEF AllCalm, IInv, TypeOK
      <3>2. CASE owner[s] = d
        <4>1. AtRest(s)
          BY <2>1, <3>1, <3>2, NoCall
        <4> QED
          BY <2>1, <3>1, <4>1 DEF AtRest, Calm, Working, Open, Waiting
      <3>3. CASE owner[s] # d
        <4>1. \A x \in Attempts : owner'[x] = owner[s] => owner[x] = owner[s] /\ stage'[x] = stage[x]
          BY <1>i, <2>1, <3>1, <3>3
        <4>2. status'[owner[s]] = status[owner[s]]
          BY <1>i, <2>1, <3>1, <3>3
        <4> QED
          BY <2>1, <3>1, <4>1, <4>2 DEF Calm, Working, Open
      <3> QED
        BY <3>2, <3>3
    <2>5. ASSUME t \notin strayed'
          PROVE  Calm(t)'
      <3>1. UnderWay(d) = {}
        BY <2>1, <2>5
      <3>2. \A x \in Attempts : x # t /\ owner'[x] = d => stage'[x] \notin Waiting
        BY <1>i, <2>1, <3>1 DEF UnderWay
      <3>3. owner'[t] = d /\ stage'[t] = "media" /\ callee'[t] # None /\ status'[d] = "calling"
        BY <1>i, <2>1, NoneAssumption DEF IInv, TypeOK
      <3> QED
        BY <1>w, <2>1, <2>2, <3>2, <3>3 DEF Calm, Working, Open
    <2>6. ConnectedHasPeer'
      <3> SUFFICES ASSUME NEW e \in Devices, status'[e] = "connected", Undisturbed(e)'
                   PROVE  /\ pc'[e] # None /\ conn'[pc'[e]] = "stable"
                          /\ localStream'[e] \in live'
        BY DEF ConnectedHasPeer
      <3>1. status[e] = "connected"
        BY <1>i, <2>1
      <3>2. Undisturbed(e)
        BY <1>i, <2>1, <2>2 DEF Undisturbed
      <3> QED
        BY <1>i, <2>1, <3>1, <3>2 DEF ConnectedHasPeer
    <2> QED
      BY <2>3, <2>4, <2>5, <2>6 DEF CInv, AllCalm
  <1>3. ASSUME NEW d \in Devices, NEW t \in Attempts, Accept(d, t)
        PROVE  CInv'
    <2>1. /\ status[d] = "ringing"
          /\ stage[t] = "unused" /\ stage' = [stage EXCEPT ![t] = "media"]
          /\ owner' = [owner EXCEPT ![t] = d]
          /\ strayed' = IF UnderWay(d) = {} THEN strayed ELSE strayed \union UnderWay(d) \union {t}
          /\ UNCHANGED <<status, pc, localStream, conn, live, callee>>
      BY <1>3 DEF Accept, Unused, ShowsAccept, manager
    <2>2. conn[t] = "none" /\ t \notin live \union strayed /\ callee[t] = None
      BY <1>i, <2>1 DEF Clear
    <2>3. Clear'
      BY <1>i, <1>n, <1>w, <2>1, <2>2 DEF Clear, UnderWay
    <2>4. ASSUME NEW s \in Attempts \ strayed', s # t, owner'[s] = d, stage'[s] # "unused"
          PROVE  Calm(s)'
      <3>1. /\ s \notin strayed /\ owner[s] = d /\ stage'[s] = stage[s] /\ stage[s] # "unused"
            /\ Calm(s)
        BY <1>i, <2>1, <2>4 DEF AllCalm
      <3>2. ~Working(s)
        BY <2>1, <2>4, <3>1 DEF UnderWay, Working
      <3>3. AtRest(s)
        BY <1>i, <2>1, <3>1, <3>2 DEF Calm, Working, AtRest
      <3> QED
        BY <2>1, <3>1, <3>3 DEF AtRest, Calm, Working, Open, Waiting
    <2>5. ASSUME t \notin strayed'
          PROVE  Calm(t)'
      <3>1. UnderWay(d) = {}
        BY <2>1, <2>5
      <3>2. \A x \in Attempts : x # t /\ owner'[x] = d => stage'[x] \notin Waiting
        BY <1>i, <2>1, <3>1 DEF UnderWay
      <3>3. owner'[t] = d /\ stage'[t] = "media" /\ callee'[t] = None /\ status'[d] = "ringing"
        BY <1>i, <2>1, <2>2
      <3> QED
        BY <1>w, <2>1, <2>2, <3>2, <3>3 DEF Calm, Working, Open
    <2>6. /\ strayed \subseteq strayed'
          /\ \A x \in Attempts : stage[x] # "unused" => owner'[x] = owner[x]
          /\ \A x \in Attempts : owner'[x] # d => owner'[x] = owner[x] /\ stage'[x] = stage[x]
      BY <1>i, <2>1
    <2>7. \A x \in Attempts \ strayed' : owner'[x] = d /\ stage'[x] # "unused" => Calm(x)'
      BY <2>4, <2>5
    <2> QED
      BY <2>1, <2>3, <2>6, <2>7, Settled
  <1>4. ASSUME NEW d \in Devices, HangUp(d)
        PROVE  CInv'
    BY <1>4, <1>h, <1>i DEF HangUp
  <1>5. ASSUME NEW d \in Devices, TimerRuns(d)
        PROVE  CInv'
    <2>1. /\ status[d] = "ended" /\ status' = [status EXCEPT ![d] = "idle"]
          /\ UNCHANGED <<pc, localStream, stage, owner, callee, conn, live, strayed>>
      BY <1>5 DEF TimerRuns, runs
    <2>2. Clear'
      BY <1>i, <2>1 DEF Clear
    <2>3. ASSUME NEW s \in Attempts \ strayed, owner[s] = d, stage[s] # "unused"
          PROVE  Calm(s)'
      <3>1. AtRest(s)
        BY <2>1, <2>3, NoCall
      <3> QED
        BY <2>1, <3>1 DEF AtRest, Calm, Working, Open, Waiting
    <2>4. \A e \in Devices : e # d => status'[e] = status[e]
      BY <1>i, <2>1
    <2>5. status'[d] # "connected"
      BY <1>i, <2>1
    <2> QED
      BY <2>1, <2>2, <2>3, <2>4, <2>5, Settled
  <1>6. ASSUME NEW d \in Devices, NEW s \in signals, Receive(d, s)
        PROVE  CInv'
    <2>1. CASE s.kind = "offer" /\ status[d] # "idle"
      <3>1. UNCHANGED <<status, pc, localStream, stage, owner, callee, conn, live, strayed>>
        BY <1>6, <2>1 DEF Receive, manager, runs
      <3> QED
        BY <1>i, <3>1 DEF CInv, Clear, AllCalm, Calm, Working, Open, ConnectedHasPeer, Undisturbed
    <2>2. CASE s.kind = "offer" /\ status[d] = "idle"
      <3>1. /\ status' = [status EXCEPT ![d] = "ringing"]
            /\ UNCHANGED <<pc, localStream, stage, owner, callee, conn, live, strayed>>
        BY <1>6, <2>2 DEF Receive, runs
      <3>2. Clear'
        BY <1>i, <3>1 DEF Clear
      <3>3. ASSUME NEW x \in Attempts \ strayed, owner[x] = d, stage[x] # "unused"
            PROVE  Calm(x)'
        <4>1. AtRest(x)
          BY <2>2, <3>3, NoCall
        <4> QED
          BY <3>1, <4>1 DEF AtRest, Calm, Working, Open, Waiting
      <3>4. \A e \in Devices : e # d => status'[e] = status[e]
        BY <1>i, <3>1
      <3>5. status'[d] # "connected"
        BY <1>i, <3>1
      <3> QED
        BY <3>1, <3>2, <3>3, <3>4, <3>5, Settled
    <2>3. CASE s.kind = "answer"
      <3>1. UNCHANGED <<status, pc, localStream, stage, owner, callee, live, strayed>>
        BY <1>6, <2>3 DEF Receive, manager
      <3>2. CASE UNCHANGED conn
        BY <1>i, <3>1, <3>2 DEF CInv, Clear, AllCalm, Calm, Working, Open, ConnectedHasPeer, Undisturbed
      <3>3. CASE /\ pc[d] # None /\ conn[pc[d]] = "offered"
                 /\ conn' = [conn EXCEPT ![pc[d]] = "stable"]
        <4> DEFINE x == pc[d]
        <4>1. /\ x \in Attempts /\ owner[x] = d /\ conn[x] = "offered"
              /\ conn' = [conn EXCEPT ![x] = "stable"]
          BY <1>i, <3>3
        <4> HIDE DEF x
        <4>2. /\ conn'[x] = "stable"
              /\ \A y \in Attempts : y # x => conn'[y] = conn[y]
          BY <1>i, <4>1
        <4>3. Clear'
          BY <1>i, <3>1, <4>1, <4>2 DEF Clear
        <4>4. ASSUME NEW y \in Attempts \ strayed, owner[y] = d, stage[y] # "unused"
              PROVE  Calm(y)'
          <5>1. Calm(y)
            BY <1>i, <4>4 DEF AllCalm
          <5>2. CASE y = x
            BY <3>1, <4>1, <4>2, <5>1, <5>2 DEF Calm, Working, Open
          <5>3. CASE y # x
            BY <3>1, <4>2, <5>1, <5>3 DEF Calm, Working, Open
          <5> QED
            BY <5>2, <5>3
        <4>5. ~(status[d] = "connected" /\ Undisturbed(d))
          BY <1>i, <3>3 DEF ConnectedHasPeer
        <4>6. Undisturbed(d)' => Undisturbed(d)
          BY <3>1 DEF Undisturbed
        <4>7. \A y \in Attempts : owner[y] # d => conn'[y] = conn[y]
          BY <4>1, <4>2
        <4> QED
          BY <3>1, <4>3, <4>4, <4>5, <4>6, <4>7, Settled
      <3> QED
        BY <1>6, <2>3, <3>2, <3>3 DEF Receive
    <2>4. CASE s.kind = "hangup"
      <3>1. /\ EndLocal(d, conn) /\ UNCHANGED <<peerUserId, stage, owner, callee, remote>>
        BY <1>6, <2>4 DEF Receive
      <3> QED
        BY <1>h, <3>1
    <2> QED
      BY <2>1, <2>2, <2>3, <2>4 DEF IInv, TypeOK, Signals
  <1>7. ASSUME NEW t \in Attempts, GotMedia(t)
        PROVE  CInv'
    <2>d. PICK d \in Devices : d = owner[t]
      BY <1>7, <1>i DEF GotMedia
    <2>1. /\ stage[t] = "media" /\ d \in Devices /\ Working(t) /\ conn[t] = "none"
          /\ live' = live \union {t}
          /\ localStream' = [localStream EXCEPT ![d] = t]
          /\ stage' = [stage EXCEPT ![t] = "turn"]
          /\ UNCHANGED <<status, pc, owner, callee, conn, strayed>>
      BY <1>7, <1>i, <1>w, <2>d DEF GotMedia, Working, Clear
    <2>a. /\ \A x \in Attempts \ strayed :
               x # t /\ owner[x] = d /\ stage[x] # "unused" => AtRest(x)
          /\ Undisturbed(d) /\ pc[d] # None => pc[d] = t
      BY <2>1, <2>d, Alone
    <2>2. /\ \A e \in Devices : e # d => localStream'[e] = localStream[e]
          /\ \A x \in Attempts : x # t => stage'[x] = stage[x]
          /\ localStream'[d] = t /\ stage'[t] = "turn" /\ owner[t] = d
      BY <1>i, <2>1, <2>d
    <2>o. \A x \in Attempts : owner[x] # d => stage'[x] = stage[x] /\ (x \in live' <=> x \in live)
      BY <2>1, <2>2
    <2>3. Clear'
      BY <1>i, <2>1, <2>2 DEF Clear
    <2>4. ASSUME NEW x \in Attempts \ strayed, owner[x] = d, stage'[x] # "unused"
          PROVE  Calm(x)'
      <3>1. CASE x = t
        <4>1. Calm(t)
          BY <1>i, <2>1, <2>4, <3>1 DEF AllCalm
        <4>2. /\ status[d] \in {"connected", IF callee[t] = None THEN "ringing" ELSE "calling"}
              /\ \A y \in Attempts : y # t /\ owner[y] = d => ~Working(y)
          BY <2>1, <2>2, <4>1 DEF Calm
        <4> QED
          BY <1>w, <2>1, <2>2, <3>1, <4>2 DEF Calm, Working, Open
      <3>2. CASE x # t
        <4>1. AtRest(x)
          BY <2>2, <2>4, <2>a, <3>2
        <4> QED
          BY <2>1, <2>2, <3>2, <4>1 DEF AtRest, Calm, Working, Open, Waiting
      <3> QED
        BY <3>1, <3>2
    <2>5. ~(status[d] = "connected" /\ Undisturbed(d))
      BY <1>i, <2>1, <2>a DEF ConnectedHasPeer
    <2>6. Undisturbed(d)' => Undisturbed(d)
      BY <2>1 DEF Undisturbed
    <2> QED
      BY <2>1, <2>2, <2>3, <2>4, <2>5, <2>6, <2>o, Settled
  <1>8. ASSUME NEW t \in Attempts, NewPeerConnection(t)
        PROVE  CInv'
    <2>d. PICK d \in Devices : d = owner[t]
      BY <1>8, <1>i DEF NewPeerConnection
    <2>1. stage[t] = "turn" /\ d \in Devices /\ Working(t) /\ conn[t] = "none" /\ stage[t] # "unused"
      BY <1>8, <1>i, <1>w, <2>d DEF NewPeerConnection, Working, Clear
    <2>2. CASE Catch(t, t, conn) /\ UNCHANGED <<owner, callee>>
      BY <1>i, <1>n, <2>1, <2>2, <2>d, AfterCleanup DEF Catch
    <2>3. CASE /\ pc' = [pc EXCEPT ![d] = t]
               /\ conn' = [conn EXCEPT ![t] = "new"]
               /\ stage' = [stage EXCEPT ![t] = "describe"]
               /\ UNCHANGED <<status, localStream, live, strayed, owner, callee>>
      <3>a. /\ \A x \in Attempts \ strayed :
                 x # t /\ owner[x] = d /\ stage[x] # "unused" => AtRest(x)
            /\ Undisturbed(d) /\ pc[d] # None => pc[d] = t
        BY <2>1, <2>d, Alone
      <3>2. /\ \A e \in Devices : e # d => pc'[e] = pc[e]
            /\ \A x \in Attempts : x # t => stage'[x] = stage[x] /\ conn'[x] = conn[x]
            /\ pc'[d] = t /\ stage'[t] = "describe" /\ conn'[t] = "new" /\ owner[t] = d
        BY <1>i, <2>1, <2>3, <2>d
      <3>o. \A x \in Attempts : owner[x] # d => stage'[x] = stage[x] /\ conn'[x] = conn[x]
        BY <3>2
      <3>3. Clear'
        BY <1>i, <2>1, <2>3, <3>2 DEF Clear
      <3>4. ASSUME NEW x \in Attempts \ strayed, owner[x] = d, stage'[x] # "unused"
            PROVE  Calm(x)'
        <4>1. CASE x = t
          <5>1. Calm(t)
            BY <1>i, <2>1, <3>4, <4>1 DEF AllCalm
          <5>2. /\ status[d] \in {"connected", IF callee[t] = None THEN "ringing" ELSE "calling"}
                /\ \A y \in Attempts : y # t /\ owner[y] = d => ~Working(y)
                /\ t \in live /\ localStream[d] = t
            BY <2>1, <3>2, <5>1 DEF Calm
          <5> QED
            BY <1>w, <2>3, <3>2, <4>1, <5>2 DEF Calm, Working, Open
        <4>2. CASE x # t
          <5>1. AtRest(x)
            BY <3>2, <3>4, <3>a, <4>2
          <5> QED
            BY <2>3, <3>2, <4>2, <5>1 DEF AtRest, Calm, Working, Open, Waiting
        <4> QED
          BY <4>1, <4>2
      <3>5. ~(status[d] = "connected" /\ Undisturbed(d))
        BY <1>i, <2>1, <3>a DEF ConnectedHasPeer
      <3>6. Undisturbed(d)' => Undisturbed(d)
        BY <2>3 DEF Undisturbed
      <3> QED
        BY <2>1, <2>3, <3>2, <3>3, <3>4, <3>5, <3>6, <3>o, Settled
    <2> QED
      BY <1>8, <2>2, <2>3, <2>d DEF NewPeerConnection
  <1>9. ASSUME NEW t \in Attempts, SendOffer(t) \/ SendAnswer(t)
        PROVE  CInv'
    <2>d. PICK d \in Devices : d = owner[t]
      BY <1>9, <1>i DEF SendOffer, SendAnswer
    <2>1. /\ stage[t] = "describe" /\ d \in Devices /\ Working(t) /\ conn[t] = "new"
          /\ UNCHANGED <<status, pc, localStream, live, strayed, owner, callee>>
          /\ \/ /\ callee[t] # None
                /\ conn' = [conn EXCEPT ![t] = "offered"] /\ stage' = [stage EXCEPT ![t] = "done"]
             \/ conn' = [conn EXCEPT ![t] = "stable"] /\ stage' = [stage EXCEPT ![t] = "send"]
      BY <1>9, <1>i, <1>w, <2>d DEF SendOffer, SendAnswer, Working, manager
    <2>a. /\ \A x \in Attempts \ strayed :
               x # t /\ owner[x] = d /\ stage[x] # "unused" => AtRest(x)
          /\ Undisturbed(d) /\ pc[d] # None => pc[d] = t
      BY <2>1, <2>d, Alone
    <2>2. /\ \A x \in Attempts : x # t => stage'[x] = stage[x] /\ conn'[x] = conn[x]
          /\ owner[t] = d
          /\ \/ callee[t] # None /\ conn'[t] = "offered" /\ stage'[t] = "done"
             \/ conn'[t] = "stable" /\ stage'[t] = "send"
      BY <1>i, <2>1, <2>d
    <2>o. \A x \in Attempts : owner[x] # d => stage'[x] = stage[x] /\ conn'[x] = conn[x]
      BY <2>2
    <2>3. Clear'
      BY <1>i, <2>1, <2>2 DEF Clear
    <2>4. ASSUME NEW x \in Attempts \ strayed, owner[x] = d, stage'[x] # "unused"
          PROVE  Calm(x)'
      <3>1. CASE x = t
        <4>1. Calm(t)
          BY <1>i, <2>1, <2>4, <3>1 DEF AllCalm
        <4>2. /\ status[d] \in {"connected", IF callee[t] = None THEN "ringing" ELSE "calling"}
              /\ \A y \in Attempts : y # t /\ owner[y] = d => ~Working(y)
              /\ t \in live /\ localStream[d] = t /\ pc[d] = t
          BY <2>1, <2>2, <4>1 DEF Calm, Open
        <4> QED
          BY <1>w, <2>1, <2>2, <3>1, <4>2 DEF Calm, Working, Open
      <3>2. CASE x # t
        <4>1. AtRest(x)
          BY <2>2, <2>4, <2>a, <3>2
        <4> QED
          BY <2>1, <2>2, <3>2, <4>1 DEF AtRest, Calm, Working, Open, Waiting
      <3> QED
        BY <3>1, <3>2
    <2>5. ~(status[d] = "connected" /\ Undisturbed(d))
      BY <1>i, <2>1, <2>a DEF ConnectedHasPeer
    <2>6. Undisturbed(d)' => Undisturbed(d)
      BY <2>1 DEF Undisturbed
    <2> QED
      BY <2>1, <2>3, <2>4, <2>5, <2>6, <2>o, Settled
  <1>10. ASSUME NEW t \in Attempts, AnswerSent(t)
         PROVE  CInv'
    <2>d. PICK d \in Devices : d = owner[t]
      BY <1>10, <1>i DEF AnswerSent
    <2>1. /\ stage[t] = "send" /\ d \in Devices /\ Working(t)
          /\ status' = [status EXCEPT ![d] = "connected"]
          /\ stage' = [stage EXCEPT ![t] = "done"]
          /\ UNCHANGED <<pc, localStream, conn, live, strayed, owner, callee>>
      BY <1>10, <1>i, <1>w, <2>d DEF AnswerSent, Working
    <2>a. \A x \in Attempts \ strayed :
             x # t /\ owner[x] = d /\ stage[x] # "unused" => AtRest(x)
      BY <2>1, <2>d, Alone
    <2>2. /\ \A e \in Devices : e # d => status'[e] = status[e]
          /\ \A x \in Attempts : x # t => stage'[x] = stage[x]
          /\ status'[d] = "connected" /\ stage'[t] = "done" /\ owner[t] = d
      BY <1>i, <2>1, <2>d
    <2>o. \A x \in Attempts : owner[x] # d => stage'[x] = stage[x]
      BY <2>2
    <2>3. Clear'
      BY <1>i, <2>1, <2>2 DEF Clear
    <2>t. t \notin strayed =>
            /\ conn[t] = "stable" /\ pc[d] = t /\ t \in live /\ localStream[d] = t
            /\ \A y \in Attempts : y # t /\ owner[y] = d => ~Working(y)
      BY <1>i, <2>1, <2>2 DEF AllCalm, Calm, Open
    <2>4. ASSUME NEW x \in Attempts \ strayed, owner[x] = d, stage'[x] # "unused"
          PROVE  Calm(x)'
      <3>1. CASE x = t
        BY <1>w, <2>1, <2>2, <2>4, <2>t, <3>1 DEF Calm, Working, Open
      <3>2. CASE x # t
        <4>1. AtRest(x)
          BY <2>2, <2>4, <2>a, <3>2
        <4> QED
          BY <2>1, <2>2, <3>2, <4>1 DEF AtRest, Calm, Working, Open, Waiting
      <3> QED
        BY <3>1, <3>2
    <2>5. Undisturbed(d)' => pc[d] # None /\ conn[pc[d]] = "stable" /\ localStream[d] \in live
      BY <1>n, <2>1, <2>2, <2>t DEF Undisturbed
    <2> QED
      BY <2>1, <2>2, <2>3, <2>4, <2>5, <2>o, Settled
  <1>11. ASSUME NEW t \in Attempts, Fails(t)
         PROVE  CInv'
    <2>1. /\ owner[t] \in Devices /\ Working(t) /\ Catch(t, pc[owner[t]], conn)
          /\ UNCHANGED <<owner, callee>>
      BY <1>11, <1>i, <1>w DEF Fails, Working
    <2>2. pc[owner[t]] \in Attempts \union {None}
      BY <1>i, <2>1
    <2> QED
      BY <1>n, <2>1, <2>2, AfterCleanup DEF Catch
  <1>12. ASSUME NEW t \in Attempts, NeverSettles(t)
         PROVE  CInv'
    <2>d. PICK d \in Devices : d = owner[t]
      BY <1>12, <1>i DEF NeverSettles
    <2>1. /\ stage[t] = "describe" /\ conn[t] = "closed" /\ d \in Devices
          /\ stage' = [stage EXCEPT ![t] = "done"]
          /\ UNCHANGED <<status, pc, localStream, conn, live, strayed, owner, callee>>
      BY <1>12, <1>i, <2>d DEF NeverSettles, manager
    <2>2. \A x \in Attempts : /\ x # t => stage'[x] = stage[x]
                              /\ Working(x)' => Working(x)
      BY <1>i, <1>w, <2>1 DEF Working
    <2>3. Clear'
      BY <1>i, <2>1, <2>2 DEF Clear
    <2>4. ASSUME NEW x \in Attempts \ strayed, stage'[x] # "unused"
          PROVE  Calm(x)'
      <3>1. x # t /\ Calm(x)
        BY <1>i, <2>1, <2>2, <2>4 DEF AllCalm, Calm
      <3> QED
        BY <2>1, <2>2, <3>1 DEF Calm, Working, Open
    <2>5. ConnectedHasPeer'
      BY <1>i, <2>1 DEF ConnectedHasPeer, Undisturbed
    <2> QED
      BY <2>1, <2>3, <2>4, <2>5 DEF CInv, AllCalm
  <1>13. ASSUME NEW t \in Attempts, Connected(t)
         PROVE  CInv'
    <2>d. PICK d \in Devices : d = owner[t]
      BY <1>13, <1>i DEF Connected, Matched, Clear
    <2>1. /\ d \in Devices /\ conn[t] = "stable" /\ stage[t] # "unused"
          /\ status' = [status EXCEPT ![d] = "connected"]
          /\ UNCHANGED <<pc, localStream, stage, conn, live, strayed, owner, callee>>
      BY <1>13, <1>i, <2>d DEF Connected, Matched, runs, Clear
    <2>2. /\ \A e \in Devices : e # d => status'[e] = status[e]
          /\ status'[d] = "connected" /\ owner[t] = d
      BY <1>i, <2>1, <2>d
    <2>3. Clear'
      BY <1>i, <2>1 DEF Clear
    <2>4. ASSUME NEW x \in Attempts \ strayed, owner[x] = d, stage[x] # "unused"
          PROVE  Calm(x)'
      <3>1. Calm(x)
        BY <1>i, <2>4 DEF AllCalm
      <3> QED
        BY <2>1, <2>2, <2>4, <3>1 DEF Calm, Working, Open
    <2>5. ASSUME Undisturbed(d)'
          PROVE  pc[d] # None /\ conn[pc[d]] = "stable" /\ localStream[d] \in live
      <3>1. t \notin strayed
        BY <2>1, <2>2, <2>5 DEF Undisturbed
      <3>2. Calm(t) /\ Open(t)
        BY <1>i, <2>1, <3>1 DEF AllCalm, Open
      <3> QED
        BY <1>n, <2>1, <2>2, <3>2 DEF Calm
    <2> QED
      BY <2>1, <2>2, <2>3, <2>4, <2>5, Settled
  <1>14. ASSUME NEW t \in Attempts, Disconnected(t)
         PROVE  CInv'
    <2>1. /\ owner[t] \in Devices /\ conn[t] = "stable"
          /\ EndLocal(owner[t], [conn EXCEPT ![t] = "closed"])
          /\ UNCHANGED <<stage, owner, callee>>
      BY <1>14, <1>i DEF Disconnected, Clear
    <2> QED
      BY <1>h, <2>1
  <1> QED
    BY <1>1, <1>2, <1>3, <1>4, <1>5, <1>6, <1>7, <1>8, <1>9, <1>10, <1>11, <1>12, <1>13, <1>14 DEF Next

\* Nobody has called yet.
LEMMA InitCalm == Init => CInv
  BY DEF Init, CInv, Clear, AllCalm, ConnectedHasPeer

\* A microphone that is on belongs to a call on its device's screen, unless its
\* attempt was overtaken: no interleaving of the awaits of startCall and
\* accept with signals, failures and timers leaves it on otherwise.
THEOREM Microphone == Spec => []MicInCall
  <1>1. IInv /\ CInv => MicInCall
    BY DEF IInv, TypeOK, CInv, Clear, AllCalm, Calm, MicInCall
  <1> QED
    BY <1>1, InitInvariant, Inductive, InitCalm, CalmStep, PTL DEF Spec

\* A device that shows a connected call, and none of whose attempts was
\* overtaken, has an open connection and its microphone.
THEOREM Connection == Spec => []ConnectedHasPeer
  <1>1. CInv => ConnectedHasPeer
    BY DEF CInv
  <1> QED
    BY <1>1, InitInvariant, Inductive, InitCalm, CalmStep, PTL DEF Spec
=============================================================================

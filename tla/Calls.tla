------------------------------- MODULE Calls -------------------------------
(***************************************************************************)
(* Voice and video calls: the call manager of each device (calls.ts) and   *)
(* the offers, answers and hangups between them, which reach every device  *)
(* of a user, in any order.                                                *)
(*                                                                         *)
(* startCall and accept run through several awaits (microphone, TURN       *)
(* credentials, session descriptions, sending) while hangups, offers and   *)
(* clicks change the manager under them: each run is an attempt with a     *)
(* stage.  Attempts are told apart, and each names the microphone stream   *)
(* and the RTCPeerConnection it made.  callId is sent and never compared,  *)
(* so signals are not tied to a call here either.  ICE candidates and      *)
(* muting only touch the media and are left out.                           *)
(***************************************************************************)
EXTENDS Naturals

CONSTANTS
  Devices, Users, None,
  UserOf,     \* the user of each device
  Callers,      \* bound: the devices that start calls
  MaxAttempts,  \* bound on the runs of startCall and accept
  MaxHangUps    \* bound on the clicks on Reject and Hang up

ASSUME UserAssumption == UserOf \in [Devices -> Users]
ASSUME BoundAssumption == MaxAttempts \in Nat /\ MaxHangUps \in Nat

Attempts == 1..MaxAttempts

ASSUME NoneAssumption == None \notin Attempts \union Users \union Devices

VARIABLES
  status, peerUserId, incomingOffer,   \* of each device
  pc, localStream,    \* the attempt whose connection or stream it holds
  stage, owner,       \* of each attempt: where it waits, whose it is
  callee,     \* the user startCall was given, None for accept
  conn,       \* the signaling state of its RTCPeerConnection
  remote,     \* the attempt whose description that connection was given
  live,       \* attempts whose stream has the microphone on
  signals,    \* call signals on their way
  strayed,    \* history: attempts that were under way at a cleanup or a
              \* second Accept of their device
  clicks      \* clicks on Reject and Hang up

manager == <<status, peerUserId, incomingOffer, pc, localStream>>
runs == <<stage, owner, callee, conn, remote, live>>
vars == <<manager, runs, signals, strayed, clicks>>

Statuses == {"idle", "calling", "ringing", "connected", "ended"}
Signals == [to : Devices, from : Users, kind : {"offer", "answer", "hangup"},
            sdp : Attempts \union {None}]
Waiting == {"media", "turn", "describe", "send"}

\* A connection a device holds is its own and not closed.
TypeOK ==
  /\ status \in [Devices -> Statuses]
  /\ peerUserId \in [Devices -> Users \union {None}]
  /\ incomingOffer \in [Devices -> Attempts \union {None}]
  /\ pc \in [Devices -> Attempts \union {None}]
  /\ localStream \in [Devices -> Attempts \union {None}]
  /\ stage \in [Attempts -> Waiting \union {"unused", "done"}]
  /\ owner \in [Attempts -> Devices \union {None}]
  /\ callee \in [Attempts -> Users \union {None}]
  /\ conn \in [Attempts -> {"none", "new", "offered", "stable", "closed"}]
  /\ remote \in [Attempts -> Attempts \union {None}]
  /\ live \subseteq Attempts /\ strayed \subseteq Attempts
  /\ signals \subseteq Signals /\ clicks \in 0..MaxHangUps
  /\ \A d \in Devices :
       /\ pc[d] # None => owner[pc[d]] = d /\ conn[pc[d]] \notin {"none", "closed"}

-----------------------------------------------------------------------------
(* Helpers.                                                                *)

\* The next attempt there is.
Unused(t) == stage[t] = "unused" /\ \A s \in Attempts : s < t => stage[s] # "unused"

UnderWay(d) == {t \in Attempts : owner[t] = d /\ stage[t] \in Waiting}

\* What sendControl sends: one signal to each device of u.  One that is lost
\* is one that is never received.
Sent(d, u, kind, sdp) ==
  {[to |-> e, from |-> UserOf[d], kind |-> kind, sdp |-> sdp] :
     e \in {e \in Devices : UserOf[e] = u}}

\* Faulty variant: the tracks are not stopped.
CleanupKeepsTracks(d, p, c) ==
  /\ conn' = IF p = None THEN c ELSE [c EXCEPT ![p] = "closed"]
  /\ pc' = [pc EXCEPT ![d] = None]
  /\ localStream' = [localStream EXCEPT ![d] = None]
  /\ incomingOffer' = [incomingOffer EXCEPT ![d] = None]
  /\ UNCHANGED live

\* Faulty variant: the closed connection is kept.
CleanupKeepsConnection(d, p, c) ==
  /\ conn' = IF p = None THEN c ELSE [c EXCEPT ![p] = "closed"]
  /\ pc' = [pc EXCEPT ![d] = p]
  /\ live' = live \ {localStream[d]}
  /\ localStream' = [localStream EXCEPT ![d] = None]
  /\ incomingOffer' = [incomingOffer EXCEPT ![d] = None]

\* Closes the connection the device holds and stops its tracks; p and c are
\* pc[d] and conn with what the step has done to them before.
Cleanup(d, p, c) ==
  /\ conn' = IF p = None THEN c ELSE [c EXCEPT ![p] = "closed"]
  /\ pc' = [pc EXCEPT ![d] = None]
  /\ live' = live \ {localStream[d]}
  /\ localStream' = [localStream EXCEPT ![d] = None]
  /\ incomingOffer' = [incomingOffer EXCEPT ![d] = None]

\* Faulty variant: a connected call stays on the screen.
EndLocalQuietly(d, c) ==
  /\ status' = IF status[d] = "connected" THEN status ELSE [status EXCEPT ![d] = "ended"]
  /\ Cleanup(d, pc[d], c)
  /\ strayed' = strayed \union UnderWay(d)

EndLocal(d, c) ==
  /\ status' = [status EXCEPT ![d] = "ended"]
  /\ Cleanup(d, pc[d], c)
  /\ strayed' = strayed \union UnderWay(d)

\* Faulty variant: the status stays.
CatchQuietly(t, p, c) ==
  /\ stage' = [stage EXCEPT ![t] = "done"]
  /\ Cleanup(owner[t], p, c)
  /\ strayed' = strayed \union (UnderWay(owner[t]) \ {t})
  /\ UNCHANGED status

\* The catch blocks of startCall and accept.
Catch(t, p, c) ==
  /\ stage' = [stage EXCEPT ![t] = "done"]
  /\ status' = [status EXCEPT ![owner[t]] = "idle"]
  /\ Cleanup(owner[t], p, c)
  /\ strayed' = strayed \union (UnderWay(owner[t]) \ {t})

-----------------------------------------------------------------------------
(* The user.                                                               *)

StartCall(d, t, u) ==
  /\ status[d] = "idle" /\ u # UserOf[d] /\ Unused(t)
  /\ status' = [status EXCEPT ![d] = "calling"]
  /\ peerUserId' = [peerUserId EXCEPT ![d] = u]
  /\ stage' = [stage EXCEPT ![t] = "media"]
  /\ owner' = [owner EXCEPT ![t] = d]
  /\ callee' = [callee EXCEPT ![t] = u]
  /\ strayed' = IF UnderWay(d) = {} THEN strayed ELSE strayed \union {t}
  /\ UNCHANGED <<incomingOffer, pc, localStream, conn, remote, live, signals, clicks>>

\* The overlay shows Accept until the status changes, so it can be pressed
\* again while accept waits.
ShowsAccept(d) == status[d] = "ringing"

Accept(d, t) ==
  /\ ShowsAccept(d) /\ incomingOffer[d] # None /\ Unused(t)
  /\ stage' = [stage EXCEPT ![t] = "media"]
  /\ owner' = [owner EXCEPT ![t] = d]
  /\ strayed' = IF UnderWay(d) = {} THEN strayed ELSE strayed \union UnderWay(d) \union {t}
  /\ UNCHANGED <<manager, callee, conn, remote, live, signals, clicks>>

\* reject or hangup, whichever button the overlay has.
ShowsHangUp(d) == status[d] # "idle"

HangUp(d) ==
  /\ ShowsHangUp(d) /\ clicks < MaxHangUps
  /\ clicks' = clicks + 1
  /\ signals' = signals \union Sent(d, peerUserId[d], "hangup", None)
  /\ EndLocal(d, conn)
  /\ UNCHANGED <<peerUserId, stage, owner, callee, remote>>

-----------------------------------------------------------------------------
(* startCall and accept after each of their awaits.                        *)

GotMedia(t) ==
  /\ stage[t] = "media"
  /\ live' = live \union {t}
  /\ localStream' = [localStream EXCEPT ![owner[t]] = t]
  /\ stage' = [stage EXCEPT ![t] = "turn"]
  /\ UNCHANGED <<status, peerUserId, incomingOffer, pc, owner, callee, conn, remote, signals, strayed, clicks>>

\* The new connection replaces whichever the device held, unclosed.  Without a
\* stream, or an offer to accept, the next line throws.
NewPeerConnection(t) ==
  LET d == owner[t] IN
  /\ stage[t] = "turn"
  /\ \/ /\ localStream[d] # None /\ (callee[t] = None => incomingOffer[d] # None)
        /\ pc' = [pc EXCEPT ![d] = t]
        /\ conn' = [conn EXCEPT ![t] = "new"]
        /\ remote' = [remote EXCEPT ![t] = IF callee[t] = None THEN incomingOffer[d] ELSE None]
        /\ stage' = [stage EXCEPT ![t] = "describe"]
        /\ UNCHANGED <<status, incomingOffer, localStream, live, strayed>>
     \/ /\ localStream[d] = None \/ (callee[t] = None /\ incomingOffer[d] = None)
        /\ Catch(t, t, conn)
        /\ UNCHANGED remote
  /\ UNCHANGED <<peerUserId, owner, callee, signals, clicks>>

\* The offer is described and handed to sendControl.
SendOffer(t) ==
  /\ stage[t] = "describe" /\ callee[t] # None /\ conn[t] = "new"
  /\ conn' = [conn EXCEPT ![t] = "offered"]
  /\ signals' = signals \union Sent(owner[t], callee[t], "offer", t)
  /\ stage' = [stage EXCEPT ![t] = "done"]
  /\ UNCHANGED <<manager, owner, callee, remote, live, strayed, clicks>>

\* So is the answer; accept waits until it is sent.
SendAnswer(t) ==
  /\ stage[t] = "describe" /\ callee[t] = None /\ conn[t] = "new"
  /\ conn' = [conn EXCEPT ![t] = "stable"]
  /\ signals' = signals \union Sent(owner[t], peerUserId[owner[t]], "answer", t)
  /\ stage' = [stage EXCEPT ![t] = "send"]
  /\ UNCHANGED <<manager, owner, callee, remote, live, strayed, clicks>>

\* The status is set whatever happened during the await.
AnswerSent(t) ==
  /\ stage[t] = "send"
  /\ status' = [status EXCEPT ![owner[t]] = "connected"]
  /\ stage' = [stage EXCEPT ![t] = "done"]
  /\ UNCHANGED <<peerUserId, incomingOffer, pc, localStream, owner, callee, conn, remote, live, signals, strayed, clicks>>

\* getUserMedia, /turn or a description fails.
Fails(t) ==
  /\ stage[t] \in {"media", "turn", "describe"}
  /\ Catch(t, pc[owner[t]], conn)
  /\ UNCHANGED <<peerUserId, owner, callee, remote, signals, clicks>>

\* A description of a connection that was closed may also never settle.
NeverSettles(t) ==
  /\ stage[t] = "describe" /\ conn[t] = "closed"
  /\ stage' = [stage EXCEPT ![t] = "done"]
  /\ UNCHANGED <<manager, owner, callee, conn, remote, live, signals, strayed, clicks>>

-----------------------------------------------------------------------------
(* Signals, the connection's events and the timer.                         *)

\* onSignal.  An answer in any other signaling state throws, unnoticed.
Receive(d, s) ==
  /\ s.to = d
  /\ \/ /\ s.kind = "offer" /\ status[d] # "idle"
        /\ signals' = (signals \ {s}) \union Sent(d, s.from, "hangup", None)
        /\ UNCHANGED <<manager, runs, strayed>>
     \/ /\ s.kind = "offer" /\ status[d] = "idle"
        /\ signals' = signals \ {s}
        /\ peerUserId' = [peerUserId EXCEPT ![d] = s.from]
        /\ incomingOffer' = [incomingOffer EXCEPT ![d] = s.sdp]
        /\ status' = [status EXCEPT ![d] = "ringing"]
        /\ UNCHANGED <<pc, localStream, runs, strayed>>
     \/ /\ s.kind = "answer"
        /\ signals' = signals \ {s}
        /\ IF pc[d] # None /\ conn[pc[d]] = "offered"
           THEN /\ conn' = [conn EXCEPT ![pc[d]] = "stable"]
                /\ remote' = [remote EXCEPT ![pc[d]] = s.sdp]
           ELSE UNCHANGED <<conn, remote>>
        /\ UNCHANGED <<manager, stage, owner, callee, live, strayed>>
     \/ /\ s.kind = "hangup"
        /\ signals' = signals \ {s}
        /\ EndLocal(d, conn)
        /\ UNCHANGED <<peerUserId, stage, owner, callee, remote>>
  /\ UNCHANGED clicks

\* Both ends of a connection have each other's description.
Matched(t) ==
  /\ remote[t] # None /\ remote[remote[t]] = t
  /\ conn[t] = "stable" /\ conn[remote[t]] = "stable"

Connected(t) ==
  /\ Matched(t)
  /\ status' = [status EXCEPT ![owner[t]] = "connected"]
  /\ UNCHANGED <<peerUserId, incomingOffer, pc, localStream, runs, signals, strayed, clicks>>

\* Faulty variant: only the failed connection is closed.
DisconnectedIgnored(t) ==
  /\ conn[t] = "stable"
  /\ conn' = [conn EXCEPT ![t] = "closed"]
  /\ UNCHANGED <<manager, stage, owner, callee, remote, live, signals, strayed, clicks>>

\* A connection fails, also one the device no longer holds.
Disconnected(t) ==
  /\ conn[t] = "stable"
  /\ EndLocal(owner[t], [conn EXCEPT ![t] = "closed"])
  /\ UNCHANGED <<peerUserId, stage, owner, callee, remote, signals, clicks>>

\* The timer of endLocal.  It may be that of an earlier call.
TimerRuns(d) ==
  /\ status[d] = "ended"
  /\ status' = [status EXCEPT ![d] = "idle"]
  /\ UNCHANGED <<peerUserId, incomingOffer, pc, localStream, runs, signals, strayed, clicks>>

-----------------------------------------------------------------------------
Init ==
  /\ status = [d \in Devices |-> "idle"]
  /\ peerUserId = [d \in Devices |-> None]
  /\ incomingOffer = [d \in Devices |-> None]
  /\ pc = [d \in Devices |-> None] /\ localStream = [d \in Devices |-> None]
  /\ stage = [t \in Attempts |-> "unused"] /\ owner = [t \in Attempts |-> None]
  /\ callee = [t \in Attempts |-> None]
  /\ conn = [t \in Attempts |-> "none"] /\ remote = [t \in Attempts |-> None]
  /\ live = {} /\ signals = {} /\ strayed = {} /\ clicks = 0

Next ==
  \/ \E d \in Devices :
       \/ \E t \in Attempts, u \in Users : d \in Callers /\ StartCall(d, t, u)
       \/ \E t \in Attempts : Accept(d, t)
       \/ HangUp(d) \/ TimerRuns(d)
       \/ \E s \in signals : Receive(d, s)
  \/ \E t \in Attempts :
       \/ GotMedia(t) \/ NewPeerConnection(t) \/ SendOffer(t) \/ SendAnswer(t)
       \/ AnswerSent(t) \/ Fails(t) \/ NeverSettles(t)
       \/ Connected(t) \/ Disconnected(t)

Spec == Init /\ [][Next]_vars

\* A connection whose other end is gone, or took another answer, fails in the
\* end: the browser checks that the other end still consents.
Fairness == \A t \in Attempts : WF_vars(~Matched(t) /\ Disconnected(t))
FairSpec == Spec /\ Fairness

-----------------------------------------------------------------------------
(* Properties.                                                             *)

Undisturbed(d) == \A t \in strayed : owner[t] # d

\* A device that rings holds the offer it rings for: Accept always has
\* something to accept, whatever earlier attempts are still under way when
\* the offer comes.
RingingHasOffer ==
  \A d \in Devices : status[d] = "ringing" => incomingOffer[d] # None /\ peerUserId[d] # None

\* A microphone that is on belongs to a call on its device's screen, unless
\* its attempt was overtaken by a hangup or a second Accept while it waited.
MicInCall ==
  \A t \in live \ strayed :
    localStream[owner[t]] = t /\ status[owner[t]] \in {"calling", "ringing", "connected"}

\* A device that shows a connected call has an open connection and its
\* microphone, unless an attempt of it was overtaken.
ConnectedHasPeer ==
  \A d \in Devices : status[d] = "connected" /\ Undisturbed(d) =>
    /\ pc[d] # None /\ conn[pc[d]] = "stable"
    /\ localStream[d] \in live

\* No device shows a call for ever whose other end is gone, never got the
\* answer, or took that of another device, unless an attempt of the device was
\* overtaken: the failure of the connection takes the call off the screen.
DeadCallsEnd ==
  \A d \in Devices :
    []<>~(status[d] = "connected" /\ Undisturbed(d) /\ ~Matched(pc[d]))
=============================================================================

---------------------------- MODULE Conversation ----------------------------
(***************************************************************************)
(* One direct conversation in the web client (web/src/lib/messaging.ts):   *)
(* the messages table and the conversations table in IndexedDB (db.ts),    *)
(* the conversation the page shows, and the asynchronous functions that    *)
(* append messages to it and update the status of those it sends.          *)
(* A message is a text or an attachment, which is encrypted and uploaded   *)
(* before it is appended; a received one may be the copy ("carbon") of a   *)
(* message sent from another device of the same user.                      *)
(*                                                                         *)
(* JavaScript runs one function at a time between two awaits.  Every       *)
(* action below is such a stretch: it ends where the code awaits, and what *)
(* the code read before the await is kept in snapshot.                     *)
(***************************************************************************)
EXTENDS Naturals

CONSTANTS
  Own,        \* messages this page sends
  Peer,       \* messages it receives
  Devices,    \* the devices of the user it writes to
  MaxReloads, \* bound on reloads and crashes of the page
  MaxDrops    \* bound on the times the WebSocket closes

ASSUME MessageAssumption == Own \intersect Peer = {}
\* sendDmContent refuses to send to a user without devices.
ASSUME DeviceAssumption == Devices # {}
ASSUME BoundAssumption == MaxReloads \in Nat /\ MaxDrops \in Nat

Msgs == Own \union Peer

VARIABLES
  table,     \* table[m]: the status of m in the messages table
  listed,    \* the conversation is in the conversations table
  view,      \* view[m]: the status of m in state.conversations
  known,     \* the conversation is in state.conversations
  stage,     \* stage[m]: where the function working on m is
  snapshot,  \* snapshot[m]: the messages updateMessageStatus is about to show
  served,    \* served[m]: the devices sendDmContent has encrypted m for
  open,      \* this.socket is OPEN
  handed,    \* history, handed[m]: those whose frame went to an open socket
  gap,       \* history: an update since the last boot was overtaken
  reloads, drops

vars == <<table, listed, view, known, stage, snapshot, served, open, handed, gap, reloads, drops>>

Settled == {"sent", "failed"}
Statuses == {"none", "received", "sending"} \union Settled
Stages == {"idle", "uploading", "appending", "sending", "updating", "done", "stopped"}
Views == [Msgs -> Statuses]
Empty == [m \in Msgs |-> "none"]

\* Tables, screen and snapshots hold statuses of messages; nothing is shown
\* of a conversation the page does not know.
TypeOK ==
  /\ table \in Views /\ view \in Views
  /\ stage \in [Msgs -> Stages]
  /\ snapshot \in [Own -> Views]
  /\ listed \in BOOLEAN /\ known \in BOOLEAN /\ open \in BOOLEAN /\ gap \in BOOLEAN
  /\ served \in [Own -> SUBSET Devices] /\ handed \in [Own -> SUBSET Devices]
  /\ reloads \in 0..MaxReloads /\ drops \in 0..MaxDrops
  /\ ~known => view = Empty

-----------------------------------------------------------------------------
(* Appending: persistAndAppend.                                            *)

\* An update that read the conversation earlier will put back what it read.
Overtakes(m) == \E u \in Own \ {m} : stage[u] = "updating"

\* The record of a message of one's own is "sending"; contentToRecord gives
\* that of a received one, a carbon too, no status.
FirstStatus(m) == IF m \in Own THEN "sending" ELSE "received"

\* Faulty variant: the page shows a message before it is stored.
StartAppendShows(m) ==
  /\ stage[m] \in {"idle", "uploading"}
  /\ stage' = [stage EXCEPT ![m] = "appending"]
  /\ view' = [view EXCEPT ![m] = FirstStatus(m)]
  /\ known' = TRUE
  /\ UNCHANGED <<table, listed, snapshot, served, open, handed, gap, reloads, drops>>

\* Faulty variant: the put is not awaited, and is lost with the page.
StartAppendUnawaited(m) ==
  /\ stage[m] \in {"idle", "uploading"}
  /\ stage' = [stage EXCEPT ![m] = IF m \in Own THEN "sending" ELSE "done"]
  /\ view' = [view EXCEPT ![m] = FirstStatus(m)]
  /\ known' = TRUE
  /\ UNCHANGED <<table, listed, snapshot, served, open, handed, gap, reloads, drops>>

\* persistAndAppend up to its await.
StartAppend(m) ==
  /\ stage[m] \in {"idle", "uploading"}
  /\ stage' = [stage EXCEPT ![m] = "appending"]
  /\ UNCHANGED <<table, listed, view, known, snapshot, served, open, handed, gap, reloads, drops>>

\* Both kinds of sending need the conversation; an incoming message does not.
SendText(m) == stage[m] = "idle" /\ known /\ StartAppend(m)

SendAttachment(m) ==
  /\ stage[m] = "idle" /\ known
  /\ stage' = [stage EXCEPT ![m] = "uploading"]
  /\ UNCHANGED <<table, listed, view, known, snapshot, served, open, handed, gap, reloads, drops>>

\* The upload succeeds and the message is sent like a text, or it fails and
\* nothing of the message is kept.
Uploaded(m) ==
  /\ stage[m] = "uploading"
  /\ \/ StartAppend(m)
     \/ /\ stage' = [stage EXCEPT ![m] = "stopped"]
        /\ UNCHANGED <<table, listed, view, known, snapshot, served, open, handed, gap, reloads, drops>>

RouteOlmContent(m) == stage[m] = "idle" /\ StartAppend(m)

\* Faulty variant: a conversation that was not shown is not added.
FinishAppendUnlisted(m) ==
  /\ stage[m] = "appending"
  /\ table' = [table EXCEPT ![m] = FirstStatus(m)]
  /\ view' = [view EXCEPT ![m] = IF @ = "none" THEN FirstStatus(m) ELSE @]
  /\ stage' = [stage EXCEPT ![m] = IF m \in Own THEN "sending" ELSE "done"]
  /\ gap' = (gap \/ Overtakes(m))
  /\ UNCHANGED <<listed, known, snapshot, served, open, handed, reloads, drops>>

\* putMessage has completed: only now is the conversation read and extended.
FinishAppend(m) ==
  /\ stage[m] = "appending"
  /\ table' = [table EXCEPT ![m] = FirstStatus(m)]
  /\ view' = [view EXCEPT ![m] = IF @ = "none" THEN FirstStatus(m) ELSE @]
  /\ known' = TRUE
  /\ stage' = [stage EXCEPT ![m] = IF m \in Own THEN "sending" ELSE "done"]
  /\ gap' = (gap \/ Overtakes(m))
  /\ UNCHANGED <<listed, snapshot, served, open, handed, reloads, drops>>

\* startConversation: ensureDmConversation lists the conversation.  It reads
\* the state after its await and keeps the messages it finds.
EnsureDm ==
  /\ ~(listed /\ known)
  /\ listed' = TRUE /\ known' = TRUE
  /\ UNCHANGED <<table, view, stage, snapshot, served, open, handed, gap, reloads, drops>>

-----------------------------------------------------------------------------
(* Sending: sendContent, sendFrame, updateMessageStatus.                   *)

\* updateMessageStatus up to its await.  If the message is not in the view,
\* nothing is awaited and nothing is stored.
StartUpdate(m, status) ==
  IF view[m] = "none"
  THEN /\ stage' = [stage EXCEPT ![m] = "done"]
       /\ UNCHANGED snapshot
  ELSE /\ stage' = [stage EXCEPT ![m] = "updating"]
       /\ snapshot' = [snapshot EXCEPT ![m] = [view EXCEPT ![m] = status]]

\* One turn of the loop in sendDmContent: the request for the device's keys went
\* through; sendFrame writes the frame if the socket is open, or drops it.
SendOlmContent(m, d) ==
  /\ stage[m] = "sending" /\ d \notin served[m]
  /\ served' = [served EXCEPT ![m] = @ \union {d}]
  /\ handed' = IF open THEN [handed EXCEPT ![m] = @ \union {d}] ELSE handed
  /\ UNCHANGED <<table, listed, view, known, stage, snapshot, open, gap, reloads, drops>>

\* The loop is through; sendCarbon, which follows it, throws nothing.
Sent(m) ==
  /\ stage[m] = "sending" /\ served[m] = Devices
  /\ StartUpdate(m, "sent")
  /\ UNCHANGED <<table, listed, view, known, served, open, handed, gap, reloads, drops>>

\* Faulty variant: a carbon that fails makes the message fail.
SendThrowsLate(m) ==
  /\ stage[m] = "sending"
  /\ StartUpdate(m, "failed")
  /\ UNCHANGED <<table, listed, view, known, served, open, handed, gap, reloads, drops>>

\* One of its requests fails, or the user or the next device has no keys.
SendThrows(m) ==
  /\ stage[m] = "sending" /\ served[m] # Devices
  /\ StartUpdate(m, "failed")
  /\ UNCHANGED <<table, listed, view, known, served, open, handed, gap, reloads, drops>>

\* Faulty variants: the whole list that was read is written back; the status
\* is shown without being stored.
FinishUpdateAll(m) ==
  /\ stage[m] = "updating"
  /\ table' = snapshot[m]
  /\ view' = snapshot[m]
  /\ stage' = [stage EXCEPT ![m] = "done"]
  /\ gap' = (gap \/ Overtakes(m))
  /\ UNCHANGED <<listed, known, snapshot, served, open, handed, reloads, drops>>

FinishUpdateUnsaved(m) ==
  /\ stage[m] = "updating"
  /\ view' = snapshot[m]
  /\ stage' = [stage EXCEPT ![m] = "done"]
  /\ gap' = (gap \/ Overtakes(m))
  /\ UNCHANGED <<table, listed, known, snapshot, served, open, handed, reloads, drops>>

\* Its putMessage has completed: the conversation read before is shown.
FinishUpdate(m) ==
  /\ stage[m] = "updating"
  /\ table' = [table EXCEPT ![m] = snapshot[m][m]]
  /\ view' = snapshot[m]
  /\ stage' = [stage EXCEPT ![m] = "done"]
  /\ gap' = (gap \/ Overtakes(m))
  /\ UNCHANGED <<listed, known, snapshot, served, open, handed, reloads, drops>>

-----------------------------------------------------------------------------
(* The environment.                                                        *)

SocketCloses ==
  /\ open /\ drops < MaxDrops
  /\ open' = FALSE /\ drops' = drops + 1
  /\ UNCHANGED <<table, listed, view, known, stage, snapshot, served, handed, gap, reloads>>

SocketOpens ==
  /\ ~open
  /\ open' = TRUE
  /\ UNCHANGED <<table, listed, view, known, stage, snapshot, served, handed, gap, reloads, drops>>

\* What the put that m is waiting for writes.
Written(m) == IF stage[m] = "appending" THEN FirstStatus(m) ELSE snapshot[m][m]

\* The page is reloaded or dies, and boots: functions in progress are gone,
\* their puts may or may not have been committed.  It shows the conversations
\* that are listed, with what the messages table holds.
Boot ==
  /\ reloads < MaxReloads
  /\ reloads' = reloads + 1
  /\ \E committed \in SUBSET {m \in Msgs : stage[m] \in {"appending", "updating"}} :
       table' = [m \in Msgs |-> IF m \in committed THEN Written(m) ELSE table[m]]
  /\ view' = IF listed THEN table' ELSE Empty
  /\ known' = listed
  /\ stage' = [m \in Msgs |-> IF stage[m] = "idle" THEN "idle" ELSE "stopped"]
  /\ gap' = (~listed /\ table' # Empty)
  /\ open' = FALSE
  /\ UNCHANGED <<listed, snapshot, served, handed, drops>>

Init ==
  /\ table = Empty /\ view = Empty
  /\ listed = FALSE /\ known = FALSE
  /\ stage = [m \in Msgs |-> "idle"]
  /\ snapshot = [m \in Own |-> Empty]
  /\ served = [m \in Own |-> {}] /\ handed = [m \in Own |-> {}]
  /\ open = FALSE /\ gap = FALSE
  /\ reloads = 0 /\ drops = 0

Next ==
  \/ \E m \in Msgs : FinishAppend(m)
  \/ \E m \in Peer : RouteOlmContent(m)
  \/ \E m \in Own : SendText(m) \/ SendAttachment(m) \/ Uploaded(m)
  \/ \E m \in Own, d \in Devices : SendOlmContent(m, d)
  \/ \E m \in Own : Sent(m) \/ SendThrows(m) \/ FinishUpdate(m)
  \/ EnsureDm
  \/ SocketCloses
  \/ SocketOpens
  \/ Boot

Spec == Init /\ [][Next]_vars

-----------------------------------------------------------------------------
(* Properties.                                                             *)

\* What the page shows would survive a reload: every message on screen is
\* stored, and a settled status on screen is the stored one.
ShownIsStored ==
  \A m \in Msgs : /\ view[m] # "none" => table[m] # "none"
                  /\ view[m] \in Settled => table[m] = view[m]

\* The page is complete unless an update was overtaken: without a gap the
\* screen shows exactly what is stored, in its stored status.
CompleteWithoutGap == ~gap => view = table

\* Without a gap a send that has run to its end has stored its outcome.
SettledWithoutGap ==
  \A m \in Own : stage[m] = "done" /\ ~gap => table[m] \in Settled

\* A stored outcome is about all devices of the recipient.
OutcomeTrue ==
  \A m \in Own : /\ table[m] = "sent" => served[m] = Devices
                 /\ table[m] = "failed" => served[m] # Devices

\* The user is told how a send ended: "sent" means that the message was encrypted
\* for each device of the recipient, "failed" that one of them was left out and
\* will be for good, whatever the others have received; and a send that ends
\* without a gap leaves one of the two.
OutcomeTold == OutcomeTrue /\ SettledWithoutGap

TableKept ==
  \A m \in Msgs : /\ table[m] # "none" => table'[m] # "none"
                  /\ table[m] \in Settled => table'[m] = table[m]

\* However updates overlap, they damage the screen only: a stored message
\* stays stored, and a stored outcome stays as it is.
TableNeverRegresses == [][TableKept]_vars

\* "REST send (fallback for when the WebSocket is unavailable)": a message
\* marked as sent was handed to something that can send it.
SentWasHanded == \A m \in Own : table[m] = "sent" => handed[m] = Devices
=============================================================================

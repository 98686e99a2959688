----------------------------- MODULE DirectMessage -----------------------------
(***************************************************************************)
(* A direct message from end to end: the page that writes it               *)
(* (Conversation), its socket to the server, the server and the path to    *)
(* one device of the recipient (Mailbox), and that device's page           *)
(* (Conversation again).  Messages are written for every device of the     *)
(* recipient; Watched, any one of them, is followed to its screen.         *)
(*                                                                         *)
(* A step of the composition is a step of one component, or the step two   *)
(* components take together where the code of one calls the other or a     *)
(* frame passes between them.                                              *)
(***************************************************************************)
EXTENDS Naturals

CONSTANTS
  Messages,    \* messages of the sender
  Devices,     \* devices of the recipient
  Watched,     \* the one that is followed
  Sockets, NoSocket,
  MaxReloads,  \* bound on reloads of the sender's page
  MaxDrops,    \* bound on the times it sees its socket close
  MaxCuts,     \* bound on the times its connection dies unseen, and on restarts
  MaxBreaks,   \* bound on broken connections of the recipient and restarts
  MaxCrashes   \* bound on reloads of the recipient's page

ASSUME WatchedAssumption == Watched \in Devices
ASSUME SocketAssumption == NoSocket \notin Sockets
ASSUME BoundAssumption ==
  /\ MaxReloads \in Nat /\ MaxDrops \in Nat /\ MaxCuts \in Nat
  /\ MaxBreaks \in Nat /\ MaxCrashes \in Nat

VARIABLES
  \* the sender's page, see Conversation
  table, listed, view, known, stage, snapshot, served, open, handed, gap, reloads, drops,
  \* its connection
  wire,    \* frames for Watched on their way to the server
  uplink,  \* what is written to the sender's open socket reaches the server
  cuts,
  \* the server and the client of Watched, see Mailbox
  mailbox, accepted, sinks, up, sock, opened, down, due,
  decrypted, routing, saved, store, breaks, crashes,
  \* the page of Watched, see Conversation
  inTable, inListed, inView, inKnown, inStage, inGap

sender == <<table, listed, view, known, stage, snapshot, served, open, handed, gap, reloads, drops>>
link == <<wire, uplink, cuts>>
path == <<mailbox, accepted, sinks, up, sock, opened, down, due,
          decrypted, routing, saved, store, breaks, crashes>>
recipient == <<inTable, inListed, inView, inKnown, inStage, inGap>>
vars == <<sender, link, path, recipient>>

\* It only writes: what it receives meanwhile is the subject of Conversation.
Sender == INSTANCE Conversation WITH Own <- Messages, Peer <- {}

Path == INSTANCE Mailbox WITH Msgs <- Messages, MaxDrops <- MaxBreaks, drops <- breaks

\* It only reads: its functions that send have nothing to work on, and whether
\* its socket is open, which Mailbox models, is nothing to them.
Recipient == INSTANCE Conversation WITH
  Own <- {}, Peer <- Messages, MaxReloads <- MaxCrashes, MaxDrops <- 0,
  table <- inTable, listed <- inListed, view <- inView, known <- inKnown,
  stage <- inStage, gap <- inGap, snapshot <- [m \in {} |-> {}],
  served <- [m \in {} |-> {}], handed <- [m \in {} |-> {}],
  open <- ~TRUE, reloads <- crashes, drops <- 0

\* The components are well typed, and so is the connection between them.
TypeOK ==
  /\ Sender!TypeOK /\ Path!TypeOK /\ Recipient!TypeOK
  /\ wire \subseteq Messages /\ uplink \in BOOLEAN
  /\ cuts \in 0..MaxCuts
  /\ uplink => open

-----------------------------------------------------------------------------
(* The sender.                                                             *)

\* Its page works on its own.
SenderWorks ==
  /\ \/ \E m \in Messages : \/ Sender!SendText(m) \/ Sender!SendAttachment(m)
                        \/ Sender!Uploaded(m) \/ Sender!FinishAppend(m)
                        \/ Sender!Sent(m) \/ Sender!SendThrows(m)
                        \/ Sender!FinishUpdate(m)
     \/ Sender!EnsureDm
  /\ UNCHANGED <<link, path, recipient>>

\* sendFrame puts the frame on the wire.
SendOlmContent(m, d) ==
  /\ Sender!SendOlmContent(m, d)
  /\ wire' = IF d = Watched /\ uplink THEN wire \union {m} ELSE wire
  /\ UNCHANGED <<uplink, cuts, path, recipient>>

SocketOpens ==
  /\ Sender!SocketOpens
  /\ uplink' = TRUE
  /\ UNCHANGED <<wire, cuts, path, recipient>>

\* Of the frames already written, any may still arrive.
Disconnect == uplink' = FALSE /\ wire' \in SUBSET wire

\* The sender's socket closes, or its page is reloaded, ...
SenderLeaves ==
  /\ Sender!SocketCloses \/ Sender!Boot
  /\ Disconnect
  /\ UNCHANGED <<cuts, path, recipient>>

\* ... or its connection dies and the page does not see it yet.
UplinkCut ==
  /\ uplink /\ cuts < MaxCuts
  /\ cuts' = cuts + 1
  /\ Disconnect
  /\ UNCHANGED <<sender, path, recipient>>

-----------------------------------------------------------------------------
(* The server and the path to the device.                                  *)

\* The gateway reads a "send" frame.
ServerReceives(m) ==
  /\ m \in wire
  /\ wire' = wire \ {m}
  /\ Path!SendEnvelope(m)
  /\ UNCHANGED <<uplink, cuts, sender, recipient>>

\* Connections, frames, acks and the saving of ratchets.
PathWorks ==
  /\ \/ \E m \in Messages : Path!HandleIncoming(m) \/ Path!SaveRatchet(m)
     \/ \E sk \in Sockets : \/ Path!Connect(sk) \/ Path!ServerNotices(sk)
                            \/ \E m \in Messages : Path!AckDelete(sk, m)
     \/ Path!GatewayOpens \/ Path!ServerDrops
     \/ Path!ClientNotices \/ Path!ClientDrops
  /\ UNCHANGED <<sender, link, recipient>>

\* A restart ends the sender's connection as well.
ServerRestarts ==
  /\ Path!ServerRestarts
  /\ cuts < MaxCuts
  /\ uplink' = FALSE /\ wire' = {} /\ cuts' = cuts + 1
  /\ UNCHANGED <<sender, recipient>>

-----------------------------------------------------------------------------
(* The recipient's page.                                                   *)

\* routeOlmContent calls persistAndAppend, once it has the sender's name, ...
Route(m) ==
  /\ m \in routing
  /\ Recipient!RouteOlmContent(m)
  /\ UNCHANGED <<sender, link, path>>

\* ... whose put completes.
Append(m) ==
  /\ Path!PutMessage(m)
  /\ Recipient!FinishAppend(m)
  /\ UNCHANGED <<sender, link>>

RecipientOpens ==
  /\ Recipient!EnsureDm
  /\ UNCHANGED <<sender, link, path>>

\* Records still being put are lost; one that is committed as the page dies is
\* appended before.
RecipientReboots ==
  /\ Path!Crash
  /\ Recipient!Boot
  /\ UNCHANGED <<inTable, sender, link>>

-----------------------------------------------------------------------------
Init ==
  /\ Sender!Init /\ Path!Init /\ Recipient!Init
  /\ wire = {} /\ uplink = FALSE /\ cuts = 0

Next ==
  \/ SenderWorks
  \/ \E m \in Messages, d \in Devices : SendOlmContent(m, d)
  \/ SocketOpens
  \/ SenderLeaves
  \/ UplinkCut
  \/ \E m \in Messages : ServerReceives(m) \/ Route(m) \/ Append(m)
  \/ PathWorks
  \/ ServerRestarts
  \/ RecipientOpens
  \/ RecipientReboots

Spec == Init /\ [][Next]_vars

-----------------------------------------------------------------------------
(* Properties.                                                             *)

InTransit == wire \union mailbox \union down \union decrypted \union routing

\* A frame that was written can be relied on as long as nothing has failed that
\* holds the only copy: if the sender has not been disconnected and the
\* recipient's page was not reloaded, the message is on its way to the
\* recipient's screen or on it, however the recipient's connection breaks.
WrittenIsShown ==
  \A m \in Messages :
    Watched \in handed[m] /\ reloads = 0 /\ drops = 0 /\ cuts = 0 /\ crashes = 0
    => m \in InTransit \/ inView[m] = "received"

\* End to end, a conversation is a log: a message is recorded by its sender
\* before it can appear at the recipient, once, and outcomes are final.
Log == INSTANCE MessageLog WITH Msgs <- Messages, outbox <- table, inbox <- store
ImplementsLog == Log!Spec
=============================================================================

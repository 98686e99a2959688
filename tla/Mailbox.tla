------------------------------ MODULE Mailbox ------------------------------
(***************************************************************************)
(* The path of messages to one device: the server's mailbox table          *)
(* (repo.ts), the hub of live sockets (hub.ts), the WebSocket gateway      *)
(* (ws.ts, deliver.ts), the network, and the web client's connection and   *)
(* receive loop (messaging.ts).                                            *)
(*                                                                         *)
(* Mailbox rows and frames on a socket are kept as sets: no property here  *)
(* depends on their order, and the handlers of two frames interleave at    *)
(* every await in any case.  The client acks a message as soon as it       *)
(* arrives, then decrypts it (which uses up its message key in memory),    *)
(* saves the ratchet, and last saves the record; a page that dies in       *)
(* between forgets everything it had not saved.                            *)
(***************************************************************************)
EXTENDS Naturals

CONSTANTS
  Msgs,        \* messages sent to the device
  Sockets,     \* identities of WebSockets; one is reused once it is closed
  NoSocket,
  MaxDrops,    \* bound on broken connections and server restarts
  MaxCrashes   \* bound on reloads and crashes of the page

ASSUME SocketAssumption == NoSocket \notin Sockets
ASSUME BoundAssumption == MaxDrops \in Nat /\ MaxCrashes \in Nat

VARIABLES
  mailbox,    \* rows of the messages table
  accepted,   \* history: messages ever enqueued
  sinks,      \* sockets in the hub's set for the device
  up,         \* up[sk]: acks on their way to the server
  sock,       \* the client's current socket
  opened,     \* it has reached the server
  down,       \* frames on their way to the client on that socket
  due,        \* boot or the reconnect timer is about to call connect
  decrypted,  \* messages whose ratchet save is pending
  routing,    \* messages whose record save is pending
  saved,      \* messages whose key the persisted ratchet has used
  store,      \* messages in IndexedDB
  drops, crashes

server == <<mailbox, accepted, sinks, up>>
client == <<sock, opened, down, due>>
handler == <<decrypted, routing, saved, store>>
faults == <<drops, crashes>>
vars == <<server, client, handler, faults>>

\* Rows and frames are messages; the reconnect timer runs exactly while the
\* client has no socket, and frames are in flight on an opened one only.
TypeOK ==
  /\ mailbox \subseteq accepted /\ accepted \subseteq Msgs
  /\ sinks \subseteq Sockets
  /\ up \in [Sockets -> SUBSET Msgs]
  /\ sock \in Sockets \union {NoSocket}
  /\ opened \in BOOLEAN /\ due \in BOOLEAN
  /\ down \subseteq Msgs
  /\ decrypted \subseteq Msgs /\ routing \subseteq Msgs
  /\ saved \subseteq Msgs /\ store \subseteq Msgs
  /\ drops \in 0..MaxDrops /\ crashes \in 0..MaxCrashes
  /\ due <=> sock = NoSocket
  /\ sock = NoSocket => ~opened
  /\ sock \in sinks => opened
  /\ ~opened => down = {}

-----------------------------------------------------------------------------
(* The server.                                                             *)

Enqueue(m) ==
  /\ accepted' = accepted \union {m}
  /\ mailbox' = mailbox \union {m}

\* To every live sink: a frame written to a socket whose client is gone is
\* lost.
Deliver(m) == down' = IF sock \in sinks THEN down \union {m} ELSE down

\* sendEnvelope: store the row, then push it.
SendEnvelope(m) ==
  /\ m \notin accepted
  /\ Enqueue(m)
  /\ Deliver(m)
  /\ UNCHANGED <<sinks, up, sock, opened, due, handler, faults>>

\* listFor returns every row of the device, oldest first.
Drain == down' = mailbox

\* Faulty variant: rows are deleted when they are drained.
GatewayOpensForgets ==
  /\ sock # NoSocket /\ ~opened
  /\ opened' = TRUE
  /\ sinks' = sinks \union {sock}
  /\ down' = mailbox
  /\ mailbox' = {}
  /\ UNCHANGED <<accepted, up, sock, due, handler, faults>>

\* The gateway registers the socket and drains the mailbox; rows stay.
GatewayOpens ==
  /\ sock # NoSocket /\ ~opened
  /\ opened' = TRUE
  /\ sinks' = sinks \union {sock}
  /\ Drain
  /\ UNCHANGED <<mailbox, accepted, up, sock, due, handler, faults>>

AckDelete(sk, m) ==
  /\ m \in up[sk]
  /\ up' = [up EXCEPT ![sk] = @ \ {m}]
  /\ mailbox' = mailbox \ {m}
  /\ UNCHANGED <<accepted, sinks, client, handler, faults>>

Unregister(sk) ==
  /\ sk \in sinks
  /\ sinks' = sinks \ {sk}
  /\ up' = [up EXCEPT ![sk] = {}]
  /\ UNCHANGED <<mailbox, accepted, client, handler>>

\* The server sees the close of a socket its client has given up, ...
ServerNotices(sk) ==
  /\ sk # sock
  /\ Unregister(sk)
  /\ UNCHANGED faults

\* ... or loses the socket the client still believes in, ...
ServerDrops ==
  /\ drops < MaxDrops
  /\ drops' = drops + 1
  /\ Unregister(sock)
  /\ UNCHANGED crashes

\* ... or restarts: the hub is empty, the table is not.
ServerRestarts ==
  /\ drops < MaxDrops
  /\ drops' = drops + 1
  /\ sinks' = {}
  /\ up' = [sk \in Sockets |-> {}]
  /\ UNCHANGED <<mailbox, accepted, client, handler, crashes>>

-----------------------------------------------------------------------------
(* The client's connection.                                                *)

Connect(sk) ==
  /\ due
  /\ sk \notin sinks
  /\ due' = FALSE
  /\ sock' = sk
  /\ UNCHANGED <<server, opened, down, handler, faults>>

\* Faulty variant: nobody schedules a reconnect.
OnCloseForgets ==
  /\ sock' = NoSocket /\ opened' = FALSE /\ down' = {}
  /\ UNCHANGED due

\* onclose: frames not yet received are gone, a reconnect is scheduled.
OnClose ==
  /\ sock' = NoSocket /\ opened' = FALSE /\ down' = {}
  /\ due' = TRUE

ClientNotices ==
  /\ sock # NoSocket /\ opened /\ sock \notin sinks
  /\ OnClose
  /\ UNCHANGED <<server, handler, faults>>

ClientDrops ==
  /\ sock # NoSocket
  /\ drops < MaxDrops
  /\ drops' = drops + 1
  /\ OnClose
  /\ UNCHANGED <<server, handler, crashes>>

-----------------------------------------------------------------------------
(* The client's receive loop.                                              *)

\* Olm decrypts a message once per ratchet: a second copy throws.
Fresh(m) == m \notin saved \union decrypted

\* Faulty variant: a copy that cannot be decrypted is not acked.
HandleIncomingAcksFresh(m) ==
  /\ opened /\ m \in down
  /\ down' = down \ {m}
  /\ up' = IF sock \in sinks /\ Fresh(m) THEN [up EXCEPT ![sock] = @ \union {m}] ELSE up
  /\ decrypted' = IF Fresh(m) THEN decrypted \union {m} ELSE decrypted
  /\ UNCHANGED <<mailbox, accepted, sinks, sock, opened, due, routing, saved, store, faults>>

\* handleIncoming up to its first await: ack, then decrypt.  An error is
\* swallowed.  The ack is lost if the server has closed the socket.
HandleIncoming(m) ==
  /\ opened /\ m \in down
  /\ down' = down \ {m}
  /\ up' = IF sock \in sinks THEN [up EXCEPT ![sock] = @ \union {m}] ELSE up
  /\ decrypted' = IF Fresh(m) THEN decrypted \union {m} ELSE decrypted
  /\ UNCHANGED <<mailbox, accepted, sinks, sock, opened, due, routing, saved, store, faults>>

\* Faulty variant: the ratchet is not saved.
SaveRatchetForgets(m) ==
  /\ m \in decrypted
  /\ decrypted' = decrypted \ {m}
  /\ routing' = routing \union {m}
  /\ UNCHANGED <<server, client, saved, store, faults>>

\* The saveSessions of decryptOlm completes.
SaveRatchet(m) ==
  /\ m \in decrypted
  /\ decrypted' = decrypted \ {m}
  /\ saved' = saved \union {m}
  /\ routing' = routing \union {m}
  /\ UNCHANGED <<server, client, store, faults>>

\* The putMessage of persistAndAppend completes.
PutMessage(m) ==
  /\ m \in routing
  /\ routing' = routing \ {m}
  /\ store' = store \union {m}
  /\ UNCHANGED <<server, client, decrypted, saved, faults>>

\* The page is closed, reloaded or killed, and opened again by boot.
Crash ==
  /\ crashes < MaxCrashes
  /\ crashes' = crashes + 1
  /\ decrypted' = {} /\ routing' = {}
  /\ OnClose
  /\ UNCHANGED <<server, saved, store, drops>>

-----------------------------------------------------------------------------
Init ==
  /\ mailbox = {} /\ accepted = {} /\ sinks = {}
  /\ up = [sk \in Sockets |-> {}]
  /\ sock = NoSocket /\ opened = FALSE /\ down = {} /\ due = TRUE
  /\ decrypted = {} /\ routing = {} /\ saved = {} /\ store = {}
  /\ drops = 0 /\ crashes = 0

Next ==
  \/ \E m \in Msgs :
       \/ SendEnvelope(m)
       \/ HandleIncoming(m)
       \/ SaveRatchet(m)
       \/ PutMessage(m)
  \/ \E sk \in Sockets :
       \/ Connect(sk)
       \/ ServerNotices(sk)
       \/ \E m \in Msgs : AckDelete(sk, m)
  \/ GatewayOpens
  \/ ServerDrops
  \/ ServerRestarts
  \/ ClientNotices
  \/ ClientDrops
  \/ Crash

Spec == Init /\ [][Next]_vars

\* A running page, server and network make progress: frames on a connection
\* that stays up arrive, both ends learn of a broken one, timers fire, and
\* saves to IndexedDB complete.  Nothing obliges a connection to break.
Fairness ==
  /\ \A m \in Msgs : /\ WF_vars(HandleIncoming(m))
                     /\ WF_vars(SaveRatchet(m))
                     /\ WF_vars(PutMessage(m))
  /\ \A sk \in Sockets : /\ WF_vars(ServerNotices(sk))
                         /\ \A m \in Msgs : WF_vars(AckDelete(sk, m))
  /\ WF_vars(\E sk \in Sockets : Connect(sk))
  /\ WF_vars(GatewayOpens)
  /\ WF_vars(ClientNotices)

FairSpec == Spec /\ Fairness

-----------------------------------------------------------------------------
(* Properties.                                                             *)

Taken == decrypted \union routing \union store

\* An accepted message that no page will ever show: no page is working on it,
\* and either its key is used up or no copy is left.
Lost == {m \in accepted \ Taken : m \in saved \/ m \notin mailbox \union down}

\* Redelivery after a lost ack is harmless: a message whose record is saved is
\* never processed again, because its ratchet was saved before the record.
HandledOnce == (decrypted \union routing) \intersect store = {}

\* The drain on connecting is enough: while the client's socket is in the hub,
\* every row of the mailbox is in a frame the client has not handled or named in
\* an ack the server has not seen.  No row waits for another reconnect.
RowsOnTheWay == sock \in sinks => mailbox \subseteq down \union up[sock]

\* The message path implements the abstract store-and-forward service, in
\* which only a device that has failed loses messages.
Abstract == INSTANCE StoreForward WITH
  pending <- accepted \ (store \union Lost),
  delivered <- store,
  lost <- Lost,
  failures <- crashes
ImplementsStoreForward == Abstract!Spec

\* Every accepted message is in the end saved on the device or lost to a crash,
\* and no ciphertext stays on the server for good, also not that of a message
\* the page can no longer decrypt.
EventuallyDelivered ==
  \A m \in Msgs : m \in accepted ~> m \in store \union Lost /\ m \notin mailbox
=============================================================================

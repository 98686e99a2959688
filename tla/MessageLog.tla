------------------------------ MODULE MessageLog ------------------------------
(***************************************************************************)
(* What a direct message promises its two users, whatever fails: the       *)
(* sender keeps a record of everything that can reach the recipient and    *)
(* of how sending it ended, and the recipient gets every message at most   *)
(* once.                                                                   *)
(***************************************************************************)
CONSTANT Msgs

VARIABLES
  outbox,  \* outbox[m]: the status in the sender's record of m
  inbox    \* the messages the recipient has a record of

vars == <<outbox, inbox>>

Moves == {<<"none", "sending">>, <<"sending", "sent">>, <<"sending", "failed">>}

Init ==
  /\ outbox = [m \in Msgs |-> "none"]
  /\ inbox = {}

\* Records are made and settled, each once.  Several puts may be committed
\* together as a page dies.
Write ==
  /\ outbox' \in [Msgs -> {"none", "sending", "sent", "failed"}]
  /\ \A m \in Msgs : outbox'[m] = outbox[m] \/ <<outbox[m], outbox'[m]>> \in Moves
  /\ UNCHANGED inbox

Receive(m) ==
  /\ outbox[m] # "none" /\ m \notin inbox
  /\ inbox' = inbox \union {m}
  /\ UNCHANGED outbox

Next == Write \/ \E m \in Msgs : Receive(m)

Spec == Init /\ [][Next]_vars
=============================================================================

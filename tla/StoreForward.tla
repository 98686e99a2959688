---------------------------- MODULE StoreForward ----------------------------
(***************************************************************************)
(* What the message path from the server to one device promises            *)
(* ("1:1 end-to-end messaging over WebSocket with offline                  *)
(* store-and-forward", README.md:140): a message the server accepted is    *)
(* pending until it is delivered, once and for good.  Only a device that   *)
(* has failed before may lose messages it should have, and a lost message  *)
(* never comes back.                                                       *)
(***************************************************************************)
EXTENDS Naturals

CONSTANT Msgs

VARIABLES
  pending,
  delivered,
  lost,
  failures   \* how often the device has failed

vars == <<pending, delivered, lost, failures>>

Known == pending \union delivered \union lost

Init == pending = {} /\ delivered = {} /\ lost = {} /\ failures = 0

Accept(m) ==
  /\ m \notin Known
  /\ pending' = pending \union {m}
  /\ UNCHANGED <<delivered, lost, failures>>

Deliver(m) ==
  /\ m \in pending
  /\ pending' = pending \ {m}
  /\ delivered' = delivered \union {m}
  /\ UNCHANGED <<lost, failures>>

\* The device fails, or a message turns out to be lost to an earlier failure.
Fail ==
  /\ failures' \in {failures, failures + 1} /\ failures' > 0
  /\ lost \subseteq lost' /\ lost' \subseteq lost \union pending
  /\ pending' = pending \ lost'
  /\ UNCHANGED delivered

Next == (\E m \in Msgs : Accept(m) \/ Deliver(m)) \/ Fail

Spec == Init /\ [][Next]_vars
=============================================================================

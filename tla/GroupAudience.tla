--------------------------- MODULE GroupAudience ---------------------------
(***************************************************************************)
(* What group messaging promises about who reads what ("so removed members *)
(* can't read further", messaging.ts:669): a message is addressed once, to *)
(* the members the group has at that moment, and nobody else ever reads    *)
(* it.                                                                     *)
(***************************************************************************)
CONSTANTS Users, Msgs

VARIABLES
  members,
  audience,  \* audience[m]: who m is addressed to; empty before that
  read       \* read[u]: messages u has read

vars == <<members, audience, read>>

Init ==
  /\ members \in SUBSET Users
  /\ audience = [m \in Msgs |-> {}]
  /\ read = [u \in Users |-> {}]

ChangeMembers ==
  /\ members' \in SUBSET Users
  /\ UNCHANGED <<audience, read>>

Address(m) ==
  /\ audience[m] = {}
  /\ audience' = [audience EXCEPT ![m] = members]
  /\ UNCHANGED <<members, read>>

\* A device reads some of the messages addressed to its user.
Read(u) ==
  /\ \E M \in SUBSET {m \in Msgs : u \in audience[m]} :
       read' = [read EXCEPT ![u] = @ \union M]
  /\ UNCHANGED <<members, audience>>

Next == ChangeMembers \/ (\E m \in Msgs : Address(m)) \/ (\E u \in Users : Read(u))

Spec == Init /\ [][Next]_vars
=============================================================================

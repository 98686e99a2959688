------------------------------ MODULE MCCalls ------------------------------
(* Calls between two users, the second with two devices.                    *)
EXTENDS Calls

CONSTANTS a, b1, b2, A, B

UserOfDef == [d \in Devices |-> IF d = a THEN A ELSE B]
=============================================================================

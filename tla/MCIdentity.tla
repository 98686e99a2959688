---------------------------- MODULE MCIdentity ----------------------------
(* Identity with the clicks on Sign out interchangeable.                    *)
EXTENDS Identity, TLC

Symmetry == Permutations(Signouts)
=============================================================================

---------------------------- MODULE MCDirectMessage ----------------------------
(* DirectMessage with messages and sockets interchangeable for TLC.         *)
EXTENDS DirectMessage, TLC

Symmetry == Permutations(Messages) \union Permutations(Sockets)
=============================================================================

--------------------------- MODULE MCKeyDirectory ---------------------------
(* KeyDirectory with its peers interchangeable.                             *)
EXTENDS KeyDirectory, TLC

Symmetry == Permutations(Peers)
=============================================================================

------------------------------ MODULE MCGroups ------------------------------
(* Groups with its messages and the users other than the sender             *)
(* interchangeable (safety run).                                            *)
EXTENDS Groups, TLC

Symmetry == Permutations(Msgs) \union Permutations(Others)
=============================================================================

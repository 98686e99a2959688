---------------------------- MODULE MCLockdown ----------------------------
(* Lockdown with small thresholds and the real shape of the cool-off curve. *)
EXTENDS Lockdown, TLC

SoftLockBase == 1
MCCoolOff == [k \in 0..MaxDoublings |-> SoftLockBase * 2 ^ k]

Symmetry == Permutations(Slots) \union Permutations(Tokens) \union Permutations(Codes)
=============================================================================

--------------------------- MODULE MCConversation ---------------------------
(* Conversation with messages and devices interchangeable.                  *)
EXTENDS Conversation, TLC

Symmetry == Permutations(Own) \union Permutations(Peer) \union Permutations(Devices)
=============================================================================

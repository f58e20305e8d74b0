--------------------------- MODULE MCClientSender ---------------------------
(* ClientSender with few packets: the kinds are given in each .cfg. *)
EXTENDS ClientSender, TLC

Cells == Permutations(Node)
=============================================================================

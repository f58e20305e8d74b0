---------------------------- MODULE MCPacketFifo ----------------------------
(* PacketFifo on a heap of a few cells, which are reused, and a few packets. *)
EXTENDS PacketFifo, TLC

HeapSymmetry == Permutations(Node) \cup Permutations(Packet)
=============================================================================

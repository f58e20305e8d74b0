---------------------------- MODULE AbstractFifo ----------------------------
(***************************************************************************)
(* What the FifoAgent interface of packet_fifo.h promises its callers: a   *)
(* first-in first-out queue of packets, with a front operation that does   *)
(* not consume.  The linked list of packet_fifo.c is shown to implement it *)
(* in PacketFifo.tla (checked) and PacketFifoProofs.tla (proved).          *)
(***************************************************************************)
EXTENDS Sequences

CONSTANTS Packet,   \* the RTMPPacket objects callers enqueue
          NULL      \* the null pointer

VARIABLES queue,    \* the packets waiting, oldest first
          answer    \* the last value frontFifo returned

AFInit == queue = <<>> /\ answer = NULL

AFPush(p) == queue' = Append(queue, p) /\ UNCHANGED answer

AFFront == /\ answer' = IF queue = <<>> THEN NULL ELSE Head(queue)
           /\ UNCHANGED queue

AFPop == queue # <<>> /\ queue' = Tail(queue) /\ UNCHANGED answer

AFClear == queue' = <<>> /\ UNCHANGED answer

AFNext == (\E p \in Packet : AFPush(p)) \/ AFFront \/ AFPop \/ AFClear

AFSpec == AFInit /\ [][AFNext]_<<queue, answer>>
=============================================================================

----------------------------- MODULE PacketFifo -----------------------------
(***************************************************************************)
(* packet_fifo.c: the FIFO between the threads that produce media packets  *)
(* and the client thread that sends them.  It is a singly linked list      *)
(* whose nodes are malloc'ed and freed; header and tail are the two        *)
(* pointers of FifoAgent.  Every operation runs under fifoMutex, so each   *)
(* is one action; what a caller does with the pointer frontFifo returned   *)
(* happens outside the lock and is modelled in ClientSender.tla.           *)
(*                                                                         *)
(* Memory is the set Node of cells malloc may return: `live' holds the     *)
(* cells now allocated, and a freed cell may be returned again.  A packet  *)
(* is identified once and for all, so `freed' remembers which packets      *)
(* RTMPPacket_Free and free have been applied to.                          *)
(***************************************************************************)
EXTENDS Naturals, Sequences, FiniteSets

CONSTANTS Node,     \* the addresses malloc can return for a PacketFifo node
          Packet,   \* the RTMPPacket objects callers enqueue
          NULL      \* the null pointer

ASSUME NullAssumption == NULL \notin Node /\ NULL \notin Packet

VARIABLES agent,    \* is there an agent between createFifoAgent and releaseFifoAgent?
          header,   \* FifoAgent.packetFifoHeader
          tail,     \* FifoAgent.packetFifoTail
          size,     \* FifoAgent.size
          next,     \* PacketFifo.next of every cell
          packet,   \* PacketFifo.packet of every cell
          live,     \* the cells that are allocated
          freed,    \* the packets that have been freed
          answer,   \* the last value packetFifoFront returned
          chain     \* auxiliary: the nodes pushed and not yet removed, oldest first

heapVars == <<next, packet, live, freed>>
fifoVars == <<agent, header, tail, size, next, packet, live, freed, answer, chain>>

Elems(s) == {s[i] : i \in 1..Len(s)}

(***************************************************************************)
(* The packets a caller cannot push any more: they were freed, or a node   *)
(* still refers to them (the FIFO owns a packet from push to free).        *)
(***************************************************************************)
Owned == freed \cup {packet[n] : n \in live}

(***************************************************************************)
(* The cells met by `while (p) p = p->next' from cell n: the least set     *)
(* that holds n and is closed under next.                                  *)
(***************************************************************************)
ClosedUnderNext(S) == \A m \in S : next[m] # NULL => next[m] \in S
WalkFrom(n) == {m \in Node : \A S \in SUBSET Node :
                                n \in S /\ ClosedUnderNext(S) => m \in S}

(***************************************************************************)
(* The repair the readers begin with: the first push leaves header NULL.   *)
(***************************************************************************)
FixedHeader == IF header = NULL THEN tail ELSE header

FifoInit == /\ agent = FALSE
            /\ header = NULL /\ tail = NULL /\ size = 0
            /\ next = [n \in Node |-> NULL]
            /\ packet = [n \in Node |-> NULL]
            /\ live = {} /\ freed = {}
            /\ answer = NULL
            /\ chain = <<>>

(* createFifoAgent and initFifo *)
CreateFifoAgent == /\ ~agent
                   /\ agent' = TRUE
                   /\ header' = NULL /\ tail' = NULL /\ size' = 0
                   /\ UNCHANGED <<heapVars, answer, chain>>

(* mutant: the second push does not set the header *)
LinkLastUnrepaired(n) ==
    /\ tail' = n
    /\ next' = IF tail = NULL THEN [next EXCEPT ![n] = NULL]
               ELSE [next EXCEPT ![n] = NULL, ![tail] = n]
    /\ UNCHANGED header

(* the links packetFifoPush sets for the new last node n *)
LinkLast(n) ==
    IF tail = NULL
    THEN /\ tail' = n
         /\ next' = [next EXCEPT ![n] = NULL]
         /\ UNCHANGED header
    ELSE /\ next' = [next EXCEPT ![n] = NULL, ![tail] = n]
         /\ header' = FixedHeader
         /\ tail' = n

(***************************************************************************)
(* packetFifoPush of a packet that the caller has just allocated; when     *)
(* malloc has no cell the packet stays with the caller.                    *)
(***************************************************************************)
PacketFifoPush(p) ==
    /\ agent
    /\ p \in Packet \ Owned
    /\ \E n \in Node \ live :
          /\ LinkLast(n)
          /\ packet' = [packet EXCEPT ![n] = p]
          /\ live' = live \cup {n}
          /\ chain' = Append(chain, n)
    /\ size' = size + 1
    /\ UNCHANGED <<agent, freed, answer>>

PacketFifoFront ==
    /\ agent
    /\ header' = FixedHeader
    /\ answer' = IF header' = NULL THEN NULL ELSE packet[header']
    /\ UNCHANGED <<agent, tail, size, heapVars, chain>>

(* mutants: pop leaves tail on the node it frees, or does not free the node *)
PopKeepsTail ==
    /\ agent
    /\ FixedHeader # NULL
    /\ header' = next[FixedHeader]
    /\ freed' = freed \cup {packet[FixedHeader]}
    /\ live' = live \ {FixedHeader}
    /\ size' = size - 1
    /\ chain' = Tail(chain)
    /\ UNCHANGED <<agent, tail, next, packet, answer>>

PopKeepsNode ==
    /\ agent
    /\ FixedHeader # NULL
    /\ tail' = IF FixedHeader = tail THEN NULL ELSE tail
    /\ header' = next[FixedHeader]
    /\ freed' = freed \cup {packet[FixedHeader]}
    /\ size' = size - 1
    /\ chain' = Tail(chain)
    /\ UNCHANGED <<agent, next, packet, live, answer>>

(* a pop of the empty FIFO changes nothing: it is a stuttering step *)
PacketFifoPop ==
    /\ agent
    /\ FixedHeader # NULL
    /\ LET first == FixedHeader IN
          /\ tail' = IF first = tail THEN NULL ELSE tail
          /\ header' = next[first]
          /\ freed' = freed \cup {packet[first]}
          /\ live' = live \ {first}
    /\ size' = size - 1
    /\ chain' = Tail(chain)
    /\ UNCHANGED <<agent, next, packet, answer>>

(* what cleanPacketFifo and uninitFifo free: they walk from header as it is *)
WalksOneNode == IF header = NULL THEN {} ELSE {header}   \* mutant
Walked == IF header = NULL THEN {} ELSE WalkFrom(header)

FreeWalked == /\ freed' = freed \cup {packet[n] : n \in Walked}
              /\ live' = live \ Walked
              /\ chain' = <<>>
              /\ UNCHANGED <<next, packet, answer>>

CleanPacketFifo == /\ agent
                   /\ FreeWalked
                   /\ header' = NULL /\ tail' = NULL /\ size' = 0
                   /\ UNCHANGED agent

(* releaseFifoAgent: uninitFifo frees the walked nodes, then the agent goes *)
ReleaseFifoAgent == /\ agent
                    /\ agent' = FALSE
                    /\ FreeWalked
                    /\ UNCHANGED <<header, tail, size>>

FifoNext == \/ CreateFifoAgent
            \/ \E p \in Packet : PacketFifoPush(p)
            \/ PacketFifoFront
            \/ PacketFifoPop
            \/ CleanPacketFifo
            \/ ReleaseFifoAgent

FifoSpec == FifoInit /\ [][FifoNext]_fifoVars
-----------------------------------------------------------------------------
(***************************************************************************)
(* Every variable keeps the type its C declaration and use give it; size,  *)
(* an unsigned counter that pop decrements, never goes below zero.         *)
(***************************************************************************)
FifoTypeOK ==
    /\ agent \in BOOLEAN
    /\ header \in Node \cup {NULL}
    /\ tail \in Node \cup {NULL}
    /\ size \in Nat
    /\ next \in [Node -> Node \cup {NULL}]
    /\ packet \in [Node -> Packet \cup {NULL}]
    /\ live \subseteq Node
    /\ freed \subseteq Packet
    /\ answer \in Packet \cup {NULL}
    /\ chain \in Seq(Node)

(***************************************************************************)
(* The list in memory is the queue the callers believe in: size counts the *)
(* nodes pushed and not yet removed, each points to the one pushed after   *)
(* it, tail is the youngest and header is the oldest, except that header   *)
(* may still be NULL while there is a single node (packetFifoPush leaves   *)
(* it to the readers to repair).                                           *)
(***************************************************************************)
HeaderOK == \/ header = chain[1]
            \/ header = NULL /\ Len(chain) = 1

WellLinked ==
    agent => /\ size = Len(chain)
             /\ chain = <<>> => header = NULL /\ tail = NULL
             /\ chain # <<>> => HeaderOK /\ tail = chain[Len(chain)]
             /\ \A i \in 1..Len(chain) :
                   next[chain[i]] = IF i = Len(chain) THEN NULL ELSE chain[i + 1]

(***************************************************************************)
(* No node is linked twice or after its cell was freed, and no queued      *)
(* packet is one that was freed or that another node also refers to: what  *)
(* pop, clear and release free they free once, and what front hands out is *)
(* allocated.                                                              *)
(***************************************************************************)
QueuedAreAllocated ==
    /\ \A i, j \in 1..Len(chain) : chain[i] = chain[j] => i = j
    /\ \A i \in 1..Len(chain) : chain[i] \in live
    /\ \A m, n \in live : packet[m] = packet[n] => m = n
    /\ \A n \in live : packet[n] \in Packet \ freed

(***************************************************************************)
(* Nodes that are allocated but that no operation will ever reach again.   *)
(***************************************************************************)
Leaked == live \ Elems(chain)

(***************************************************************************)
(* cleanPacketFifo and uninitFifo walk from header without the repair of   *)
(* front and pop, so they lose the node of a FIFO that holds one packet    *)
(* nobody has looked at; this is the only way a node is ever lost.         *)
(***************************************************************************)
LeaksOnlyAnUnseenSingleton ==
    [][Leaked' # Leaked => /\ header = NULL /\ Len(chain) = 1
                           /\ Leaked' = Leaked \cup {tail}]_fifoVars

Queue == [i \in 1..Len(chain) |-> packet[chain[i]]]

(***************************************************************************)
(* The agent implements a FIFO queue: packets leave in the order they were *)
(* pushed, and front answers the oldest one or NULL exactly when empty.    *)
(***************************************************************************)
Fifo == INSTANCE AbstractFifo WITH queue <- Queue
ImplementsFifo == Fifo!AFSpec
=============================================================================

-------------------------- MODULE PacketFifoProofs --------------------------
(***************************************************************************)
(* Proofs about PacketFifo.tla, for every set of cells and of packets.     *)
(* The inductive invariant is FifoInv below: the list is well linked, what *)
(* is linked is allocated, and between two agents nothing is linked.       *)
(***************************************************************************)
EXTENDS PacketFifo, SequenceTheorems, WellFoundedInduction, TLAPS

FifoInv == /\ FifoTypeOK
           /\ WellLinked
           /\ QueuedAreAllocated
           /\ ~agent => chain = <<>>

(***************************************************************************)
(* The cells of a sequence of cells are cells.                             *)
(***************************************************************************)
LEMMA ElemsInNode == \A s \in Seq(Node) : Elems(s) \subseteq Node
  BY DEF Elems

(***************************************************************************)
(* A walk from header meets only nodes of the list.                        *)
(***************************************************************************)
LEMMA WalkStaysInChain ==
  ASSUME FifoInv, agent
  PROVE  Walked \subseteq Elems(chain)
<1>1. CASE header = NULL
  BY <1>1 DEF Walked
<1>2. CASE header # NULL
  <2>1. chain # <<>> /\ header = chain[1] /\ Len(chain) \in Nat \ {0}
    BY <1>2, EmptySeq DEF FifoInv, FifoTypeOK, WellLinked, HeaderOK
  <2>2. header \in Elems(chain)
    BY <2>1 DEF Elems
  <2>3. ClosedUnderNext(Elems(chain))
    BY <2>1 DEF FifoInv, FifoTypeOK, WellLinked, ClosedUnderNext, Elems
  <2>4. Elems(chain) \in SUBSET Node
    BY ElemsInNode DEF FifoInv, FifoTypeOK
  <2>5. WalkFrom(header) \subseteq Elems(chain)
    BY <2>2, <2>3, <2>4 DEF WalkFrom
  <2> QED  BY <1>2, <2>5 DEF Walked
<1> QED  BY <1>1, <1>2

(***************************************************************************)
(* What clear and release free is allocated, so nothing is freed twice.    *)
(***************************************************************************)
LEMMA WalkedIsLive ==
  ASSUME FifoInv, agent
  PROVE  Walked \subseteq live
BY WalkStaysInChain DEF FifoInv, QueuedAreAllocated, Elems

LEMMA InitInv == FifoInit => FifoInv
<1> SUFFICES ASSUME FifoInit PROVE FifoInv
  OBVIOUS
<1>1. chain = <<>> /\ chain \in Seq(Node) /\ Len(chain) = 0
  BY EmptySeq DEF FifoInit
<1>2. FifoTypeOK
  BY <1>1 DEF FifoInit, FifoTypeOK
<1>3. WellLinked
  BY <1>1 DEF FifoInit, WellLinked
<1>4. QueuedAreAllocated
  BY <1>1 DEF FifoInit, QueuedAreAllocated
<1> QED  BY <1>1, <1>2, <1>3, <1>4 DEF FifoInv

LEMMA CreateInv == FifoInv /\ CreateFifoAgent => FifoInv'
BY EmptySeq DEF CreateFifoAgent, heapVars, FifoInv, FifoTypeOK, WellLinked,
                QueuedAreAllocated

LEMMA PushInv ==
  ASSUME FifoInv, NEW p \in Packet, PacketFifoPush(p)
  PROVE  FifoInv'
<1> USE NullAssumption
<1>1. PICK n \in Node \ live :
        /\ LinkLast(n)
        /\ packet' = [packet EXCEPT ![n] = p]
        /\ live' = live \cup {n}
        /\ chain' = Append(chain, n)
  BY DEF PacketFifoPush
<1> DEFINE L == Len(chain)
<1>2. /\ chain \in Seq(Node) /\ L \in Nat
      /\ chain' \in Seq(Node) /\ Len(chain') = L + 1
      /\ \A i \in 1..L : chain'[i] = chain[i] /\ chain[i] \in Node
      /\ chain'[L + 1] = n
  BY <1>1, AppendProperties DEF FifoInv, FifoTypeOK
<1>3. p \notin freed /\ \A m \in live : packet[m] # p
  BY DEF PacketFifoPush, Owned
<1>4. agent /\ agent' /\ size' = size + 1 /\ freed' = freed /\ answer' = answer
  BY DEF PacketFifoPush
<1>5. \A i \in 1..L : chain[i] \in live /\ chain[i] # n
  BY <1>1 DEF FifoInv, QueuedAreAllocated
<1>6. /\ header' \in Node \cup {NULL} /\ tail' = n
      /\ next' \in [Node -> Node \cup {NULL}]
  BY <1>1 DEF LinkLast, FixedHeader, FifoInv, FifoTypeOK
<1>7. FifoTypeOK'
  <2>1. packet' \in [Node -> Packet \cup {NULL}] /\ live' \subseteq Node
    BY <1>1 DEF FifoInv, FifoTypeOK
  <2>2. header' \in Node \cup {NULL} /\ tail' \in Node \cup {NULL} /\ size' \in Nat
    BY <1>1, <1>4, <1>6 DEF FifoInv, FifoTypeOK
  <2>3. freed' \subseteq Packet /\ answer' \in Packet \cup {NULL} /\ agent' \in BOOLEAN
    BY <1>4 DEF FifoInv, FifoTypeOK
  <2> QED  BY <2>1, <2>2, <2>3, <1>2, <1>6 DEF FifoTypeOK
<1>8. WellLinked'
  <2>1. CASE chain = <<>>
    <3>1. L = 0 /\ header' = NULL /\ next'[n] = NULL
      BY <2>1, <1>1, <1>4 DEF LinkLast, FifoInv, FifoTypeOK, WellLinked
    <3> QED
      BY <3>1, <1>2, <1>4, <1>6 DEF FifoInv, WellLinked, HeaderOK
  <2>2. CASE chain # <<>>
    <3>1. L \in Nat \ {0} /\ tail = chain[L] /\ tail \in Node /\ tail # NULL
      BY <2>2, <1>2, <1>4, EmptySeq DEF FifoInv, WellLinked
    <3>2. /\ header' = chain[1]
          /\ next' = [next EXCEPT ![n] = NULL, ![tail] = n]
      <4>1. header = chain[1] \/ (header = NULL /\ L = 1)
        BY <2>2, <1>4 DEF FifoInv, WellLinked, HeaderOK
      <4>2. chain[1] # NULL
        BY <3>1, <1>2
      <4>3. header' = FixedHeader /\ next' = [next EXCEPT ![n] = NULL, ![tail] = n]
        BY <3>1, <1>1 DEF LinkLast
      <4> QED  BY <4>1, <4>2, <4>3, <3>1 DEF FixedHeader
    <3>3. next'[n] = NULL /\ next'[chain[L]] = n
      BY <3>1, <3>2, <1>5 DEF FifoInv, FifoTypeOK
    <3>4. ASSUME NEW i \in 1..(L-1) PROVE next'[chain[i]] = chain[i+1]
      <4>1. chain[i] # chain[L] /\ next[chain[i]] = chain[i+1]
        BY <3>1, <1>4 DEF FifoInv, WellLinked, QueuedAreAllocated
      <4> QED  BY <4>1, <3>1, <3>2, <1>2, <1>5 DEF FifoInv, FifoTypeOK
    <3>5. \A i \in 1..(L+1) :
            next'[chain'[i]] = IF i = L + 1 THEN NULL ELSE chain'[i+1]
      BY <3>1, <3>3, <3>4, <1>2
    <3>6. size' = L + 1 /\ chain' # <<>> /\ chain'[1] = chain[1]
      BY <3>1, <1>2, <1>4 DEF FifoInv, WellLinked
    <3> QED
      BY <3>1, <3>2, <3>5, <3>6, <1>2, <1>6 DEF WellLinked, HeaderOK
  <2> QED  BY <2>1, <2>2
<1>9. QueuedAreAllocated'
  <2>1. \A i, j \in 1..(L+1) : chain'[i] = chain'[j] => i = j
    BY <1>2, <1>5 DEF FifoInv, QueuedAreAllocated
  <2>2. \A i \in 1..(L+1) : chain'[i] \in live'
    BY <1>1, <1>2, <1>5
  <2>3. /\ \A m \in live : packet'[m] = packet[m]
        /\ packet'[n] = p
    BY <1>1 DEF FifoInv, FifoTypeOK
  <2>4. \A m, k \in live' : packet'[m] = packet'[k] => m = k
    BY <2>3, <1>1, <1>3 DEF FifoInv, QueuedAreAllocated
  <2>5. \A m \in live' : packet'[m] \in Packet \ freed'
    BY <2>3, <1>1, <1>3, <1>4 DEF FifoInv, QueuedAreAllocated
  <2> QED  BY <2>1, <2>2, <2>4, <2>5, <1>2 DEF QueuedAreAllocated
<1> QED  BY <1>4, <1>7, <1>8, <1>9 DEF FifoInv

LEMMA FrontInv == FifoInv /\ PacketFifoFront => FifoInv'
<1> SUFFICES ASSUME FifoInv, PacketFifoFront PROVE FifoInv'
  OBVIOUS
<1> USE NullAssumption DEF PacketFifoFront, heapVars
<1>1. agent /\ agent' /\ chain \in Seq(Node) /\ Len(chain) \in Nat
  BY DEF FifoInv, FifoTypeOK
<1>2. CASE chain = <<>>
  BY <1>1, <1>2 DEF FifoInv, FifoTypeOK, WellLinked, QueuedAreAllocated, FixedHeader
<1>3. CASE chain # <<>>
  <2>1. Len(chain) \in Nat \ {0} /\ chain[1] \in live
    BY <1>1, <1>3, EmptySeq DEF FifoInv, QueuedAreAllocated
  <2>2. header' = chain[1] /\ header' \in Node
    BY <2>1, <1>1, <1>3 DEF FifoInv, WellLinked, HeaderOK, FixedHeader, FifoTypeOK
  <2>3. answer' \in Packet
    BY <2>1, <2>2 DEF FifoInv, QueuedAreAllocated
  <2>4. FifoTypeOK'
    BY <2>2, <2>3, <1>1 DEF FifoInv, FifoTypeOK
  <2>5. WellLinked'
    <3>1. /\ size = Len(chain) /\ tail = chain[Len(chain)]
          /\ \A i \in 1..Len(chain) :
               next[chain[i]] = IF i = Len(chain) THEN NULL ELSE chain[i + 1]
      BY <1>1, <1>3 DEF FifoInv, WellLinked
    <3> QED  BY <3>1, <2>2, <1>1, <1>3 DEF WellLinked, HeaderOK
  <2>6. QueuedAreAllocated'
    BY DEF FifoInv, QueuedAreAllocated
  <2> QED  BY <2>4, <2>5, <2>6, <1>1 DEF FifoInv
<1> QED  BY <1>2, <1>3

LEMMA PopInv == FifoInv /\ PacketFifoPop => FifoInv'
<1> SUFFICES ASSUME FifoInv, PacketFifoPop PROVE FifoInv'
  OBVIOUS
<1> USE NullAssumption
<1> DEFINE L == Len(chain)
<1>1. /\ agent /\ agent' /\ chain \in Seq(Node) /\ L \in Nat /\ size' = size - 1
      /\ chain # <<>> /\ L \in Nat \ {0} /\ size = L
      /\ FixedHeader = chain[1] /\ chain[1] \in live
  <2>1. agent /\ agent' /\ chain \in Seq(Node) /\ L \in Nat /\ size' = size - 1
    BY DEF PacketFifoPop, FifoInv, FifoTypeOK
  <2>2. chain # <<>> /\ size = L
    BY <2>1 DEF PacketFifoPop, FifoInv, WellLinked, FixedHeader
  <2>3. L \in Nat \ {0}
    BY <2>1, <2>2, EmptySeq
  <2>4. FixedHeader = chain[1] /\ chain[1] \in live
    BY <2>1, <2>2, <2>3 DEF FifoInv, WellLinked, HeaderOK, FixedHeader, QueuedAreAllocated
  <2> QED  BY <2>1, <2>2, <2>3, <2>4
<1>2. /\ chain' \in Seq(Node) /\ Len(chain') = L - 1
      /\ \A i \in 1..(L-1) : chain'[i] = chain[i+1]
  BY <1>1, HeadTailProperties DEF PacketFifoPop
<1>3. /\ tail' = IF chain[1] = tail THEN NULL ELSE tail
      /\ header' = next[chain[1]]
      /\ freed' = freed \cup {packet[chain[1]]}
      /\ live' = live \ {chain[1]}
      /\ next' = next /\ packet' = packet /\ answer' = answer
  BY <1>1 DEF PacketFifoPop
<1>4. FifoTypeOK'
  <2>1. packet[chain[1]] \in Packet /\ chain[1] \in Node
    BY <1>1 DEF FifoInv, FifoTypeOK, QueuedAreAllocated
  <2> QED  BY <2>1, <1>1, <1>2, <1>3 DEF FifoInv, FifoTypeOK
<1>5. WellLinked'
  <2>0. \A i \in 1..L : next[chain[i]] = IF i = L THEN NULL ELSE chain[i+1]
    BY <1>1 DEF FifoInv, WellLinked
  <2>1. CASE L = 1
    <3>1. tail' = NULL /\ header' = NULL /\ chain' = <<>>
      BY <2>0, <2>1, <1>1, <1>2, <1>3, EmptySeq DEF FifoInv, WellLinked
    <3> QED  BY <3>1, <2>1, <1>1, <1>2 DEF WellLinked
  <2>2. CASE L > 1
    <3>1. tail = chain[L] /\ chain[L] # chain[1]
      BY <2>2, <1>1 DEF FifoInv, WellLinked, QueuedAreAllocated
    <3>2. tail' = chain'[L-1] /\ header' = chain'[1] /\ chain' # <<>>
      BY <3>1, <2>0, <2>2, <1>1, <1>2, <1>3, EmptySeq
    <3>3. \A i \in 1..(L-1) :
            next'[chain'[i]] = IF i = L - 1 THEN NULL ELSE chain'[i+1]
      BY <2>0, <2>2, <1>1, <1>2, <1>3
    <3> QED  BY <3>2, <3>3, <2>2, <1>1, <1>2 DEF WellLinked, HeaderOK
  <2> QED  BY <2>1, <2>2, <1>1
<1>6. QueuedAreAllocated'
  <2>1. \A i, j \in 1..(L-1) : chain'[i] = chain'[j] => i = j
    BY <1>1, <1>2 DEF FifoInv, QueuedAreAllocated
  <2>2. \A i \in 1..(L-1) : chain'[i] \in live'
    BY <1>1, <1>2, <1>3 DEF FifoInv, QueuedAreAllocated
  <2>3. /\ \A m, n \in live' : packet'[m] = packet'[n] => m = n
        /\ \A n \in live' : packet'[n] \in Packet \ freed'
    BY <1>1, <1>3 DEF FifoInv, QueuedAreAllocated
  <2> QED  BY <2>1, <2>2, <2>3, <1>2 DEF QueuedAreAllocated
<1> QED  BY <1>1, <1>4, <1>5, <1>6 DEF FifoInv

(***************************************************************************)
(* Freeing the walked nodes keeps what is allocated apart from what is     *)
(* freed: used by clear and by release.                                    *)
(***************************************************************************)
LEMMA FreeWalkedInv ==
  ASSUME FifoInv, agent, FreeWalked
  PROVE  /\ QueuedAreAllocated'
         /\ live' \subseteq Node /\ freed' \subseteq Packet /\ chain' = <<>>
<1>1. Walked \subseteq live
  BY WalkedIsLive
<1>2. \A n \in Walked : packet[n] \in Packet
  BY <1>1 DEF FifoInv, QueuedAreAllocated
<1>3. live' = live \ Walked /\ freed' = freed \cup {packet[n] : n \in Walked}
      /\ packet' = packet /\ chain' = <<>>
  BY DEF FreeWalked
<1>4. \A n \in live' : packet'[n] \in Packet \ freed'
  BY <1>1, <1>3 DEF FifoInv, QueuedAreAllocated
<1>5. \A m, n \in live' : packet'[m] = packet'[n] => m = n
  BY <1>3 DEF FifoInv, QueuedAreAllocated
<1>6. live' \subseteq Node /\ freed' \subseteq Packet
  BY <1>2, <1>3 DEF FifoInv, FifoTypeOK
<1> QED  BY <1>3, <1>4, <1>5, <1>6 DEF QueuedAreAllocated

LEMMA CleanInv == FifoInv /\ CleanPacketFifo => FifoInv'
<1> SUFFICES ASSUME FifoInv, CleanPacketFifo PROVE FifoInv'
  OBVIOUS
<1>1. agent /\ agent' /\ FreeWalked /\ header' = NULL /\ tail' = NULL /\ size' = 0
  BY DEF CleanPacketFifo
<1>2. QueuedAreAllocated' /\ live' \subseteq Node /\ freed' \subseteq Packet
      /\ chain' = <<>>
  BY <1>1, FreeWalkedInv
<1>3. FifoTypeOK'
  BY <1>1, <1>2, EmptySeq DEF FreeWalked, FifoInv, FifoTypeOK
<1>4. WellLinked'
  BY <1>1, <1>2 DEF WellLinked
<1> QED  BY <1>1, <1>2, <1>3, <1>4 DEF FifoInv

LEMMA ReleaseInv == FifoInv /\ ReleaseFifoAgent => FifoInv'
<1> SUFFICES ASSUME FifoInv, ReleaseFifoAgent PROVE FifoInv'
  OBVIOUS
<1>1. agent /\ ~agent' /\ FreeWalked
      /\ header' = header /\ tail' = tail /\ size' = size
  BY DEF ReleaseFifoAgent
<1>2. QueuedAreAllocated' /\ live' \subseteq Node /\ freed' \subseteq Packet
      /\ chain' = <<>>
  BY <1>1, FreeWalkedInv
<1>3. FifoTypeOK'
  BY <1>1, <1>2, EmptySeq DEF ReleaseFifoAgent, FreeWalked, FifoInv, FifoTypeOK
<1>4. WellLinked'
  BY <1>1 DEF WellLinked
<1> QED  BY <1>1, <1>2, <1>3, <1>4 DEF FifoInv

LEMMA StutterInv == FifoInv /\ UNCHANGED fifoVars => FifoInv'
BY DEF fifoVars, FifoInv, FifoTypeOK, WellLinked, HeaderOK, QueuedAreAllocated

LEMMA NextInv == FifoInv /\ [FifoNext]_fifoVars => FifoInv'
BY CreateInv, PushInv, FrontInv, PopInv, CleanInv, ReleaseInv, StutterInv
   DEF FifoNext

LEMMA Invariance == FifoSpec => []FifoInv
BY InitInv, NextInv, PTL DEF FifoSpec

(***************************************************************************)
(* The FIFO of packet_fifo.c is type correct: in particular size, which is *)
(* unsigned, is never decremented below zero.                              *)
(***************************************************************************)
THEOREM TypeCorrect == FifoSpec => []FifoTypeOK
<1>1. FifoInv => FifoTypeOK
  BY DEF FifoInv
<1> QED  BY <1>1, Invariance, PTL

(***************************************************************************)
(* The list in memory is always the queue of the nodes pushed and not yet  *)
(* removed, up to the header that the first push leaves NULL.              *)
(***************************************************************************)
THEOREM ListIsTheQueue == FifoSpec => []WellLinked
<1>1. FifoInv => WellLinked
  BY DEF FifoInv
<1> QED  BY <1>1, Invariance, PTL

(***************************************************************************)
(* No operation leaves a freed node or a freed packet in the list, and     *)
(* none frees a node or a packet twice.                                    *)
(***************************************************************************)
THEOREM NoDanglingNode == FifoSpec => []QueuedAreAllocated
<1>1. FifoInv => QueuedAreAllocated
  BY DEF FifoInv
<1> QED  BY <1>1, Invariance, PTL
-----------------------------------------------------------------------------
(***************************************************************************)
(* What is lost.  A walk from a header that is not NULL meets every node   *)
(* of the list: were one missed, the first one missed would follow a node  *)
(* that was met.                                                           *)
(***************************************************************************)
LEMMA LeastNat ==
  ASSUME NEW T \in SUBSET Nat, T # {}
  PROVE  \E x \in T : \A y \in T : x <= y
<1>1. PICK x \in T : \A y \in T : ~(<<y, x>> \in OpToRel(<, Nat))
  BY WFMin, NatLessThanWellFounded
<1>2. \A y \in T : ~(y < x)
  BY <1>1 DEF OpToRel
<1> QED  BY <1>2

LEMMA WalkMeetsTheChain ==
  ASSUME FifoInv, agent, header # NULL
  PROVE  Walked = Elems(chain)
<1>1. /\ chain \in Seq(Node) /\ chain # <<>> /\ header = chain[1]
      /\ Len(chain) \in Nat \ {0}
  BY EmptySeq DEF FifoInv, FifoTypeOK, WellLinked, HeaderOK
<1>2. Walked = WalkFrom(header)
  BY DEF Walked
<1>3. ASSUME NEW S \in SUBSET Node, header \in S, ClosedUnderNext(S)
      PROVE  \A i \in 1..Len(chain) : chain[i] \in S
  <2> DEFINE T == {i \in 1..Len(chain) : chain[i] \notin S}
  <2>1. SUFFICES ASSUME T # {} PROVE FALSE
    OBVIOUS
  <2>2. PICK i \in T : \A j \in T : i <= j
    <3>1. T \in SUBSET Nat
      BY <1>1
    <3> HIDE DEF T
    <3> QED  BY <2>1, <3>1, LeastNat
  <2>3. i \in Nat /\ i > 1 /\ i <= Len(chain)
    BY <2>2, <1>1, <1>3
  <2>4. chain[i-1] \in S
    BY <2>2, <2>3, <1>1
  <2>5. next[chain[i-1]] = chain[i] /\ chain[i] # NULL
    BY <2>3, <1>1, NullAssumption DEF FifoInv, WellLinked
  <2>6. chain[i] \in S
    BY <2>4, <2>5, <1>3 DEF ClosedUnderNext
  <2> QED  BY <2>2, <2>6
<1>4. Elems(chain) \subseteq WalkFrom(header)
  <2>1. Elems(chain) \subseteq Node
    BY <1>1, ElemsInNode
  <2> QED  BY <2>1, <1>3 DEF WalkFrom, Elems
<1> QED  BY <1>2, <1>4, WalkStaysInChain

LeakStep == Leaked' # Leaked => /\ header = NULL /\ Len(chain) = 1
                                /\ Leaked' = Leaked \cup {tail}

LEMMA FreeWalkedLeak ==
  ASSUME FifoInv, agent, FreeWalked
  PROVE  LeakStep
<1>1. /\ chain \in Seq(Node) /\ Len(chain) \in Nat
      /\ live' = live \ Walked /\ Elems(chain') = {}
  BY EmptySeq DEF FreeWalked, Elems, FifoInv, FifoTypeOK
<1>2. Leaked' = live \ Walked
  BY <1>1 DEF Leaked
<1>3. CASE header # NULL
  BY <1>2, <1>3, WalkMeetsTheChain DEF LeakStep, Leaked
<1>4. CASE header = NULL /\ chain = <<>>
  <2>1. Walked = {} /\ Elems(chain) = {}
    BY <1>4, EmptySeq DEF Walked, Elems
  <2> QED  BY <2>1, <1>2 DEF LeakStep, Leaked
<1>5. CASE header = NULL /\ chain # <<>>
  <2>1. Len(chain) = 1 /\ tail = chain[1] /\ chain[1] \in live
    BY <1>5, <1>1, EmptySeq, NullAssumption
       DEF FifoInv, WellLinked, HeaderOK, QueuedAreAllocated
  <2>2. Elems(chain) = {tail} /\ Walked = {}
    BY <2>1, <1>5 DEF Elems, Walked
  <2> QED  BY <2>1, <2>2, <1>2, <1>5 DEF LeakStep, Leaked
<1> QED  BY <1>3, <1>4, <1>5

LEMMA PushLeak ==
  ASSUME FifoInv, NEW p \in Packet, PacketFifoPush(p)
  PROVE  Leaked' = Leaked
<1>1. PICK n \in Node \ live : live' = live \cup {n} /\ chain' = Append(chain, n)
  BY DEF PacketFifoPush
<1>2. Elems(chain') = Elems(chain) \cup {n}
  <2>1. /\ Len(chain) \in Nat /\ Len(chain') = Len(chain) + 1
        /\ \A i \in 1..Len(chain) : chain'[i] = chain[i]
        /\ chain'[Len(chain) + 1] = n
    BY <1>1, AppendProperties DEF FifoInv, FifoTypeOK
  <2>2. \A i \in 1..Len(chain') : i \in 1..Len(chain) \/ i = Len(chain) + 1
    BY <2>1
  <2> QED  BY <2>1, <2>2 DEF Elems
<1> QED  BY <1>1, <1>2 DEF Leaked

LEMMA PopLeak == FifoInv /\ PacketFifoPop => Leaked' = Leaked
<1> SUFFICES ASSUME FifoInv, PacketFifoPop PROVE Leaked' = Leaked
  OBVIOUS
<1>1. chain \in Seq(Node) /\ chain # <<>> /\ Len(chain) \in Nat \ {0}
  BY EmptySeq DEF PacketFifoPop, FifoInv, FifoTypeOK, WellLinked, FixedHeader
<1>2. /\ FixedHeader = chain[1] /\ chain[1] \in live
      /\ live' = live \ {chain[1]}
  <2>1. agent /\ FixedHeader # NULL /\ live' = live \ {FixedHeader}
    BY DEF PacketFifoPop
  <2>2. header = chain[1] \/ (header = NULL /\ tail = chain[1])
    BY <2>1, <1>1 DEF FifoInv, WellLinked, HeaderOK
  <2>3. chain[1] \in live /\ chain[1] # NULL
    BY <1>1, NullAssumption DEF FifoInv, FifoTypeOK, QueuedAreAllocated
  <2> QED  BY <2>1, <2>2, <2>3 DEF FixedHeader
<1>3. /\ Len(chain') = Len(chain) - 1
      /\ \A i \in 1..(Len(chain) - 1) : chain'[i] = chain[i+1]
  BY <1>1, HeadTailProperties DEF PacketFifoPop
<1>4. Elems(chain') = Elems(chain) \ {chain[1]}
  <2>1. \A i \in 2..Len(chain) : chain[i] # chain[1] /\ chain[i] = chain'[i-1]
    BY <1>1, <1>3 DEF FifoInv, QueuedAreAllocated
  <2>2. \A i \in 1..Len(chain) : i = 1 \/ (i \in 2..Len(chain) /\ i-1 \in 1..Len(chain'))
    BY <1>1, <1>3
  <2>3. \A i \in 1..Len(chain') : i+1 \in 2..Len(chain) /\ chain'[i] = chain[i+1]
    BY <1>1, <1>3
  <2>4. Elems(chain) \ {chain[1]} \subseteq Elems(chain')
    BY <2>1, <2>2 DEF Elems
  <2>5. Elems(chain') \subseteq Elems(chain) \ {chain[1]}
    BY <2>1, <2>3, <1>1 DEF Elems
  <2> QED  BY <2>4, <2>5
<1>5. chain[1] \in Elems(chain)
  BY <1>1 DEF Elems
<1> QED  BY <1>2, <1>4, <1>5 DEF Leaked

(***************************************************************************)
(* Memory accounting: the only node any sequence of operations loses is    *)
(* the node of a FIFO that holds a single packet no reader has looked at,  *)
(* when it is cleared or released.                                         *)
(***************************************************************************)
THEOREM LeakIsBounded == FifoSpec => LeaksOnlyAnUnseenSingleton
<1>1. FifoInv /\ [FifoNext]_fifoVars => [LeakStep]_fifoVars
  <2> SUFFICES ASSUME FifoInv, FifoNext PROVE LeakStep
    BY DEF LeakStep
  <2>1. CASE CreateFifoAgent
    BY <2>1 DEF CreateFifoAgent, heapVars, LeakStep, Leaked
  <2>2. ASSUME NEW p \in Packet, PacketFifoPush(p) PROVE LeakStep
    BY <2>2, PushLeak DEF LeakStep
  <2>3. CASE PacketFifoFront
    BY <2>3 DEF PacketFifoFront, heapVars, LeakStep, Leaked
  <2>4. CASE PacketFifoPop
    BY <2>4, PopLeak DEF LeakStep
  <2>5. CASE CleanPacketFifo
    BY <2>5, FreeWalkedLeak DEF CleanPacketFifo
  <2>6. CASE ReleaseFifoAgent
    BY <2>6, FreeWalkedLeak DEF ReleaseFifoAgent
  <2> QED  BY <2>1, <2>2, <2>3, <2>4, <2>5, <2>6 DEF FifoNext
<1> QED  BY <1>1, Invariance, PTL DEF FifoSpec, LeaksOnlyAnUnseenSingleton, LeakStep
-----------------------------------------------------------------------------
(***************************************************************************)
(* Refinement.  Queue, the packets of the nodes in list order, is a        *)
(* sequence of packets as long as the list.                                *)
(***************************************************************************)
LEMMA QueueIsSeq ==
  FifoInv => /\ Len(chain) \in Nat
             /\ Queue \in Seq(Packet) /\ Len(Queue) = Len(chain)
             /\ \A i \in 1..Len(chain) : Queue[i] = packet[chain[i]]
<1> SUFFICES ASSUME FifoInv
             PROVE  /\ Len(chain) \in Nat
                    /\ Queue \in Seq(Packet) /\ Len(Queue) = Len(chain)
                    /\ \A i \in 1..Len(chain) : Queue[i] = packet[chain[i]]
  OBVIOUS
<1>1. Len(chain) \in Nat
  BY DEF FifoInv, FifoTypeOK
<1>2. \A i \in 1..Len(chain) : packet[chain[i]] \in Packet
  BY DEF FifoInv, QueuedAreAllocated
<1> QED  BY <1>1, <1>2 DEF Queue

LEMMA EmptyQueue == chain = <<>> => Queue = <<>>
BY EmptySeq DEF Queue

LEMMA PushRefines ==
  ASSUME FifoInv, NEW p \in Packet, PacketFifoPush(p)
  PROVE  Fifo!AFPush(p)
<1>1. PICK n \in Node \ live :
        packet' = [packet EXCEPT ![n] = p] /\ chain' = Append(chain, n)
  BY DEF PacketFifoPush
<1> DEFINE L == Len(chain)
<1>2. /\ L \in Nat /\ Len(chain') = L + 1
      /\ \A i \in 1..L : chain'[i] = chain[i] /\ chain[i] \in Node /\ chain[i] # n
      /\ chain'[L + 1] = n
  BY <1>1, AppendProperties DEF FifoInv, FifoTypeOK, QueuedAreAllocated
<1>3. /\ packet'[n] = p
      /\ \A i \in 1..L : packet'[chain'[i]] = packet[chain[i]]
  BY <1>1, <1>2 DEF FifoInv, FifoTypeOK
<1>4. /\ Queue \in Seq(Packet) /\ Len(Queue) = L
      /\ \A i \in 1..L : Queue[i] = packet[chain[i]]
  BY QueueIsSeq
<1>5. Queue' = [i \in 1..(L+1) |-> packet'[chain'[i]]]
  BY <1>2 DEF Queue
<1>6. Queue' = Append(Queue, p)
  <2>1. Queue' \in Seq(Packet) /\ Len(Queue') = L + 1
    <3>1. \A i \in 1..(L+1) : packet'[chain'[i]] \in Packet
      <4>1. \A i \in 1..L : packet[chain[i]] \in Packet
        BY DEF FifoInv, QueuedAreAllocated
      <4> QED  BY <4>1, <1>2, <1>3
    <3> QED  BY <3>1, <1>2, <1>5
  <2>2. /\ Append(Queue, p) \in Seq(Packet) /\ Len(Append(Queue, p)) = L + 1
        /\ \A i \in 1..L : Append(Queue, p)[i] = Queue[i]
        /\ Append(Queue, p)[L + 1] = p
    BY <1>4, AppendProperties
  <2>3. \A i \in 1..(L+1) : Queue'[i] = Append(Queue, p)[i]
    <3>1. \A i \in 1..L : Queue'[i] = Append(Queue, p)[i]
      BY <1>2, <1>3, <1>4, <1>5, <2>2
    <3>2. Queue'[L+1] = Append(Queue, p)[L+1]
      BY <1>2, <1>3, <1>5, <2>2
    <3>3. \A i \in 1..(L+1) : i \in 1..L \/ i = L + 1
      BY <1>2
    <3> HIDE DEF L
    <3> QED  BY <3>1, <3>2, <3>3
  <2> QED  BY <2>1, <2>2, <2>3, SeqEqual
<1> QED  BY <1>6 DEF Fifo!AFPush, PacketFifoPush

LEMMA FrontRefines == FifoInv /\ PacketFifoFront => Fifo!AFFront
<1> SUFFICES ASSUME FifoInv, PacketFifoFront PROVE Fifo!AFFront
  OBVIOUS
<1>1. Queue' = Queue
  BY DEF PacketFifoFront, heapVars, Queue
<1>2. CASE chain = <<>>
  <2>1. header' = NULL /\ answer' = NULL
    BY <1>2 DEF PacketFifoFront, FixedHeader, FifoInv, WellLinked
  <2> QED  BY <2>1, <1>1, <1>2, EmptyQueue DEF Fifo!AFFront
<1>3. CASE chain # <<>>
  <2>1. Len(chain) \in Nat \ {0}
    BY <1>3, EmptySeq DEF FifoInv, FifoTypeOK
  <2>2. chain[1] # NULL
    BY <2>1, NullAssumption DEF FifoInv, FifoTypeOK
  <2>3. header = chain[1] \/ (header = NULL /\ tail = chain[1])
    BY <1>3, <2>1 DEF FifoInv, WellLinked, HeaderOK, PacketFifoFront
  <2>4. answer' = packet[chain[1]]
    BY <2>2, <2>3 DEF PacketFifoFront, FixedHeader
  <2>5. Queue # <<>> /\ Head(Queue) = packet[chain[1]]
    BY <2>1, QueueIsSeq
  <2> QED  BY <2>4, <2>5, <1>1 DEF Fifo!AFFront
<1> QED  BY <1>2, <1>3

LEMMA PopRefines == FifoInv /\ PacketFifoPop => Fifo!AFPop
<1> SUFFICES ASSUME FifoInv, PacketFifoPop PROVE Fifo!AFPop
  OBVIOUS
<1> DEFINE L == Len(chain)
<1>1. chain \in Seq(Node) /\ chain # <<>> /\ L \in Nat \ {0}
  BY EmptySeq DEF PacketFifoPop, FifoInv, FifoTypeOK, WellLinked, FixedHeader
<1>2. /\ Len(chain') = L - 1
      /\ \A i \in 1..(L - 1) : chain'[i] = chain[i+1]
      /\ packet' = packet /\ answer' = answer
  BY <1>1, HeadTailProperties DEF PacketFifoPop
<1>3. /\ Queue \in Seq(Packet) /\ Len(Queue) = L
      /\ \A i \in 1..L : Queue[i] = packet[chain[i]]
  BY QueueIsSeq
<1>4. Queue' = [i \in 1..(L-1) |-> packet[chain[i+1]]]
  BY <1>1, <1>2 DEF Queue
<1>5. Queue # <<>> /\ Queue' = Tail(Queue)
  <2>1. Queue # <<>>
    BY <1>1, <1>3
  <2>2. /\ Tail(Queue) \in Seq(Packet) /\ Len(Tail(Queue)) = L - 1
        /\ \A i \in 1..(L-1) : Tail(Queue)[i] = Queue[i+1]
    BY <2>1, <1>3, HeadTailProperties
  <2>3. Queue' \in Seq(Packet) /\ Len(Queue') = L - 1
    <3>1. \A i \in 1..(L-1) : packet[chain[i+1]] \in Packet
      BY <1>1 DEF FifoInv, QueuedAreAllocated
    <3> QED  BY <3>1, <1>1, <1>4
  <2>4. \A i \in 1..(L-1) : Queue'[i] = Tail(Queue)[i]
    BY <2>2, <1>1, <1>3, <1>4
  <2> QED  BY <2>1, <2>2, <2>3, <2>4, SeqEqual
<1> QED  BY <1>2, <1>5 DEF Fifo!AFPop

LEMMA EmptyingRefines ==
  ASSUME FifoInv, FreeWalked
  PROVE  Fifo!AFClear
<1>1. Queue' = <<>>
  BY EmptySeq DEF FreeWalked, Queue
<1> QED  BY <1>1 DEF FreeWalked, Fifo!AFClear

(***************************************************************************)
(* The linked list implements the abstract FIFO: packets leave in the      *)
(* order they were pushed, and front answers the oldest packet, or NULL    *)
(* exactly when nothing is queued.                                         *)
(***************************************************************************)
THEOREM FifoRefinement == FifoSpec => ImplementsFifo
<1>1. FifoInit => Fifo!AFInit
  BY EmptyQueue DEF FifoInit, Fifo!AFInit
<1>2. FifoInv /\ [FifoNext]_fifoVars => [Fifo!AFNext]_<<Queue, answer>>
  <2> SUFFICES ASSUME FifoInv, [FifoNext]_fifoVars
               PROVE  [Fifo!AFNext]_<<Queue, answer>>
    OBVIOUS
  <2>1. CASE UNCHANGED fifoVars
    BY <2>1 DEF fifoVars, Queue
  <2>2. CASE CreateFifoAgent
    BY <2>2 DEF CreateFifoAgent, heapVars, Queue
  <2>3. ASSUME NEW p \in Packet, PacketFifoPush(p) PROVE Fifo!AFNext
    BY <2>3, PushRefines DEF Fifo!AFNext
  <2>4. CASE PacketFifoFront
    BY <2>4, FrontRefines DEF Fifo!AFNext
  <2>5. CASE PacketFifoPop
    BY <2>5, PopRefines DEF Fifo!AFNext
  <2>6. CASE CleanPacketFifo
    BY <2>6, EmptyingRefines DEF CleanPacketFifo, Fifo!AFNext
  <2>7. CASE ReleaseFifoAgent
    BY <2>7, EmptyingRefines DEF ReleaseFifoAgent, Fifo!AFNext
  <2> QED  BY <2>1, <2>2, <2>3, <2>4, <2>5, <2>6, <2>7 DEF FifoNext
<1> QED  BY <1>1, <1>2, Invariance, PTL DEF FifoSpec, ImplementsFifo, Fifo!AFSpec
=============================================================================

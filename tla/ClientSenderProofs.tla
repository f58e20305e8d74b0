------------------------- MODULE ClientSenderProofs -------------------------
(***************************************************************************)
(* Proofs about ClientSender.tla, for every set of packets, every limit of *)
(* the FIFO and any number of resets and outages.                          *)
(*                                                                         *)
(* FifoInv, proved operation by operation in PacketFifoProofs, says what   *)
(* the list is; the parts below say what the sender's pointer is worth     *)
(* while the FIFO's lock is not held.  Most steps touch neither the FIFO   *)
(* nor that pointer: QuietSender and its fellows collect them, and one     *)
(* lemma each says all that the invariants need to know about them.        *)
(***************************************************************************)
EXTENDS ClientSender, PacketFifoProofs, FiniteSetTheorems

(* the controller stops a client nobody feeds and frees it after the join *)
Threads ==
    /\ controller # "stopped" => agent
    /\ controller = "stopped" => sender = "exited" /\ feeder = "idle"
    /\ feeder # "idle" => controller = "running"
    /\ feeder \in {"clear", "flags", "close"} => resets > 0

(***************************************************************************)
(* What the sender's pointer is worth: the head of the list, whose header  *)
(* front has repaired, or a packet that a reset freed, and that reset has  *)
(* either closed the socket or is about to.                                *)
(***************************************************************************)
HeldOK ==
    Holding =>
      /\ held \in Packet
      /\ IF held \in freed
         THEN resets > 0 /\ (socket = "open" => feeder \in {"flags", "close"})
         ELSE chain # <<>> /\ header = chain[1] /\ held = packet[chain[1]]
      /\ sender = "drop" => held \in Inter /\ (held \notin freed => size > FifoLimit)
      /\ sender = "pop" => held \in Elems(sent)

SafeInv == FifoInv /\ TypeOK /\ Threads /\ HeldOK

QuietSender == \/ Run \/ ConnectStreamSocket \/ ConnectStreamPublish
               \/ ClearFlags \/ While \/ Look \/ SendMeta \/ SendSps
               \/ SendPacketFails \/ Reconnect \/ Close
QuietFeeder == \/ SetMetaData \/ SetMetaDataEnd \/ \E p \in Packet : SendData(p)
               \/ StoreSps \/ BeforeSendData \/ ResetFlags \/ ResetClose
QuietRest == StopRunning \/ StopPlaying \/ NetworkFails \/ NetworkHeals \/ UNCHANGED vars

SenderStates == {"run", "connect", "publish", "flags", "while", "front", "look",
                 "drop", "meta", "sps", "send", "reconnect", "pop", "close", "exited"}

(***************************************************************************)
(* Every step is quiet or one of seven.                                    *)
(***************************************************************************)
LEMMA StepsSorted ==
  [Next]_vars => \/ QuietSender \/ QuietFeeder \/ QuietRest
                 \/ Front \/ Drop \/ SendPacketOk \/ PopSent
                 \/ Push \/ ResetClear \/ StopRelease
BY DEF Next, SenderStep, FeederStep, ControllerStep, Stopped,
       QuietSender, QuietFeeder, QuietRest

(***************************************************************************)
(* What a quiet step of the sender may do: it takes up no packet, it goes  *)
(* to the drop only as Look says, and while it holds a packet it leaves    *)
(* the socket alone.                                                       *)
(***************************************************************************)
QuietSenderFacts ==
    /\ UNCHANGED <<fifoVars, held, runThread, feederVars, controller, net,
                   outages, logVars>>
    /\ sender' \in SenderStates
    /\ {bPlaying', timedout', hasSendMeta', hasSendSps', published'} \subseteq BOOLEAN
    /\ socket' \in {"open", "closed", "stale"}
    /\ onWire' \subseteq {"meta", "sps"}
    /\ sender \notin {"exited", "pop"}
    /\ sender' = "exited" => ~Holding
    /\ Holding' => Holding /\ sender' # "pop" /\ socket' = socket
    /\ sender' = "drop" => held \in Inter /\ size > FifoLimit

LEMMA QuietSenderLemma ==
  ASSUME TypeOK, QuietSender
  PROVE  QuietSenderFacts
<1> USE DEF TypeOK, SenderAt, Holding, SenderStates, connVars, flagVars, logVars,
            feederVars, inputVars, fifoVars, heapVars, RtmpClose, ConnectSocket,
            SendWorks, SendFails, QuietSenderFacts
<1>1. CASE Run
  BY <1>1 DEF Run
<1>2. CASE ConnectStreamSocket
  BY <1>2 DEF ConnectStreamSocket
<1>3. CASE ConnectStreamPublish
  BY <1>3 DEF ConnectStreamPublish
<1>4. CASE ClearFlags
  BY <1>4 DEF ClearFlags
<1>5. CASE While
  BY <1>5 DEF While
<1>6. CASE Look
  BY <1>6 DEF Look
<1>7. CASE SendMeta
  BY <1>7 DEF SendMeta
<1>8. CASE SendSps
  BY <1>8 DEF SendSps
<1>9. CASE SendPacketFails
  BY <1>9 DEF SendPacketFails
<1>10. CASE Reconnect
  BY <1>10 DEF Reconnect
<1>11. CASE Close
  BY <1>11 DEF Close
<1> QED  BY <1>1, <1>2, <1>3, <1>4, <1>5, <1>6, <1>7, <1>8, <1>9, <1>10, <1>11
            DEF QuietSender

(***************************************************************************)
(* What a quiet step of the feeder may do: only beforeSendData counts a    *)
(* reset, and the feeder leaves "flags" and "close", where it is on its    *)
(* way to close the socket, only with the socket closed.                   *)
(***************************************************************************)
QuietFeederFacts ==
    /\ UNCHANGED <<fifoVars, held, sender, runThread, timedout, pushed, controller,
                   net, outages, logVars>>
    /\ {bPlaying', hasSendMeta', hasSendSps', published', metaData', spsData'}
          \subseteq BOOLEAN
    /\ socket' \in {"open", "closed", "stale"} /\ onWire' \subseteq {"meta", "sps"}
    /\ feeder' \in {"idle", "metadata", "sps", "push", "clear", "flags", "close"}
    /\ feeding' \in Packet \cup {NULL}
    /\ controller = "running" \/ feeder # "idle"
    /\ feeder # "clear"
    /\ \/ resets' = resets /\ feeder' # "clear"
       \/ resets' = resets + 1 /\ resets < MaxResets
    /\ feeder' \in {"flags", "close"} => feeder \in {"flags", "close"}
    /\ feeder \in {"flags", "close"} /\ socket' = "open" => feeder' = "close"
    /\ socket' = "open" => socket = "open"
    /\ feeder' = "clear" => resets' = resets + 1

LEMMA QuietFeederLemma ==
  ASSUME TypeOK, QuietFeeder
  PROVE  QuietFeederFacts
<1> USE DEF TypeOK, FeederAt, FeederCalls, connVars, flagVars, logVars, inputVars,
            fifoVars, heapVars, RtmpClose, QuietFeederFacts
<1>1. CASE SetMetaData
  BY <1>1 DEF SetMetaData
<1>2. CASE SetMetaDataEnd
  BY <1>2 DEF SetMetaDataEnd
<1>3. ASSUME NEW p \in Packet, SendData(p) PROVE QuietFeederFacts
  BY <1>3 DEF SendData
<1>4. CASE StoreSps
  BY <1>4 DEF StoreSps
<1>5. CASE BeforeSendData
  BY <1>5 DEF BeforeSendData
<1>6. CASE ResetFlags
  BY <1>6 DEF ResetFlags
<1>7. CASE ResetClose
  BY <1>7 DEF ResetClose
<1> QED  BY <1>1, <1>2, <1>3, <1>4, <1>5, <1>6, <1>7 DEF QuietFeeder

(***************************************************************************)
(* The controller's and the network's quiet steps touch neither packets    *)
(* nor the socket, and the controller begins only when nobody feeds.       *)
(***************************************************************************)
QuietRestFacts ==
    /\ UNCHANGED <<fifoVars, held, sender, socket, timedout, published, onWire,
                   flagVars, feederVars, logVars>>
    /\ {runThread', bPlaying', net'} \subseteq BOOLEAN
    /\ outages' \in 0..MaxOutages
    /\ controller' \in {"running", "stopping", "join", "stopped"}
    /\ controller' = controller \/ (controller \notin {"join", "stopped"}
                                    /\ controller' # "stopped"
                                    /\ (controller = "running" => feeder = "idle")
                                    /\ controller' # "running")

LEMMA QuietRestLemma ==
  ASSUME TypeOK, QuietRest
  PROVE  QuietRestFacts
<1> USE DEF TypeOK, ControllerAt, connVars, flagVars, logVars, inputVars, feederVars,
            fifoVars, heapVars, QuietRestFacts
<1>1. CASE StopRunning
  BY <1>1 DEF StopRunning
<1>2. CASE StopPlaying
  BY <1>2 DEF StopPlaying
<1>3. CASE NetworkFails
  <2>1. outages < MaxOutages /\ outages' = outages + 1
    BY <1>3 DEF NetworkFails
  <2>2. MaxOutages \in Nat /\ outages \in 0..MaxOutages
    BY ClientAssumption
  <2>3. outages' \in 0..MaxOutages
    BY <2>1, <2>2
  <2> QED  BY <2>3, <1>3 DEF NetworkFails
<1>4. CASE NetworkHeals
  BY <1>4 DEF NetworkHeals
<1>5. CASE UNCHANGED vars
  BY <1>5 DEF vars, clientVars
<1> QED  BY <1>1, <1>2, <1>3, <1>4, <1>5 DEF QuietRest
-----------------------------------------------------------------------------
(* What the FIFO's operations do to the packets in it. *)

LEMMA ElemsOfAppend ==
  ASSUME NEW T, NEW s \in Seq(T), NEW x \in T
  PROVE  Elems(Append(s, x)) = Elems(s) \cup {x}
<1>1. /\ Len(s) \in Nat /\ Len(Append(s, x)) = Len(s) + 1
      /\ \A i \in 1..Len(s) : Append(s, x)[i] = s[i]
      /\ Append(s, x)[Len(s) + 1] = x
  BY AppendProperties
<1>2. \A i \in 1..(Len(s) + 1) : i \in 1..Len(s) \/ i = Len(s) + 1
  BY <1>1
<1>3. Elems(Append(s, x)) = {Append(s, x)[i] : i \in 1..(Len(s) + 1)}
  BY <1>1 DEF Elems
<1> QED  BY <1>1, <1>2, <1>3 DEF Elems

LEMMA HeadOfQueue ==
  ASSUME FifoInv, chain # <<>>
  PROVE  /\ Len(chain) \in Nat \ {0} /\ chain[1] \in live
         /\ Queue # <<>> /\ Head(Queue) = packet[chain[1]]
         /\ packet[chain[1]] \in Packet \ freed
         /\ packet[chain[1]] \in Queued
<1>1. Len(chain) \in Nat \ {0} /\ chain[1] \in live
  BY EmptySeq DEF FifoInv, FifoTypeOK, QueuedAreAllocated
<1>2. Queue # <<>> /\ Head(Queue) = packet[chain[1]]
  BY <1>1, QueueIsSeq
<1> QED  BY <1>1, <1>2 DEF FifoInv, QueuedAreAllocated, Queued

(***************************************************************************)
(* popFifo removes the oldest packet and frees that one only, or finds     *)
(* nothing to remove.                                                      *)
(***************************************************************************)
LEMMA PopEffect ==
  ASSUME FifoInv, agent, Pop
  PROVE  /\ FifoInv' /\ agent'
         /\ \/ chain = <<>> /\ UNCHANGED fifoVars /\ Popped = {}
            \/ /\ chain # <<>>
               /\ Popped = {packet[chain[1]]}
               /\ Queued = Queued' \cup {packet[chain[1]]}
               /\ Len(chain') = Len(chain) - 1
               /\ Queue' = Tail(Queue)
<1>1. CASE FixedHeader = NULL
  <2>1. UNCHANGED fifoVars
    BY <1>1 DEF Pop
  <2>2. chain = <<>>
    <3>1. SUFFICES ASSUME chain # <<>> PROVE FALSE
      OBVIOUS
    <3>2. tail = chain[Len(chain)] /\ chain[Len(chain)] \in Node
      BY <3>1, HeadOfQueue DEF FifoInv, FifoTypeOK, WellLinked
    <3> QED  BY <3>2, <1>1, NullAssumption DEF FixedHeader
  <2>3. FifoInv' /\ agent' /\ Popped = {}
    BY <2>1, StutterInv DEF fifoVars, Popped
  <2> QED  BY <2>1, <2>2, <2>3
<1>2. CASE FixedHeader # NULL
  <2>1. PacketFifoPop
    BY <1>2 DEF Pop
  <2>2. FifoInv' /\ agent'
    BY <2>1, PopInv DEF PacketFifoPop
  <2>3. chain # <<>>
    BY <1>2 DEF FifoInv, WellLinked, FixedHeader
  <2>4. Queue' = Tail(Queue)
    BY <2>1, PopRefines DEF Fifo!AFPop
  <2>5. /\ chain \in Seq(Node) /\ Len(chain) \in Nat \ {0}
        /\ Len(chain') = Len(chain) - 1
        /\ \A i \in 1..(Len(chain) - 1) : chain'[i] = chain[i+1]
        /\ packet' = packet
    BY <2>1, <2>3, HeadOfQueue, HeadTailProperties DEF PacketFifoPop, FifoInv, FifoTypeOK
  <2>6. FixedHeader = chain[1]
    <3>1. \/ header = chain[1]
          \/ header = NULL /\ tail = chain[1]
      BY <2>3, <2>5 DEF FifoInv, WellLinked, HeaderOK
    <3>2. chain[1] # NULL
      BY <2>5, NullAssumption DEF FifoInv, FifoTypeOK
    <3> QED  BY <3>1, <3>2 DEF FixedHeader
  <2>7. Popped = {packet[chain[1]]}
    <3>1. freed' = freed \cup {packet[chain[1]]}
      BY <2>1, <2>6 DEF PacketFifoPop
    <3> QED  BY <3>1, <2>3, HeadOfQueue DEF Popped
  <2>8. Queued = Queued' \cup {packet[chain[1]]}
    <3>1. Queued' = {packet[chain[i+1]] : i \in 1..(Len(chain) - 1)}
      BY <2>5 DEF Queued
    <3>2. \A i \in 1..Len(chain) : i = 1 \/ (i-1 \in 1..(Len(chain) - 1) /\ (i-1)+1 = i)
      BY <2>5
    <3>3. \A i \in 1..(Len(chain) - 1) : i+1 \in 1..Len(chain)
      BY <2>5
    <3>4. 1 \in 1..Len(chain)
      BY <2>5
    <3>5. Queued' \cup {packet[chain[1]]} \subseteq Queued
      BY <3>1, <3>3, <3>4 DEF Queued
    <3>6. ASSUME NEW i \in 1..Len(chain), i # 1
          PROVE  packet[chain[i]] \in Queued'
      <4>1. i-1 \in 1..(Len(chain) - 1) /\ (i-1)+1 = i
        BY <3>2, <3>6
      <4> QED  BY <4>1, <3>1
    <3>7. Queued \subseteq Queued' \cup {packet[chain[1]]}
      BY <3>6 DEF Queued
    <3> QED  BY <3>5, <3>7
  <2> QED  BY <2>2, <2>3, <2>4, <2>5, <2>7, <2>8
<1> QED  BY <1>1, <1>2

(***************************************************************************)
(* pushFifo adds the packet at the end; the head, once its header is       *)
(* repaired, stays where it is.                                            *)
(***************************************************************************)
LEMMA PushEffect ==
  ASSUME FifoInv, NEW p \in Packet, PacketFifoPush(p)
  PROVE  /\ FifoInv' /\ agent' /\ freed' = freed /\ size' = size + 1
         /\ Queued' = Queued \cup {p}
         /\ chain \in Seq(Node) /\ Len(chain) \in Nat /\ Len(chain') = Len(chain) + 1
         /\ Queue' = Append(Queue, p)
         /\ p \notin freed
         /\ chain # <<>> /\ header = chain[1] =>
              /\ chain' # <<>> /\ header' = chain'[1]
              /\ packet'[chain'[1]] = packet[chain[1]]
<1>1. PICK n \in Node \ live :
        /\ LinkLast(n)
        /\ packet' = [packet EXCEPT ![n] = p]
        /\ chain' = Append(chain, n)
  BY DEF PacketFifoPush
<1>2. /\ FifoInv' /\ agent' /\ freed' = freed /\ size' = size + 1 /\ p \notin freed
  BY PushInv DEF PacketFifoPush, Owned
<1>3. Queue' = Append(Queue, p)
  BY PushRefines DEF Fifo!AFPush
<1>4. /\ chain \in Seq(Node) /\ Len(chain) \in Nat /\ Len(chain') = Len(chain) + 1
      /\ \A i \in 1..Len(chain) : chain'[i] = chain[i] /\ chain[i] \in Node /\ chain[i] # n
      /\ chain'[Len(chain) + 1] = n
  BY <1>1, AppendProperties DEF FifoInv, FifoTypeOK, QueuedAreAllocated
<1>5. /\ packet'[n] = p
      /\ \A i \in 1..Len(chain) : packet'[chain'[i]] = packet[chain[i]]
  BY <1>1, <1>4 DEF FifoInv, FifoTypeOK
<1>6. Queued' = Queued \cup {p}
  <2>1. \A i \in 1..Len(chain') : i \in 1..Len(chain) \/ i = Len(chain) + 1
    BY <1>4
  <2>2. \A i \in 1..Len(chain) : i \in 1..Len(chain')
    BY <1>4
  <2>3. Len(chain) + 1 \in 1..Len(chain')
    BY <1>4
  <2>4. Queued' \subseteq Queued \cup {p}
    BY <2>1, <1>4, <1>5 DEF Queued
  <2>5. Queued \subseteq Queued'
    BY <2>2, <1>5 DEF Queued
  <2>6. p \in Queued'
    BY <2>3, <1>4, <1>5 DEF Queued
  <2> QED  BY <2>4, <2>5, <2>6
<1>7. ASSUME chain # <<>>, header = chain[1]
      PROVE  /\ chain' # <<>> /\ header' = chain'[1]
             /\ packet'[chain'[1]] = packet[chain[1]]
  <2>1. 1 \in 1..Len(chain) /\ chain[1] # NULL
    BY <1>7, <1>4, HeadOfQueue, NullAssumption
  <2>2. tail # NULL
    BY <1>7, HeadOfQueue, <1>4, NullAssumption DEF FifoInv, WellLinked, PacketFifoPush
  <2>3. header' = chain[1]
    BY <1>7, <2>1, <2>2, <1>1 DEF LinkLast, FixedHeader
  <2>4. chain' # <<>>
    BY <1>4, <1>2, EmptySeq DEF FifoInv, FifoTypeOK
  <2> QED  BY <2>1, <2>3, <2>4, <1>4, <1>5
<1> QED  BY <1>2, <1>3, <1>4, <1>6, <1>7

(***************************************************************************)
(* frontFifo answers the packet of the first node and repairs the header,  *)
(* or answers NULL.                                                        *)
(***************************************************************************)
LEMMA FrontEffect ==
  ASSUME FifoInv, PacketFifoFront
  PROVE  /\ FifoInv' /\ UNCHANGED <<agent, freed, chain, packet, size, live>>
         /\ Queue' = Queue /\ Queued' = Queued
         /\ \/ answer' = NULL
            \/ chain # <<>> /\ header' = chain[1] /\ answer' = packet[chain[1]]
<1>1. FifoInv' /\ UNCHANGED <<agent, freed, chain, packet, size, live>>
      /\ header' = FixedHeader
      /\ answer' = IF header' = NULL THEN NULL ELSE packet[header']
  BY FrontInv DEF PacketFifoFront, heapVars
<1>2. Queue' = Queue /\ Queued' = Queued
  BY <1>1 DEF Queue, Queued
<1>3. ASSUME answer' # NULL
      PROVE  chain # <<>> /\ header' = chain[1] /\ answer' = packet[chain[1]]
  <2>1. header' # NULL /\ agent'
    BY <1>1, <1>3 DEF PacketFifoFront
  <2>2. chain # <<>> /\ header' = chain[1]
    BY <2>1, <1>1 DEF FifoInv, WellLinked, HeaderOK
  <2> QED  BY <2>1, <2>2, <1>1
<1> QED  BY <1>1, <1>2, <1>3

(***************************************************************************)
(* clearFifo frees the packet the sender points to: front repaired the     *)
(* header before it returned that pointer, so the walk is complete.        *)
(***************************************************************************)
LEMMA CleanEffect ==
  ASSUME FifoInv, CleanPacketFifo
  PROVE  /\ FifoInv' /\ agent' /\ chain' = <<>> /\ Queue' = <<>> /\ freed \subseteq freed'
         /\ chain # <<>> /\ header = chain[1] => packet[chain[1]] \in freed'
<1>1. FifoInv' /\ agent /\ agent' /\ FreeWalked
  BY CleanInv DEF CleanPacketFifo
<1>2. chain' = <<>> /\ freed' = freed \cup {packet[n] : n \in Walked}
  BY <1>1 DEF FreeWalked
<1>3. Queue' = <<>>
  BY <1>2, EmptySeq DEF Queue
<1>4. ASSUME chain # <<>>, header = chain[1]
      PROVE  packet[chain[1]] \in freed'
  <2>1. chain[1] \in Elems(chain) /\ header # NULL
    BY <1>4, HeadOfQueue, NullAssumption DEF Elems, FifoInv, FifoTypeOK
  <2>2. Walked = Elems(chain)
    BY <2>1, <1>1, WalkMeetsTheChain
  <2> QED  BY <2>1, <2>2, <1>2
<1> QED  BY <1>1, <1>2, <1>3, <1>4
-----------------------------------------------------------------------------
(* The sender's pointer *)

LEMMA InitSafe == Init => SafeInv
<1> SUFFICES ASSUME Init PROVE SafeInv
  OBVIOUS
<1>1. FifoInv
  <2>1. chain = <<>> /\ chain \in Seq(Node) /\ Len(chain) = 0
    BY EmptySeq DEF Init
  <2>2. FifoTypeOK
    BY <2>1 DEF Init, FifoTypeOK
  <2> QED  BY <2>1, <2>2 DEF Init, FifoInv, WellLinked, QueuedAreAllocated
<1>2. TypeOK
  <2>1. pushed \in Seq(Packet) /\ sent \in Seq(Packet)
    BY EmptySeq DEF Init
  <2>2. resets \in 0..MaxResets /\ outages \in 0..MaxOutages
    BY ClientAssumption DEF Init
  <2> QED  BY <1>1, <2>1, <2>2 DEF Init, TypeOK, FifoInv
<1> QED  BY <1>1, <1>2 DEF Init, SafeInv, Threads, HeldOK, Holding

LEMMA QuietSafe ==
  ASSUME SafeInv, QuietSender \/ QuietFeeder \/ QuietRest
  PROVE  SafeInv'
<1>1. TypeOK /\ FifoInv /\ Threads /\ HeldOK
  BY DEF SafeInv
<1>2. CASE QuietSender
  <2>1. QuietSenderFacts
    BY <1>1, <1>2, QuietSenderLemma
  <2>2. FifoInv'
    BY <2>1, <1>1, StutterInv DEF QuietSenderFacts
  <2>3. TypeOK'
    BY <2>1, <2>2, <1>1
       DEF TypeOK, FifoInv, QuietSenderFacts, SenderStates, feederVars, logVars
  <2>4. Threads'
    BY <2>1, <1>1 DEF QuietSenderFacts, Threads, feederVars, fifoVars
  <2>5. HeldOK'
    BY <2>1, <1>1 DEF QuietSenderFacts, HeldOK, feederVars, fifoVars
  <2> QED  BY <2>2, <2>3, <2>4, <2>5 DEF SafeInv
<1>3. CASE QuietFeeder
  <2>1. QuietFeederFacts
    BY <1>1, <1>3, QuietFeederLemma
  <2>2. FifoInv'
    BY <2>1, <1>1, StutterInv DEF QuietFeederFacts
  <2>3. resets \in Nat /\ resets' \in 0..MaxResets
        /\ (resets > 0 => resets' > 0) /\ (feeder' = "clear" => resets' > 0)
    BY <2>1, <1>1, ClientAssumption DEF QuietFeederFacts, TypeOK
  <2>4. TypeOK'
    BY <2>1, <2>2, <2>3, <1>1 DEF TypeOK, FifoInv, QuietFeederFacts, logVars
  <2>5. Threads'
    BY <2>1, <2>3, <1>1 DEF QuietFeederFacts, Threads, fifoVars
  <2>6. HeldOK'
    BY <2>1, <2>3, <1>1 DEF QuietFeederFacts, HeldOK, Holding, logVars, fifoVars
  <2> QED  BY <2>2, <2>4, <2>5, <2>6 DEF SafeInv
<1>4. CASE QuietRest
  <2>1. QuietRestFacts
    BY <1>1, <1>4, QuietRestLemma
  <2>2. FifoInv'
    BY <2>1, <1>1, StutterInv DEF QuietRestFacts
  <2>3. TypeOK'
    BY <2>1, <2>2, <1>1
       DEF TypeOK, FifoInv, QuietRestFacts, feederVars, logVars, flagVars
  <2>4. Threads'
    BY <2>1, <1>1 DEF QuietRestFacts, Threads, feederVars, fifoVars
  <2>5. HeldOK'
    BY <2>1, <1>1 DEF QuietRestFacts, HeldOK, Holding, feederVars, logVars, fifoVars
  <2> QED  BY <2>2, <2>3, <2>4, <2>5 DEF SafeInv
<1> QED  BY <1>2, <1>3, <1>4

LEMMA FrontSafe == SafeInv /\ Front => SafeInv'
<1> SUFFICES ASSUME SafeInv, Front PROVE SafeInv'
  OBVIOUS
<1>1. FifoInv /\ TypeOK /\ Threads /\ PacketFifoFront
  BY DEF SafeInv, Front
<1>2. /\ FifoInv' /\ UNCHANGED <<agent, freed, chain, packet, size, live>>
      /\ \/ answer' = NULL
         \/ chain # <<>> /\ header' = chain[1] /\ answer' = packet[chain[1]]
  BY <1>1, FrontEffect
<1>3. /\ sender = "front" /\ held' = answer'
      /\ sender' = (IF answer' = NULL THEN "while" ELSE "look")
      /\ UNCHANGED <<runThread, connVars, flagVars, feederVars, controller, net,
                     outages, logVars>>
  BY DEF Front, SenderAt
<1>4. TypeOK'
  BY <1>1, <1>2, <1>3
     DEF TypeOK, FifoInv, FifoTypeOK, connVars, flagVars, feederVars, logVars
<1>5. Threads'
  BY <1>1, <1>2, <1>3 DEF Threads, feederVars
<1>6. HeldOK'
  <2>1. CASE answer' = NULL
    BY <2>1, <1>3 DEF HeldOK, Holding
  <2>2. CASE answer' # NULL
    <3>1. chain # <<>> /\ header' = chain[1] /\ held' = packet[chain[1]]
      BY <2>2, <1>2, <1>3
    <3>2. held' \in Packet \ freed
      BY <3>1, <1>1, HeadOfQueue
    <3> QED  BY <2>2, <3>1, <3>2, <1>2, <1>3 DEF HeldOK
  <2> QED  BY <2>1, <2>2
<1> QED  BY <1>2, <1>4, <1>5, <1>6 DEF SafeInv

(* a step from a place where the sender holds a packet to one where it does not *)
LEMMA PopSafe == SafeInv /\ (Drop \/ PopSent) => SafeInv'
<1> SUFFICES ASSUME SafeInv, Drop \/ PopSent PROVE SafeInv'
  OBVIOUS
<1>1. FifoInv /\ TypeOK /\ Threads /\ Pop /\ sender \in {"drop", "pop"} /\ agent
  BY DEF SafeInv, Drop, PopSent, SenderAt, Threads
<1>2. FifoInv' /\ agent'
  BY <1>1, PopEffect
<1>3. /\ sender' = "while"
      /\ UNCHANGED <<held, runThread, connVars, flagVars, feederVars, controller,
                     net, outages, sent>>
  BY DEF Drop, PopSent, SenderAt
<1>4. dropped' \subseteq Packet /\ lost' \subseteq Packet
  <2>1. Popped \subseteq Packet
    BY <1>2 DEF FifoInv, FifoTypeOK, Popped
  <2> QED  BY <2>1, <1>1 DEF TypeOK, Drop, PopSent
<1>5. TypeOK'
  BY <1>1, <1>2, <1>3, <1>4 DEF TypeOK, FifoInv, connVars, flagVars, feederVars
<1>6. Threads' /\ HeldOK'
  BY <1>1, <1>2, <1>3 DEF Threads, HeldOK, Holding, feederVars
<1> QED  BY <1>2, <1>5, <1>6 DEF SafeInv

LEMMA SendSafe == SafeInv /\ SendPacketOk => SafeInv'
<1> SUFFICES ASSUME SafeInv, SendPacketOk PROVE SafeInv'
  OBVIOUS
<1>1. FifoInv /\ TypeOK /\ Threads /\ HeldOK
  BY DEF SafeInv
<1>2. /\ sender = "send" /\ sender' = "pop" /\ socket = "open" /\ socket' = socket
      /\ timedout' = FALSE /\ sent' = Append(sent, held)
      /\ UNCHANGED <<fifoVars, held, runThread, bPlaying, published, onWire, flagVars,
                     feederVars, controller, net, outages, dropped, lost>>
  BY DEF SendPacketOk, SenderAt, SendWorks
<1>3. held \in Packet
  BY <1>1, <1>2 DEF HeldOK, Holding
<1>4. sent' \in Seq(Packet) /\ held \in Elems(sent')
  BY <1>1, <1>2, <1>3, ElemsOfAppend, AppendProperties DEF TypeOK
<1>5. FifoInv'
  BY <1>1, <1>2, StutterInv
<1>6. TypeOK'
  BY <1>1, <1>2, <1>4, <1>5 DEF TypeOK, FifoInv, flagVars, feederVars
<1>7. Threads'
  BY <1>1, <1>2 DEF Threads, feederVars, fifoVars
<1>8. HeldOK'
  BY <1>1, <1>2, <1>3, <1>4 DEF HeldOK, Holding, feederVars, fifoVars
<1> QED  BY <1>5, <1>6, <1>7, <1>8 DEF SafeInv

LEMMA PushSafe == SafeInv /\ Push => SafeInv'
<1> SUFFICES ASSUME SafeInv, Push PROVE SafeInv'
  OBVIOUS
<1>1. FifoInv /\ TypeOK /\ Threads /\ HeldOK
  BY DEF SafeInv
<1>2. /\ feeder = "push" /\ feeder' = "idle" /\ feeding' = NULL
      /\ PacketFifoPush(feeding) /\ feeding \in Packet
      /\ pushed' = Append(pushed, feeding)
      /\ UNCHANGED <<sender, held, runThread, connVars, flagVars, inputVars, resets,
                     controller, net, outages, logVars>>
  BY DEF Push, FeederAt, PacketFifoPush
<1>3. /\ FifoInv' /\ agent' /\ freed' = freed /\ size' = size + 1
      /\ chain # <<>> /\ header = chain[1] =>
           /\ chain' # <<>> /\ header' = chain'[1]
           /\ packet'[chain'[1]] = packet[chain[1]]
  BY <1>1, <1>2, PushEffect
<1>4. pushed' \in Seq(Packet)
  BY <1>1, <1>2, AppendProperties DEF TypeOK
<1>5. TypeOK'
  BY <1>1, <1>2, <1>3, <1>4 DEF TypeOK, FifoInv, connVars, flagVars, inputVars, logVars
<1>6. Threads'
  BY <1>1, <1>2, <1>3 DEF Threads
<1>7. HeldOK'
  <2>1. size \in Nat /\ FifoLimit \in Nat /\ socket' = socket /\ sent' = sent
    BY <1>1, <1>2, ClientAssumption DEF FifoInv, FifoTypeOK, connVars, logVars
  <2>2. size > FifoLimit => size' > FifoLimit
    BY <2>1, <1>3
  <2>3. Holding' = Holding /\ sender' = sender /\ held' = held /\ resets' = resets
    BY <1>2 DEF Holding
  <2> QED  BY <2>1, <2>2, <2>3, <1>1, <1>2, <1>3 DEF HeldOK
<1> QED  BY <1>3, <1>5, <1>6, <1>7 DEF SafeInv

LEMMA ResetSafe == SafeInv /\ ResetClear => SafeInv'
<1> SUFFICES ASSUME SafeInv, ResetClear PROVE SafeInv'
  OBVIOUS
<1>1. FifoInv /\ TypeOK /\ Threads /\ HeldOK
  BY DEF SafeInv
<1>2. /\ feeder = "clear" /\ feeder' = "flags" /\ CleanPacketFifo
      /\ UNCHANGED <<sender, held, runThread, connVars, flagVars, feeding, inputVars,
                     resets, pushed, controller, net, outages, logVars>>
  BY DEF ResetClear, FeederAt
<1>3. /\ FifoInv' /\ agent' /\ freed \subseteq freed'
      /\ chain # <<>> /\ header = chain[1] => packet[chain[1]] \in freed'
  BY <1>1, <1>2, CleanEffect
<1>4. TypeOK'
  BY <1>1, <1>2, <1>3 DEF TypeOK, FifoInv, connVars, flagVars, inputVars, logVars
<1>5. Threads' /\ resets > 0
  BY <1>1, <1>2, <1>3 DEF Threads
<1>6. HeldOK'
  BY <1>1, <1>2, <1>3, <1>5 DEF HeldOK, Holding, logVars
<1> QED  BY <1>3, <1>4, <1>5, <1>6 DEF SafeInv

LEMMA ReleaseSafe == SafeInv /\ StopRelease => SafeInv'
<1> SUFFICES ASSUME SafeInv, StopRelease PROVE SafeInv'
  OBVIOUS
<1>1. FifoInv /\ TypeOK /\ Threads
  BY DEF SafeInv
<1>2. /\ controller = "join" /\ controller' = "stopped" /\ sender = "exited"
      /\ ReleaseFifoAgent
      /\ metaData' = FALSE /\ spsData' = FALSE /\ bPlaying' = FALSE
      /\ socket' = "closed" /\ published' = FALSE /\ onWire' = {}
      /\ UNCHANGED <<timedout, sender, held, runThread, flagVars, feeder, feeding,
                     resets, pushed, net, outages, logVars>>
  BY DEF StopRelease, ControllerAt, RtmpClose
<1>3. FifoInv'
  BY <1>1, <1>2, ReleaseInv
<1>4. TypeOK'
  BY <1>1, <1>2, <1>3 DEF TypeOK, FifoInv, flagVars, logVars
<1>5. Threads' /\ HeldOK'
  BY <1>1, <1>2 DEF Threads, HeldOK, Holding
<1> QED  BY <1>3, <1>4, <1>5 DEF SafeInv

LEMMA StepSafe == SafeInv /\ [Next]_vars => SafeInv'
BY StepsSorted, QuietSafe, FrontSafe, PopSafe, SendSafe, PushSafe, ResetSafe, ReleaseSafe

LEMMA AlwaysSafe == Spec => []SafeInv
BY InitSafe, StepSafe, PTL DEF Spec

(***************************************************************************)
(* Every variable of the client keeps its type whatever its three threads  *)
(* do; in particular size never wraps below zero.                          *)
(***************************************************************************)
THEOREM ClientTypeCorrect == Spec => []TypeOK
<1>1. SafeInv => TypeOK
  BY DEF SafeInv
<1> QED  BY <1>1, AlwaysSafe, PTL

(***************************************************************************)
(* Outside the FIFO's lock the sender works on the oldest queued packet,   *)
(* or on one that a reset has freed.                                       *)
(***************************************************************************)
THEOREM SenderHoldsTheOldest == Spec => []HeldIsTheOldest
<1>1. SafeInv => HeldIsTheOldest
  BY HeadOfQueue DEF SafeInv, HeldOK, HeldIsTheOldest
<1> QED  BY <1>1, AlwaysSafe, PTL

(***************************************************************************)
(* A frame is dropped only from a FIFO longer than the limit, only when it *)
(* is the oldest, and only if it is an inter frame.                        *)
(***************************************************************************)
THEOREM DropsAreJustified == Spec => DropIsJustified
<1> DEFINE A == dropped' # dropped => /\ dropped' \ dropped \subseteq Inter
                                      /\ size > FifoLimit
                                      /\ held = Head(Queue)
<1>1. SafeInv /\ [Next]_vars => [A]_vars
  <2> SUFFICES ASSUME SafeInv, [Next]_vars, dropped' # dropped PROVE A
    OBVIOUS
  <2>1. FifoInv /\ TypeOK /\ Threads /\ HeldOK
    BY DEF SafeInv
  <2>2. Drop
    <3>1. ~(QuietSender \/ QuietFeeder \/ QuietRest)
      BY <2>1, QuietSenderLemma, QuietFeederLemma, QuietRestLemma
         DEF QuietSenderFacts, QuietFeederFacts, QuietRestFacts, logVars
    <3>2. ~(Front \/ SendPacketOk \/ PopSent \/ Push \/ ResetClear \/ StopRelease)
      BY DEF Front, SendPacketOk, PopSent, Push, ResetClear, StopRelease, logVars
    <3> QED  BY <3>1, <3>2, StepsSorted
  <2>3. sender = "drop" /\ Pop /\ agent /\ dropped' = dropped \cup (Popped \cap {held})
    BY <2>1, <2>2 DEF Drop, SenderAt, Threads
  <2>4. chain # <<>> /\ Popped = {packet[chain[1]]} /\ held \in Popped
    BY <2>1, <2>3, PopEffect
  <2>5. held = packet[chain[1]] /\ held \notin freed /\ held = Head(Queue)
    BY <2>1, <2>4, HeadOfQueue
  <2>6. held \in Inter /\ size > FifoLimit
    BY <2>1, <2>3, <2>5 DEF HeldOK, Holding
  <2> QED  BY <2>3, <2>5, <2>6
<1> QED  BY <1>1, AlwaysSafe, PTL DEF Spec, DropIsJustified

(***************************************************************************)
(* A packet that a reset has freed is sent, if at all, while that reset is *)
(* on its way to close the connection.                                     *)
(***************************************************************************)
THEOREM FreedGoesOutOnlyInAReset == Spec => FreedSentOnlyDuringReset
<1> DEFINE A == sent' # sent /\ held \in freed => feeder \in {"flags", "close"}
<1>1. SafeInv /\ [Next]_vars => [A]_vars
  <2> SUFFICES ASSUME SafeInv, [Next]_vars, sent' # sent, held \in freed
               PROVE  feeder \in {"flags", "close"}
    OBVIOUS
  <2>1. TypeOK /\ HeldOK
    BY DEF SafeInv
  <2>2. SendPacketOk
    <3>1. ~(QuietSender \/ QuietFeeder \/ QuietRest)
      BY <2>1, QuietSenderLemma, QuietFeederLemma, QuietRestLemma
         DEF QuietSenderFacts, QuietFeederFacts, QuietRestFacts, logVars
    <3>2. ~(Front \/ Drop \/ PopSent \/ Push \/ ResetClear \/ StopRelease)
      BY DEF Front, Drop, PopSent, Push, ResetClear, StopRelease, logVars
    <3> QED  BY <3>1, <3>2, StepsSorted
  <2>3. sender = "send" /\ socket = "open"
    BY <2>2 DEF SendPacketOk, SenderAt, SendWorks
  <2> QED  BY <2>1, <2>3 DEF HeldOK, Holding
<1> QED  BY <1>1, AlwaysSafe, PTL DEF Spec, FreedSentOnlyDuringReset
-----------------------------------------------------------------------------
(***************************************************************************)
(* Accounting.  A quiet step of any thread leaves the packets, and what    *)
(* became of them, as they are.                                            *)
(***************************************************************************)
LEMMA QuietKeepsPackets ==
  ASSUME SafeInv, QuietSender \/ QuietFeeder \/ QuietRest
  PROVE  /\ UNCHANGED <<fifoVars, held, pushed, sent, dropped, lost>>
         /\ Queued' = Queued /\ Queue' = Queue
         /\ resets' = 0 => resets = 0
         /\ controller' # "stopped" => controller # "stopped"
<1>1. TypeOK
  BY DEF SafeInv
<1>2. UNCHANGED <<fifoVars, held, pushed, sent, dropped, lost>>
  BY <1>1, QuietSenderLemma, QuietFeederLemma, QuietRestLemma
     DEF QuietSenderFacts, QuietFeederFacts, QuietRestFacts, feederVars, logVars
<1>3. Queued' = Queued /\ Queue' = Queue
  BY <1>2 DEF fifoVars, Queued, Queue
<1>4. resets \in Nat
  BY <1>1, ClientAssumption DEF TypeOK
<1>5. resets' = resets \/ resets' = resets + 1
  BY <1>1, QuietSenderLemma, QuietFeederLemma, QuietRestLemma
     DEF QuietSenderFacts, QuietFeederFacts, QuietRestFacts, feederVars
<1>6. controller' # "stopped" => controller # "stopped"
  BY <1>1, QuietSenderLemma, QuietFeederLemma, QuietRestLemma
     DEF QuietSenderFacts, QuietFeederFacts, QuietRestFacts
<1>7. resets' = 0 => resets = 0
  BY <1>4, <1>5
<1> QED  BY <1>2, <1>3, <1>6, <1>7

LEMMA NothingLostAtFirst == Init => NothingLost
<1> SUFFICES ASSUME Init PROVE NothingLost
  OBVIOUS
<1>1. Elems(pushed) = {} /\ Elems(sent) = {} /\ Queued = {} /\ dropped = {}
  BY EmptySeq DEF Init, Elems, Queued
<1> QED  BY <1>1 DEF NothingLost

LEMMA StepAccounts == SafeInv /\ NothingLost /\ [Next]_vars => NothingLost'
<1> SUFFICES ASSUME SafeInv, NothingLost, [Next]_vars,
                    resets' = 0, controller' # "stopped"
             PROVE  Elems(pushed') =
                      Queued' \cup Elems(sent') \cup (dropped' \cap Inter)
  BY DEF NothingLost
<1> DEFINE Total == Elems(pushed) = Queued \cup Elems(sent) \cup (dropped \cap Inter)
<1>1. FifoInv /\ TypeOK /\ Threads /\ HeldOK
  BY DEF SafeInv
<1>2. CASE QuietSender \/ QuietFeeder \/ QuietRest
  <2>1. Total
    BY <1>2, QuietKeepsPackets DEF NothingLost
  <2> QED  BY <2>1, <1>2, QuietKeepsPackets
<1>3. ASSUME resets = 0, Holding
      PROVE  chain # <<>> /\ held = packet[chain[1]] /\ held \in Packet
  BY <1>1, <1>3 DEF HeldOK
<1>4. CASE Front
  <2>1. Queued' = Queued /\ resets = 0 /\ controller # "stopped"
        /\ UNCHANGED <<pushed, sent, dropped>>
    BY <1>1, <1>4, FrontEffect DEF Front, feederVars, logVars
  <2> QED  BY <2>1 DEF NothingLost
<1>5. CASE Drop
  <2>1. /\ sender = "drop" /\ Pop /\ dropped' = dropped \cup (Popped \cap {held})
        /\ UNCHANGED <<controller, resets, pushed, sent>>
    BY <1>5 DEF Drop, SenderAt, feederVars
  <2>2. Total /\ agent /\ chain # <<>> /\ held = packet[chain[1]] /\ held \in Inter
    BY <2>1, <1>1, <1>3 DEF NothingLost, Threads, Holding, HeldOK
  <2>3. Popped = {held} /\ Queued = Queued' \cup {held}
    BY <2>1, <2>2, <1>1, PopEffect
  <2> QED  BY <2>1, <2>2, <2>3
<1>6. CASE PopSent
  <2>1. /\ sender = "pop" /\ Pop
        /\ UNCHANGED <<controller, resets, pushed, sent, dropped>>
    BY <1>6 DEF PopSent, SenderAt, feederVars
  <2>2. Total /\ agent /\ chain # <<>> /\ held = packet[chain[1]]
    BY <2>1, <1>1, <1>3 DEF NothingLost, Threads, Holding
  <2>3. held \in Elems(sent) /\ Queued = Queued' \cup {held}
    BY <2>1, <2>2, <1>1, PopEffect DEF HeldOK, Holding
  <2> QED  BY <2>1, <2>2, <2>3
<1>7. CASE SendPacketOk
  <2>1. /\ sender = "send" /\ sent' = Append(sent, held)
        /\ UNCHANGED <<fifoVars, controller, resets, pushed, dropped>>
    BY <1>7 DEF SendPacketOk, SenderAt, feederVars
  <2>2. Total /\ held \in Packet /\ held \in Queued
    BY <2>1, <1>1, <1>3, HeadOfQueue DEF NothingLost, Holding
  <2>3. Elems(sent') = Elems(sent) \cup {held} /\ Queued' = Queued
    BY <2>1, <2>2, <1>1, ElemsOfAppend DEF TypeOK, fifoVars, Queued
  <2> QED  BY <2>1, <2>2, <2>3
<1>8. CASE Push
  <2>1. /\ PacketFifoPush(feeding) /\ feeding \in Packet
        /\ pushed' = Append(pushed, feeding)
        /\ UNCHANGED <<controller, resets, sent, dropped>>
    BY <1>8 DEF Push, PacketFifoPush, logVars
  <2>2. Queued' = Queued \cup {feeding} /\ Elems(pushed') = Elems(pushed) \cup {feeding}
    BY <2>1, <1>1, PushEffect, ElemsOfAppend DEF TypeOK
  <2> QED  BY <2>1, <2>2 DEF NothingLost
<1>9. CASE ResetClear
  <2>1. feeder = "clear" /\ resets' = resets
    BY <1>9 DEF ResetClear, FeederAt
  <2>2. resets > 0
    BY <2>1, <1>1 DEF Threads
  <2> QED  BY <2>1, <2>2
<1>10. CASE StopRelease
  BY <1>10 DEF StopRelease, ControllerAt
<1> QED  BY <1>2, <1>4, <1>5, <1>6, <1>7, <1>8, <1>9, <1>10, StepsSorted

(***************************************************************************)
(* Until the client is reset or stopped, every packet pushed is queued,    *)
(* was sent, or is an inter frame that was dropped, whatever connections   *)
(* fail in between.                                                        *)
(***************************************************************************)
THEOREM NoPacketDisappears == Spec => []NothingLost
BY NothingLostAtFirst, StepAccounts, AlwaysSafe, PTL DEF Spec
-----------------------------------------------------------------------------
(***************************************************************************)
(* The cost of a reset.  A loss is paid for in advance: by a reset whose   *)
(* clear is still to come, or by the freed packet the sender holds.        *)
(***************************************************************************)
One(b) == IF b THEN 1 ELSE 0
HoldsFreed == Holding /\ held \in freed
Paid == /\ IsFiniteSet(lost)
        /\ Cardinality(lost) + One(HoldsFreed) + One(feeder = "clear") <= resets

LEMMA OneMore ==
  ASSUME NEW S, NEW T, NEW x, IsFiniteSet(S), T \subseteq S \cup {x}, S \subseteq T
  PROVE  IsFiniteSet(T) /\ Cardinality(S) \in Nat /\ Cardinality(T) \in Nat
         /\ Cardinality(T) <= Cardinality(S) + 1
<1>1. IsFiniteSet(S \cup {x}) /\ Cardinality(S) \in Nat
      /\ Cardinality(S \cup {x}) \in Nat
      /\ Cardinality(S \cup {x}) <= Cardinality(S) + 1
  BY FS_AddElement, FS_CardinalityType
<1>2. IsFiniteSet(T) /\ Cardinality(T) \in Nat
      /\ Cardinality(T) <= Cardinality(S \cup {x})
  BY <1>1, FS_Subset, FS_CardinalityType
<1> QED  BY <1>1, <1>2

(* the pop that ends the sender's work on a packet *)
LEMMA PopPays == SafeInv /\ Paid /\ (Drop \/ PopSent) => Paid'
<1> SUFFICES ASSUME SafeInv, Paid, Drop \/ PopSent PROVE Paid'
  OBVIOUS
<1>1. FifoInv /\ TypeOK /\ Threads /\ HeldOK
  BY DEF SafeInv
<1>2. /\ Holding /\ ~Holding' /\ Pop /\ agent
      /\ feeder' = feeder /\ resets' = resets /\ sent' = sent
  BY <1>1 DEF Drop, PopSent, SenderAt, Holding, feederVars, Threads
<1>3. /\ IsFiniteSet(lost) /\ Cardinality(lost) \in Nat /\ resets \in Nat
      /\ Cardinality(lost) + One(HoldsFreed) + One(feeder = "clear") <= resets
  BY <1>1, FS_CardinalityType, ClientAssumption DEF Paid, TypeOK
<1>4. CASE held \in freed
  <2>1. PICK x : Popped \subseteq {x}
    BY <1>1, <1>2, PopEffect
  <2>2. lost' \subseteq lost \cup {x} /\ lost \subseteq lost'
    BY <2>1 DEF Drop, PopSent
  <2>3. IsFiniteSet(lost') /\ Cardinality(lost') \in Nat
        /\ Cardinality(lost') <= Cardinality(lost) + 1
    BY <2>2, <1>3, OneMore
  <2>4. One(HoldsFreed) = 1 /\ One(HoldsFreed)' = 0 /\ One(feeder = "clear")' = One(feeder = "clear")
    BY <1>2, <1>4 DEF HoldsFreed, One
  <2>5. One(feeder = "clear") \in Nat
    BY DEF One
  <2> QED  BY <2>3, <2>4, <2>5, <1>2, <1>3 DEF Paid
<1>5. CASE held \notin freed
  <2>1. held = packet[chain[1]] /\ chain # <<>>
    BY <1>1, <1>2, <1>5 DEF HeldOK
  <2>2. Popped = {held}
    BY <2>1, <1>1, <1>2, PopEffect
  <2>3. lost' = lost
    <3>1. CASE Drop
      BY <3>1, <2>2 DEF Drop
    <3>2. CASE PopSent
      <4>1. held \in Elems(sent)
        BY <3>2, <1>1, <1>2 DEF PopSent, SenderAt, HeldOK
      <4> QED  BY <4>1, <3>2, <2>2 DEF PopSent, Elems
    <3> QED  BY <3>1, <3>2
  <2>4. One(HoldsFreed) = 0 /\ One(HoldsFreed)' = 0 /\ One(feeder = "clear")' = One(feeder = "clear")
    BY <1>2, <1>5 DEF HoldsFreed, One
  <2> QED  BY <2>3, <2>4, <1>2, <1>3 DEF Paid
<1> QED  BY <1>4, <1>5

LEMMA StepPays == SafeInv /\ Paid /\ [Next]_vars => Paid'
<1> SUFFICES ASSUME SafeInv, Paid, [Next]_vars PROVE Paid'
  OBVIOUS
<1>1. FifoInv /\ TypeOK /\ Threads /\ HeldOK
  BY DEF SafeInv
<1>2. /\ IsFiniteSet(lost) /\ Cardinality(lost) \in Nat /\ resets \in Nat
      /\ Cardinality(lost) + One(HoldsFreed) + One(feeder = "clear") <= resets
  BY <1>1, FS_CardinalityType, ClientAssumption DEF Paid, TypeOK
<1>3. \A b, c \in BOOLEAN : One(b) \in Nat /\ ((b => c) => One(b) <= One(c))
  BY DEF One
<1>4. HoldsFreed \in BOOLEAN /\ HoldsFreed' \in BOOLEAN
  BY DEF HoldsFreed, Holding
<1>5. CASE QuietSender \/ QuietRest
  <2>1. UNCHANGED <<lost, held, freed, feeder, resets>> /\ (Holding' => Holding)
    BY <1>1, <1>5, QuietSenderLemma, QuietRestLemma
       DEF QuietSenderFacts, QuietRestFacts, feederVars, logVars, fifoVars, Holding
  <2>2. HoldsFreed' => HoldsFreed
    BY <2>1 DEF HoldsFreed
  <2>3. One(HoldsFreed') <= One(HoldsFreed) /\ One(HoldsFreed) \in Nat /\ One(HoldsFreed') \in Nat
        /\ One(feeder = "clear") \in Nat
    BY <2>2, <1>3, <1>4
  <2> QED  BY <2>1, <2>3, <1>2 DEF Paid, One
<1>6. CASE QuietFeeder
  <2>1. QuietFeederFacts
    BY <1>1, <1>6, QuietFeederLemma
  <2>2. lost' = lost /\ HoldsFreed' = HoldsFreed /\ feeder # "clear"
        /\ ((resets' = resets /\ feeder' # "clear") \/ resets' = resets + 1)
    BY <2>1 DEF QuietFeederFacts, HoldsFreed, Holding, logVars, fifoVars
  <2>3. One(feeder = "clear") = 0
        /\ \/ resets' = resets /\ One(feeder' = "clear") = 0
           \/ resets' = resets + 1 /\ One(feeder' = "clear") \in {0, 1}
    BY <2>2 DEF One
  <2>4. One(HoldsFreed) \in Nat
    BY <1>3, <1>4
  <2>5. One(HoldsFreed)' = One(HoldsFreed)
    BY <2>2 DEF One
  <2>6. One(feeder = "clear")' = One(feeder' = "clear")
    BY DEF One
  <2> QED  BY <2>2, <2>3, <2>4, <2>5, <2>6, <1>2 DEF Paid
<1>7. CASE Front
  <2>1. UNCHANGED <<lost, feeder, resets>> /\ ~HoldsFreed'
    <3>1. SafeInv'
      BY <1>7, FrontSafe
    <3>2. PacketFifoFront /\ UNCHANGED <<lost, feeder, resets>> /\ held' = answer'
          /\ sender' = (IF answer' = NULL THEN "while" ELSE "look")
      BY <1>7 DEF Front, SenderAt, feederVars, logVars
    <3>3. CASE answer' = NULL
      BY <3>2, <3>3 DEF HoldsFreed, Holding
    <3>4. CASE answer' # NULL
      <4>1. chain # <<>> /\ held' = packet[chain[1]] /\ freed' = freed
        BY <3>2, <3>4, <1>1, FrontEffect
      <4> QED  BY <4>1, <3>2, <1>1, HeadOfQueue DEF HoldsFreed
    <3> QED  BY <3>2, <3>3, <3>4
  <2>2. One(HoldsFreed)' = 0 /\ One(HoldsFreed) \in Nat
        /\ One(feeder = "clear")' = One(feeder = "clear") /\ One(feeder = "clear") \in Nat
    BY <2>1 DEF One
  <2> QED  BY <2>1, <2>2, <1>2 DEF Paid
<1>8. CASE SendPacketOk
  <2>1. UNCHANGED <<lost, held, freed, feeder, resets>> /\ Holding /\ Holding'
    BY <1>8 DEF SendPacketOk, SenderAt, Holding, feederVars, fifoVars
  <2> QED  BY <2>1, <1>2 DEF Paid, HoldsFreed, One
<1>9. CASE Push
  <2>1. UNCHANGED <<lost, held, sender, resets>> /\ freed' = freed
        /\ feeder = "push" /\ feeder' = "idle"
    BY <1>9 DEF Push, FeederAt, PacketFifoPush, logVars
  <2> QED  BY <2>1, <1>2 DEF Paid, HoldsFreed, Holding, One
<1>10. CASE ResetClear
  <2>1. lost' = lost /\ resets' = resets /\ feeder = "clear" /\ feeder' = "flags"
    BY <1>10 DEF ResetClear, FeederAt, logVars
  <2>2. One(feeder = "clear") = 1 /\ One(feeder = "clear")' = 0
        /\ One(HoldsFreed) \in {0, 1} /\ One(HoldsFreed)' \in {0, 1}
    BY <2>1 DEF One
  <2> QED  BY <2>1, <2>2, <1>2 DEF Paid
<1>11. CASE StopRelease
  <2>1. UNCHANGED <<lost, resets, feeder>> /\ ~Holding'
    BY <1>11 DEF StopRelease, Holding, logVars
  <2>2. One(HoldsFreed)' = 0 /\ One(HoldsFreed) \in Nat
        /\ One(feeder = "clear")' = One(feeder = "clear") /\ One(feeder = "clear") \in Nat
    BY <2>1 DEF One, HoldsFreed
  <2> QED  BY <2>1, <2>2, <1>2 DEF Paid
<1> QED  BY <1>5, <1>6, <1>7, <1>8, <1>9, <1>10, <1>11, PopPays, StepsSorted

(***************************************************************************)
(* However the threads interleave, the packets popped without having been  *)
(* sent are no more than the calls of beforeSendData.                      *)
(***************************************************************************)
THEOREM AResetCostsOnePacket == Spec => []OneLossPerReset
<1>1. Init => Paid
  BY FS_EmptySet DEF Init, Paid, One, HoldsFreed, Holding
<1>2. SafeInv /\ Paid => OneLossPerReset
  <2> SUFFICES ASSUME SafeInv, Paid PROVE Cardinality(lost) <= resets
    BY DEF OneLossPerReset
  <2>1. Cardinality(lost) \in Nat /\ resets \in Nat
    BY FS_CardinalityType, ClientAssumption DEF Paid, SafeInv, TypeOK
  <2>2. One(HoldsFreed) \in Nat /\ One(feeder = "clear") \in Nat
    BY DEF One
  <2> QED  BY <2>1, <2>2 DEF Paid
<1> QED  BY <1>1, <1>2, StepPays, AlwaysSafe, PTL DEF Spec
-----------------------------------------------------------------------------
(***************************************************************************)
(* Order.  The queue is the end of what was pushed; every packet sent has  *)
(* its place, growing, in what has left the queue (or is leaving it, when  *)
(* the sender is about to pop), and so has the packet the sender holds,    *)
(* after all of them.                                                      *)
(***************************************************************************)
Gone == Len(pushed) - Len(Queue)

QueueEndsPushed ==
    /\ Len(Queue) <= Len(pushed)
    /\ \A i \in 1..Len(Queue) : Queue[i] = pushed[Gone + i]

Places(f) ==
    /\ f \in [1..Len(sent) -> 1..Len(pushed)]
    /\ \A i \in 1..Len(sent) : /\ pushed[f[i]] = sent[i]
                               /\ f[i] <= Gone + One(sender = "pop")
    /\ \A i, j \in 1..Len(sent) : i < j => f[i] < f[j]

HasPlace(f) ==
    Holding /\ sender # "pop" =>
      \E k \in 1..Len(pushed) : /\ pushed[k] = held /\ k <= Gone + 1
                                /\ \A i \in 1..Len(sent) : f[i] < k

Ordered == QueueEndsPushed /\ \E f : Places(f) /\ HasPlace(f)

(***************************************************************************)
(* Packets that leave the queue make room for the places to stay.          *)
(***************************************************************************)
LEMMA PlacesStay ==
  ASSUME NEW f, Places(f), HasPlace(f), TypeOK,
         UNCHANGED <<pushed, sent>>,
         Gone \in Nat, Gone' \in Nat,
         \/ Gone' >= Gone /\ (sender = "pop" => sender' = "pop")
         \/ Gone' >= Gone + 1
         \/ Gone' = Len(pushed),
         Holding' /\ sender' # "pop" => Holding /\ sender # "pop" /\ held' = held
  PROVE  Places(f)' /\ HasPlace(f)'
<1>1. Len(pushed) \in Nat /\ Len(sent) \in Nat
  BY DEF TypeOK
<1>2. \A i \in 1..Len(sent) : f[i] \in 1..Len(pushed) /\ f[i] <= Gone + One(sender = "pop")
  BY DEF Places
<1>3. One(sender = "pop") \in {0, 1} /\ One(sender' = "pop") \in {0, 1}
      /\ (One(sender = "pop") = 1 => sender = "pop")
      /\ (sender' = "pop" => One(sender' = "pop") = 1)
  BY DEF One
<1>4. \A i \in 1..Len(sent) : f[i] <= Gone' + One(sender' = "pop")
  BY <1>1, <1>2, <1>3
<1>5. One(sender = "pop")' = One(sender' = "pop")
  BY DEF One
<1>6. Places(f)'
  BY <1>4, <1>5 DEF Places
<1>7. HasPlace(f)'
  <2> SUFFICES ASSUME Holding', sender' # "pop"
               PROVE  \E k \in 1..Len(pushed) :
                        /\ pushed[k] = held' /\ k <= Gone' + 1
                        /\ \A i \in 1..Len(sent) : f[i] < k
    BY DEF HasPlace
  <2>1. PICK k \in 1..Len(pushed) : /\ pushed[k] = held /\ k <= Gone + 1
                                    /\ \A i \in 1..Len(sent) : f[i] < k
    BY DEF HasPlace
  <2>2. k \in Nat /\ k <= Len(pushed) /\ k <= Gone + 1
    BY <1>1, <2>1
  <2>3. Gone' >= Gone \/ Gone' = Len(pushed)
    OBVIOUS
  <2>4. k <= Gone' + 1
    <3>1. ASSUME NEW a \in Nat, NEW b \in Nat, NEW l \in Nat,
                 b >= a \/ b = l, k <= l, k <= a + 1, k \in Nat
          PROVE  k <= b + 1
      BY <3>1
    <3> QED  BY <1>1, <2>2, <2>3, <3>1
  <2>5. pushed[k] = held'
    BY <2>1
  <2> QED  BY <2>1, <2>4, <2>5
<1> QED  BY <1>6, <1>7

LEMMA SendOrders == SafeInv /\ Ordered /\ SendPacketOk => Ordered'
<1> SUFFICES ASSUME SafeInv, Ordered, SendPacketOk PROVE Ordered'
  OBVIOUS
<1>1. /\ sender = "send" /\ sender' = "pop" /\ sent' = Append(sent, held)
      /\ UNCHANGED <<fifoVars, pushed>>
  BY DEF SendPacketOk, SenderAt, feederVars
<1>2. QueueEndsPushed /\ \E f : Places(f) /\ HasPlace(f)
  BY DEF Ordered
<1>3. PICK f : Places(f) /\ HasPlace(f)
  BY <1>2
<1>4. PICK k \in 1..Len(pushed) : /\ pushed[k] = held /\ k <= Gone + 1
                                  /\ \A i \in 1..Len(sent) : f[i] < k
  BY <1>1, <1>3 DEF HasPlace, Holding
<1> DEFINE n == Len(sent)
<1>g. PICK g : g = [i \in 1..(n + 1) |-> IF i = n + 1 THEN k ELSE f[i]]
  OBVIOUS
<1>5. /\ n \in Nat /\ Len(pushed) \in Nat /\ Len(sent') = n + 1
      /\ \A i \in 1..n : sent'[i] = sent[i]
      /\ sent'[n + 1] = held
  <2>1. held \in Packet /\ sent \in Seq(Packet) /\ pushed \in Seq(Packet)
    BY <1>1 DEF SafeInv, HeldOK, Holding, TypeOK
  <2> QED  BY <2>1, <1>1, AppendProperties
<1>6. Gone' = Gone /\ Gone \in Int /\ QueueEndsPushed'
  <2>1. Gone' = Gone /\ Queue' = Queue /\ pushed' = pushed
    BY <1>1 DEF Gone, Queue, fifoVars
  <2>2. Gone \in Int
    BY <1>5, QueueIsSeq DEF Gone, SafeInv
  <2> QED  BY <2>1, <2>2, <1>2 DEF QueueEndsPushed
<1>7. \A i \in 1..n : f[i] \in 1..Len(pushed) /\ pushed[f[i]] = sent[i] /\ f[i] <= Gone /\ f[i] < k
  BY <1>1, <1>3, <1>4, <1>6 DEF Places, One
<1>8. \A i \in 1..(n + 1) : i = n + 1 \/ i \in 1..n
  BY <1>5
<1>9. g \in [1..(n + 1) -> 1..Len(pushed)]
  BY <1>7, <1>8, <1>g
<1>10. \A i \in 1..(n + 1) : pushed[g[i]] = sent'[i] /\ g[i] <= Gone + 1
  <2>1. \A i \in 1..n : i # n + 1 /\ i \in 1..(n + 1)
    BY <1>5
  <2>2. \A i \in 1..n : pushed[g[i]] = sent'[i] /\ g[i] <= Gone + 1
    BY <2>1, <1>5, <1>6, <1>7, <1>g
  <2>3. n + 1 \in 1..(n + 1)
    BY <1>5
  <2>4. pushed[g[n + 1]] = sent'[n + 1] /\ g[n + 1] <= Gone + 1
    BY <2>3, <1>4, <1>5, <1>g
  <2> QED  BY <2>2, <2>4, <1>8
<1>11. \A i, j \in 1..(n + 1) : i < j => g[i] < g[j]
  <2> SUFFICES ASSUME NEW i \in 1..(n + 1), NEW j \in 1..(n + 1), i < j
               PROVE  g[i] < g[j]
    OBVIOUS
  <2>1. i \in 1..n /\ i # n + 1 /\ g[i] = f[i]
    BY <1>5, <1>g
  <2>2. CASE j = n + 1
    BY <2>1, <2>2, <1>7, <1>g
  <2>3. CASE j # n + 1
    <3>1. j \in 1..n /\ g[j] = f[j]
      BY <2>3, <1>5, <1>g
    <3> QED  BY <3>1, <2>1, <1>3 DEF Places
  <2> QED  BY <2>2, <2>3
<1>12. Places(g)'
  <2>1. One(sender = "pop")' = 1
    BY <1>1 DEF One
  <2>2. pushed' = pushed /\ Len(sent') = n + 1 /\ Gone' = Gone
    BY <1>1, <1>5, <1>6
  <2> HIDE DEF n
  <2>3. \A i \in 1..(n + 1) : g[i] <= Gone' + One(sender = "pop")'
    BY <2>1, <2>2, <1>10
  <2>4. g \in [1..Len(sent)' -> 1..Len(pushed)']
    BY <2>2, <1>9
  <2>5. \A i \in 1..Len(sent)' : /\ pushed'[g[i]] = sent'[i]
                                 /\ g[i] <= Gone' + One(sender = "pop")'
    BY <2>2, <2>3, <1>10
  <2>6. \A i, j \in 1..Len(sent)' : i < j => g[i] < g[j]
    BY <2>2, <1>11
  <2> QED  BY <2>4, <2>5, <2>6 DEF Places
<1>13. HasPlace(g)'
  BY <1>1 DEF HasPlace
<1> QED  BY <1>6, <1>12, <1>13 DEF Ordered

LEMMA QueueFacts ==
  ASSUME SafeInv, QueueEndsPushed
  PROVE  /\ Queue \in Seq(Packet) /\ Len(Queue) \in Nat
         /\ pushed \in Seq(Packet) /\ Len(pushed) \in Nat
         /\ Gone \in Nat /\ Gone + Len(Queue) = Len(pushed)
<1>1. /\ Queue \in Seq(Packet) /\ Len(Queue) \in Nat
      /\ pushed \in Seq(Packet) /\ Len(pushed) \in Nat
  BY QueueIsSeq DEF SafeInv, TypeOK
<1> QED  BY <1>1 DEF Gone, QueueEndsPushed

(***************************************************************************)
(* A step that pushes and sends nothing, and leaves the queue as it is,    *)
(* shorter by its head, or empty.                                          *)
(***************************************************************************)
LEMMA RemovalOrders ==
  ASSUME SafeInv, SafeInv', Ordered, UNCHANGED <<pushed, sent>>,
         \/ Queue' = Queue /\ (sender = "pop" => sender' = "pop")
         \/ Queue # <<>> /\ Queue' = Tail(Queue)
         \/ Queue' = <<>>,
         Holding' /\ sender' # "pop" => Holding /\ sender # "pop" /\ held' = held
  PROVE  Ordered'
<1>1. QueueEndsPushed /\ \E f : Places(f) /\ HasPlace(f)
  BY DEF Ordered
<1>2. PICK f : Places(f) /\ HasPlace(f)
  BY <1>1
<1>3. /\ Queue \in Seq(Packet) /\ Len(Queue) \in Nat
      /\ pushed \in Seq(Packet) /\ Len(pushed) \in Nat
      /\ Gone \in Nat /\ Gone + Len(Queue) = Len(pushed)
  BY <1>1, QueueFacts
<1>4. /\ QueueEndsPushed' /\ Gone' \in Nat
      /\ \/ Gone' >= Gone /\ (sender = "pop" => sender' = "pop")
         \/ Gone' >= Gone + 1
         \/ Gone' = Len(pushed)
  <2>1. CASE Queue' = Queue /\ (sender = "pop" => sender' = "pop")
    <3>1. Gone' = Gone
      BY <2>1 DEF Gone
    <3> QED  BY <2>1, <3>1, <1>1, <1>3 DEF QueueEndsPushed
  <2>2. CASE Queue # <<>> /\ Queue' = Tail(Queue)
    <3>1. /\ Len(Queue) > 0 /\ Len(Queue') = Len(Queue) - 1
          /\ \A i \in 1..(Len(Queue) - 1) : Queue'[i] = Queue[i + 1]
      BY <2>2, <1>3, HeadTailProperties, EmptySeq
    <3>2. Gone' = Gone + 1 /\ Gone' \in Nat
      BY <3>1, <1>3 DEF Gone
    <3>3. \A i \in 1..(Len(Queue) - 1) : Queue'[i] = pushed[Gone' + i]
      <4> SUFFICES ASSUME NEW i \in 1..(Len(Queue) - 1)
                   PROVE  Queue'[i] = pushed[Gone' + i]
        OBVIOUS
      <4>1. i + 1 \in 1..Len(Queue) /\ Gone + (i + 1) = Gone' + i
        BY <3>2, <1>3
      <4>2. Queue[i + 1] = pushed[Gone + (i + 1)]
        BY <4>1, <1>1 DEF QueueEndsPushed
      <4> QED  BY <4>1, <4>2, <3>1
    <3>4. Len(Queue') <= Len(pushed')
      BY <3>1, <1>1, <1>3 DEF QueueEndsPushed
    <3> QED  BY <3>1, <3>2, <3>3, <3>4, <1>3 DEF QueueEndsPushed
  <2>3. CASE Queue' = <<>>
    <3>1. Len(Queue') = 0
      BY <2>3, EmptySeq
    <3>2. Gone' = Len(pushed)
      BY <3>1, <1>3 DEF Gone
    <3> QED  BY <3>1, <3>2, <1>3 DEF QueueEndsPushed
  <2> QED  BY <2>1, <2>2, <2>3
<1>5. Places(f)' /\ HasPlace(f)'
  BY <1>2, <1>3, <1>4, PlacesStay DEF SafeInv
<1> QED  BY <1>4, <1>5 DEF Ordered

LEMMA FrontOrders == SafeInv /\ Ordered /\ Front => Ordered'
<1> SUFFICES ASSUME SafeInv, Ordered, Front PROVE Ordered'
  OBVIOUS
<1>1. SafeInv' /\ FifoInv
  BY FrontSafe DEF SafeInv
<1>2. /\ sender = "front" /\ held' = answer' /\ UNCHANGED <<pushed, sent>>
      /\ sender' = (IF answer' = NULL THEN "while" ELSE "look")
      /\ PacketFifoFront
  BY DEF Front, SenderAt, feederVars, logVars
<1>3. Queue' = Queue
      /\ (answer' # NULL => chain # <<>> /\ answer' = packet[chain[1]])
  BY <1>1, <1>2, FrontEffect
<1>4. CASE answer' = NULL
  BY <1>1, <1>2, <1>3, <1>4, RemovalOrders DEF Holding
<1>5. CASE answer' # NULL
  <2>1. QueueEndsPushed /\ \E f : Places(f) /\ HasPlace(f)
    BY DEF Ordered
  <2>2. PICK f : Places(f)
    BY <2>1
  <2>3. Gone \in Nat /\ Len(Queue) \in Nat /\ Gone + Len(Queue) = Len(pushed)
    BY <2>1, QueueFacts
  <2>4. Len(Queue) > 0 /\ Queue[1] = held'
    BY <1>1, <1>2, <1>3, <1>5, HeadOfQueue, QueueIsSeq
  <2>5. pushed[Gone + 1] = held' /\ Gone + 1 \in 1..Len(pushed)
    BY <2>1, <2>3, <2>4 DEF QueueEndsPushed
  <2>6. Gone' = Gone /\ QueueEndsPushed'
    BY <2>1, <1>2, <1>3 DEF Gone, QueueEndsPushed
  <2>7. One(sender = "pop") = 0 /\ One(sender = "pop")' = 0
    BY <1>2, <1>5 DEF One
  <2>8. Places(f)'
    BY <2>2, <2>6, <2>7, <1>2 DEF Places
  <2>9. \A i \in 1..Len(sent) : f[i] < Gone + 1
    BY <2>2, <2>3, <2>7 DEF Places
  <2>10. HasPlace(f)'
    BY <2>3, <2>5, <2>6, <2>9, <1>2 DEF HasPlace
  <2> QED  BY <2>6, <2>8, <2>10 DEF Ordered
<1> QED  BY <1>4, <1>5

LEMMA PushOrders == SafeInv /\ Ordered /\ Push => Ordered'
<1> SUFFICES ASSUME SafeInv, Ordered, Push PROVE Ordered'
  OBVIOUS
<1>1. /\ feeding \in Packet /\ pushed' = Append(pushed, feeding)
      /\ UNCHANGED <<sender, held, sent>> /\ PacketFifoPush(feeding)
  BY DEF Push, PacketFifoPush, logVars
<1>2. Queue' = Append(Queue, feeding)
  BY <1>1, PushEffect DEF SafeInv
<1>3. QueueEndsPushed /\ \E f : Places(f) /\ HasPlace(f)
  BY DEF Ordered
<1>4. PICK f : Places(f) /\ HasPlace(f)
  BY <1>3
<1>5. /\ Queue \in Seq(Packet) /\ Len(Queue) \in Nat
      /\ pushed \in Seq(Packet) /\ Len(pushed) \in Nat
      /\ Gone \in Nat /\ Gone + Len(Queue) = Len(pushed)
  BY <1>3, QueueFacts
<1>6. /\ Len(pushed') = Len(pushed) + 1
      /\ \A i \in 1..Len(pushed) : pushed'[i] = pushed[i]
      /\ pushed'[Len(pushed) + 1] = feeding
  BY <1>1, <1>5, AppendProperties
<1>7. /\ Len(Queue') = Len(Queue) + 1
      /\ \A i \in 1..Len(Queue) : Queue'[i] = Queue[i]
      /\ Queue'[Len(Queue) + 1] = feeding
  BY <1>1, <1>2, <1>5, AppendProperties
<1>8. Gone' = Gone
  BY <1>5, <1>6, <1>7 DEF Gone
<1>9. QueueEndsPushed'
  <2>1. ASSUME NEW i \in 1..(Len(Queue) + 1)
        PROVE  Queue'[i] = pushed'[Gone + i]
    <3>1. CASE i \in 1..Len(Queue)
      <4>1. Gone + i \in 1..Len(pushed)
        BY <3>1, <1>5
      <4> QED  BY <4>1, <3>1, <1>3, <1>6, <1>7 DEF QueueEndsPushed
    <3>2. CASE i = Len(Queue) + 1
      BY <3>2, <1>5, <1>6, <1>7
    <3> QED  BY <3>1, <3>2, <1>5
  <2>2. Len(Queue') <= Len(pushed')
    BY <1>5, <1>6, <1>7
  <2> QED  BY <2>1, <2>2, <1>7, <1>8 DEF QueueEndsPushed
<1>10. \A k \in 1..Len(pushed) : k \in 1..Len(pushed')
  BY <1>5, <1>6
<1>11. Places(f)'
  <2>1. \A i \in 1..Len(sent) : /\ f[i] \in 1..Len(pushed) /\ pushed[f[i]] = sent[i]
                                /\ f[i] <= Gone + One(sender = "pop")
    BY <1>4 DEF Places
  <2>2. f \in [1..Len(sent) -> 1..Len(pushed')]
    BY <2>1, <1>4, <1>10 DEF Places
  <2>3. One(sender = "pop")' = One(sender = "pop")
    BY <1>1 DEF One
  <2> QED  BY <2>1, <2>2, <2>3, <1>1, <1>4, <1>6, <1>8 DEF Places
<1>12. HasPlace(f)'
  <2>1. Holding' = Holding
    BY <1>1 DEF Holding
  <2> QED  BY <2>1, <1>1, <1>4, <1>6, <1>8, <1>10 DEF HasPlace
<1> QED  BY <1>9, <1>11, <1>12 DEF Ordered

LEMMA StepOrders == SafeInv /\ Ordered /\ [Next]_vars => Ordered'
<1> SUFFICES ASSUME SafeInv, Ordered, [Next]_vars PROVE Ordered'
  OBVIOUS
<1>1. FifoInv /\ TypeOK /\ Threads /\ SafeInv'
  BY StepSafe DEF SafeInv
<1>2. CASE QuietSender \/ QuietFeeder \/ QuietRest
  <2>1. UNCHANGED <<pushed, sent>> /\ Queue' = Queue
    BY <1>2, QuietKeepsPackets
  <2>2. (sender = "pop" => sender' = "pop")
        /\ (Holding' /\ sender' # "pop" => Holding /\ sender # "pop" /\ held' = held)
    BY <1>1, <1>2, QuietSenderLemma, QuietFeederLemma, QuietRestLemma
       DEF QuietSenderFacts, QuietFeederFacts, QuietRestFacts, Holding
  <2> QED  BY <2>1, <2>2, <1>1, RemovalOrders
<1>3. CASE Drop \/ PopSent
  <2>1. UNCHANGED <<pushed, sent>> /\ sender' = "while" /\ Pop /\ agent
    BY <1>1, <1>3 DEF Drop, PopSent, SenderAt, Threads, feederVars
  <2>2. \/ chain = <<>> /\ UNCHANGED fifoVars
        \/ chain # <<>> /\ Queue' = Tail(Queue)
    BY <1>1, <2>1, PopEffect
  <2>3. Queue' = <<>> \/ (Queue # <<>> /\ Queue' = Tail(Queue))
    <3>1. chain = <<>> /\ UNCHANGED fifoVars => Queue' = <<>>
      BY EmptyQueue DEF Queue, fifoVars
    <3> QED  BY <3>1, <2>2, <1>1, HeadOfQueue
  <2> QED  BY <2>1, <2>3, <1>1, RemovalOrders DEF Holding
<1>4. CASE ResetClear
  <2>1. UNCHANGED <<pushed, sent, sender, held>> /\ Queue' = <<>>
    BY <1>1, <1>4, CleanEffect DEF ResetClear, logVars
  <2> QED  BY <2>1, <1>1, RemovalOrders DEF Holding
<1>5. CASE StopRelease
  <2>1. UNCHANGED <<pushed, sent>> /\ sender' = "exited" /\ chain' = <<>>
    BY <1>5 DEF StopRelease, ReleaseFifoAgent, FreeWalked, logVars
  <2>2. Queue' = <<>>
    BY <2>1, EmptySeq DEF Queue
  <2> QED  BY <2>1, <2>2, <1>1, RemovalOrders DEF Holding
<1> QED  BY <1>2, <1>3, <1>4, <1>5, SendOrders, FrontOrders, PushOrders, StepsSorted

(***************************************************************************)
(* Packets reach the socket in the order they were pushed, none twice,     *)
(* whatever reconnects, drops and resets happen in between.                *)
(***************************************************************************)
THEOREM PacketsGoOutInOrder == Spec => []SentInOrder
<1>1. Init => Ordered
  <2> SUFFICES ASSUME Init PROVE Ordered
    OBVIOUS
  <2>1. Len(pushed) = 0 /\ Len(sent) = 0 /\ Len(Queue) = 0 /\ ~Holding
    BY EmptySeq, EmptyQueue DEF Init, Holding
  <2>2. QueueEndsPushed
    BY <2>1 DEF QueueEndsPushed
  <2>3. PICK f : f = [i \in 1..0 |-> 0]
    OBVIOUS
  <2>4. Places(f) /\ HasPlace(f)
    BY <2>1, <2>3 DEF Places, HasPlace
  <2> QED  BY <2>2, <2>4 DEF Ordered
<1>2. Ordered => SentInOrder
  BY DEF Ordered, Places, SentInOrder
<1> QED  BY <1>1, <1>2, StepOrders, AlwaysSafe, PTL DEF Spec
-----------------------------------------------------------------------------
(***************************************************************************)
(* The headers.  For an application that gives them once, first of all,    *)
(* Given says what the client has of them at each point of the feeder's    *)
(* calls; HeadersKnown says that a header flag is never set on a published *)
(* stream without its header having gone out on that very connection: the  *)
(* flags outlive a reconnect after a timeout, but published does not.      *)
(***************************************************************************)
GivenOnce == /\ HeadersFirst
             /\ \A p, q \in WithSps : p = q
             /\ MaxResets = 0

Given ==
    controller # "stopped" =>
      /\ pushed # <<>> => /\ metaData /\ spsData
                          /\ feeder \notin {"metadata", "sps"}
                          /\ WithSps \subseteq Owned
      /\ feeder \in {"sps", "push"} => metaData
      /\ feeder = "sps" => feeding \in WithSps
      /\ feeder = "push" => spsData /\ (pushed = <<>> => feeding \in WithSps)

HeadersKnown ==
    /\ published /\ sender # "flags" /\ hasSendMeta => "meta" \in onWire
    /\ published /\ sender # "flags" /\ hasSendSps => "sps" \in onWire
    /\ sender \in {"sps", "send"} => hasSendMeta
    /\ sender = "send" /\ held \in Video => hasSendSps
    /\ Holding => pushed # <<>>

(***************************************************************************)
(* The FIFO never gives a packet back: what it took is in a live node or   *)
(* was freed.                                                              *)
(***************************************************************************)
LEMMA OwnedGrows ==
  ASSUME FifoInv, \/ UNCHANGED fifoVars \/ PacketFifoFront \/ Pop
                  \/ \E p \in Packet : PacketFifoPush(p)
  PROVE  Owned \subseteq Owned'
<1>1. CASE UNCHANGED fifoVars
  BY <1>1 DEF fifoVars, Owned
<1>2. CASE PacketFifoFront
  BY <1>2 DEF PacketFifoFront, heapVars, Owned
<1>3. CASE PacketFifoPop
  BY <1>3 DEF PacketFifoPop, Owned
<1>4. ASSUME NEW p \in Packet, PacketFifoPush(p) PROVE Owned \subseteq Owned'
  <2>1. PICK n \in Node \ live :
          packet' = [packet EXCEPT ![n] = p] /\ live' = live \cup {n}
    BY <1>4 DEF PacketFifoPush
  <2>2. freed' = freed /\ \A m \in live : m # n /\ packet'[m] = packet[m]
    BY <1>4, <2>1 DEF PacketFifoPush, FifoInv, FifoTypeOK
  <2> QED  BY <2>1, <2>2 DEF Owned
<1> QED  BY <1>1, <1>2, <1>3, <1>4 DEF Pop

LEMMA PushOwns ==
  ASSUME FifoInv, NEW p \in Packet, PacketFifoPush(p)
  PROVE  p \in Owned'
<1>1. PICK n \in Node \ live :
        packet' = [packet EXCEPT ![n] = p] /\ live' = live \cup {n}
  BY DEF PacketFifoPush
<1>2. packet'[n] = p
  BY <1>1 DEF FifoInv, FifoTypeOK
<1> QED  BY <1>1, <1>2 DEF Owned

LEMMA NobodyResets ==
  ASSUME GivenOnce, SafeInv
  PROVE  resets = 0 /\ feeder \notin {"clear", "flags", "close"}
BY ClientAssumption DEF GivenOnce, SafeInv, TypeOK, Threads

(* the sender takes what the application gave as it finds it *)
LEMMA SenderTakes ==
  ASSUME SafeInv, SenderStep
  PROVE  /\ UNCHANGED <<feederVars, controller>>
         /\ Owned \subseteq Owned'
<1>1. UNCHANGED <<feederVars, controller>>
  BY DEF SenderStep, Run, ConnectStreamSocket, ConnectStreamPublish, ClearFlags, While,
         Front, Look, Drop, SendMeta, SendSps, SendPacketOk, SendPacketFails,
         Reconnect, PopSent, Close
<1>2. UNCHANGED fifoVars \/ PacketFifoFront \/ Pop
  BY DEF SenderStep, Run, ConnectStreamSocket, ConnectStreamPublish, ClearFlags, While,
         Front, Look, Drop, SendMeta, SendSps, SendPacketOk, SendPacketFails,
         Reconnect, PopSent, Close
<1> QED  BY <1>1, <1>2, OwnedGrows DEF SafeInv

LEMMA StepGives == GivenOnce /\ SafeInv /\ Given /\ [Next]_vars => Given'
<1> SUFFICES ASSUME GivenOnce, SafeInv, Given, [Next]_vars PROVE Given'
  OBVIOUS
<1>1. FifoInv /\ TypeOK /\ Threads
  BY DEF SafeInv
<1>2. resets = 0 /\ feeder \notin {"clear", "flags", "close"}
  BY NobodyResets
<1>3. CASE SenderStep
  BY <1>3, SenderTakes DEF Given, feederVars, inputVars
<1>4. CASE SetMetaData
  BY <1>1, <1>4 DEF SetMetaData, FeederCalls, FeederAt, Given, GivenOnce, Threads
<1>5. CASE SetMetaDataEnd
  BY <1>1, <1>5 DEF SetMetaDataEnd, FeederAt, Given, Threads
<1>6. ASSUME NEW p \in Packet, SendData(p) PROVE Given'
  <2>1. /\ p \notin Owned /\ (pushed = <<>> => metaData /\ p \in WithSps)
        /\ controller # "stopped" /\ controller' = controller
        /\ feeder = "idle" /\ feeder' = (IF p \in WithSps THEN "sps" ELSE "push")
        /\ feeding' = p /\ spsData' = (spsData /\ p \notin WithSps)
        /\ UNCHANGED <<fifoVars, metaData, pushed>>
    BY <1>6 DEF SendData, FeederCalls, FeederAt, GivenOnce
  <2>2. Owned' = Owned
    BY <2>1 DEF fifoVars, Owned
  <2>3. pushed # <<>> => p \notin WithSps /\ metaData /\ spsData /\ WithSps \subseteq Owned
    BY <2>1 DEF Given
  <2>4. CASE pushed # <<>>
    BY <2>1, <2>2, <2>3, <2>4 DEF Given
  <2>5. CASE pushed = <<>>
    BY <2>1, <2>2, <2>5 DEF Given
  <2> QED  BY <2>4, <2>5
<1>7. CASE StoreSps
  <2>1. UNCHANGED <<fifoVars, metaData, pushed, feeding, controller>>
        /\ feeder = "sps" /\ feeder' = "push" /\ spsData' = TRUE
    BY <1>7 DEF StoreSps, FeederAt
  <2>2. Owned' = Owned
    BY <2>1 DEF fifoVars, Owned
  <2> QED  BY <2>1, <2>2 DEF Given
<1>8. CASE Push
  <2>1. /\ feeder = "push" /\ feeder' = "idle" /\ feeding \in Packet
        /\ PacketFifoPush(feeding) /\ UNCHANGED <<metaData, spsData, controller>>
    BY <1>8 DEF Push, FeederAt, PacketFifoPush, inputVars
  <2>2. feeding \in Owned' /\ Owned \subseteq Owned'
    BY <2>1, <1>1, PushOwns, OwnedGrows
  <2>3. controller # "stopped" => metaData /\ spsData /\ WithSps \subseteq Owned'
    BY <2>1, <2>2 DEF Given, GivenOnce
  <2> QED  BY <2>1, <2>3 DEF Given
<1>9. CASE BeforeSendData
  BY <1>1, <1>2, <1>9, ClientAssumption DEF BeforeSendData, GivenOnce
<1>10. CASE ResetClear \/ ResetFlags \/ ResetClose
  BY <1>2, <1>10 DEF ResetClear, ResetFlags, ResetClose, FeederAt
<1>11. CASE StopRunning \/ StopPlaying \/ NetworkFails \/ NetworkHeals \/ UNCHANGED vars
  <2>1. UNCHANGED <<fifoVars, feederVars>> /\ (controller = "stopped" => controller' = "stopped")
    BY <1>11 DEF StopRunning, StopPlaying, NetworkFails, NetworkHeals, vars, clientVars,
                 ControllerAt
  <2>2. Owned' = Owned
    BY <2>1 DEF fifoVars, Owned
  <2> QED  BY <2>1, <2>2 DEF Given, feederVars, inputVars
<1>12. CASE StopRelease
  BY <1>12 DEF StopRelease, ControllerAt, Given
<1> QED  BY <1>3, <1>4, <1>5, <1>6, <1>7, <1>8, <1>9, <1>10, <1>11, <1>12
         DEF Next, FeederStep, ControllerStep, Stopped

(* the sender's own steps *)
LEMMA SenderKnows ==
  ASSUME SafeInv, NothingLost, Given, HeadersKnown, resets = 0, SenderStep
  PROVE  HeadersKnown'
<1>1. FifoInv /\ TypeOK /\ Threads
  BY DEF SafeInv
<1>2. pushed' = pushed
  BY SenderTakes DEF feederVars
<1>3. Holding => pushed # <<>> /\ metaData /\ spsData
  BY <1>1 DEF Holding, HeadersKnown, Given, Threads
<1> USE DEF HeadersKnown, Holding, SenderAt, connVars, flagVars, TypeOK
<1>4. CASE Run
  BY <1>1, <1>2, <1>4 DEF Run
<1>5. CASE ConnectStreamSocket
  BY <1>1, <1>2, <1>5 DEF ConnectStreamSocket, ConnectSocket, RtmpClose
<1>6. CASE ConnectStreamPublish
  BY <1>1, <1>2, <1>6 DEF ConnectStreamPublish, RtmpClose
<1>7. CASE ClearFlags
  BY <1>1, <1>2, <1>7 DEF ClearFlags
<1>8. CASE While
  BY <1>1, <1>2, <1>8 DEF While
<1>9. CASE Front
  <2>1. /\ sender = "front" /\ sender' \in {"while", "look"}
        /\ UNCHANGED <<connVars, flagVars>>
        /\ sender' = "look" => answer' # NULL
    BY <1>9 DEF Front
  <2>2. ASSUME sender' = "look" PROVE pushed # <<>>
    <3>1. chain # <<>>
      BY <2>1, <2>2, <1>1, <1>9, FrontEffect DEF Front
    <3>2. packet[chain[1]] \in Queued
      BY <3>1, <1>1, HeadOfQueue
    <3>3. Queued \subseteq Elems(pushed)
      BY <1>1, <2>1 DEF NothingLost, Threads
    <3>4. Elems(<<>>) = {}
      BY EmptySeq DEF Elems
    <3> QED  BY <3>2, <3>3, <3>4
  <2> QED  BY <2>1, <2>2, <1>2
<1>10. CASE Look
  BY <1>1, <1>2, <1>10 DEF Look
<1>11. CASE Drop \/ PopSent
  BY <1>1, <1>2, <1>11 DEF Drop, PopSent
<1>12. CASE SendMeta
  BY <1>1, <1>2, <1>3, <1>12 DEF SendMeta, SendWorks, SendFails
<1>13. CASE SendSps
  BY <1>1, <1>2, <1>3, <1>13 DEF SendSps, SendWorks, SendFails
<1>14. CASE SendPacketOk
  BY <1>1, <1>2, <1>14 DEF SendPacketOk, SendWorks
<1>15. CASE SendPacketFails
  BY <1>1, <1>2, <1>15 DEF SendPacketFails, SendFails
<1>16. CASE Reconnect
  BY <1>1, <1>2, <1>16 DEF Reconnect, ConnectSocket, RtmpClose
<1>17. CASE Close
  BY <1>1, <1>2, <1>17 DEF Close, RtmpClose
<1> QED  BY <1>4, <1>5, <1>6, <1>7, <1>8, <1>9, <1>10, <1>11, <1>12, <1>13, <1>14,
            <1>15, <1>16, <1>17 DEF SenderStep

LEMMA StepKnows ==
  GivenOnce /\ SafeInv /\ NothingLost /\ Given /\ HeadersKnown /\ [Next]_vars
    => HeadersKnown'
<1> SUFFICES ASSUME GivenOnce, SafeInv, NothingLost, Given, HeadersKnown, [Next]_vars
             PROVE  HeadersKnown'
  OBVIOUS
<1>1. FifoInv /\ TypeOK /\ Threads
  BY DEF SafeInv
<1>2. resets = 0 /\ feeder \notin {"clear", "flags", "close"}
  BY NobodyResets
<1>3. CASE SenderStep
  BY <1>2, <1>3, SenderKnows
<1>4. CASE Push
  <2>1. feeding \in Packet /\ pushed' = Append(pushed, feeding)
        /\ UNCHANGED <<sender, held, connVars, flagVars>>
    BY <1>4 DEF Push, PacketFifoPush
  <2>2. pushed' # <<>>
    <3>1. Len(pushed') = Len(pushed) + 1 /\ Len(pushed) \in Nat
      BY <2>1, <1>1, AppendProperties DEF TypeOK
    <3> QED  BY <3>1, EmptySeq
  <2> QED  BY <2>1, <2>2 DEF HeadersKnown, Holding, connVars, flagVars
<1>5. CASE SetMetaData \/ SetMetaDataEnd \/ (\E p \in Packet : SendData(p)) \/ StoreSps
           \/ StopRunning \/ StopPlaying \/ NetworkFails \/ NetworkHeals \/ UNCHANGED vars
  <2>1. UNCHANGED <<sender, held, published, onWire, flagVars, pushed>>
    BY <1>5 DEF SetMetaData, SetMetaDataEnd, SendData, StoreSps, StopRunning, StopPlaying,
                NetworkFails, NetworkHeals, vars, clientVars, connVars, feederVars
  <2> QED  BY <2>1 DEF HeadersKnown, Holding, flagVars
<1>6. CASE BeforeSendData
  BY <1>1, <1>2, <1>6, ClientAssumption DEF BeforeSendData, GivenOnce
<1>7. CASE ResetClear \/ ResetFlags \/ ResetClose
  BY <1>2, <1>7 DEF ResetClear, ResetFlags, ResetClose, FeederAt
<1>8. CASE StopRelease
  BY <1>8 DEF StopRelease, RtmpClose, HeadersKnown, Holding
<1> QED  BY <1>3, <1>4, <1>5, <1>6, <1>7, <1>8 DEF Next, FeederStep, ControllerStep, Stopped

(***************************************************************************)
(* An application that gives the metadata and the SPS/PPS once, before the *)
(* first packet, and never calls beforeSendData: whatever connections fail *)
(* and are made again, media goes to a published stream only after the     *)
(* metadata, and video only after the SPS and PPS, on that connection.     *)
(***************************************************************************)
THEOREM HeadersGoFirst ==
  ASSUME GivenOnce
  PROVE  Spec => HeadersPrecedeMedia
<1> DEFINE A == sent' # sent /\ published => /\ "meta" \in onWire
                                             /\ held \in Video => "sps" \in onWire
<1>1. Init => Given /\ HeadersKnown
  BY DEF Init, Given, HeadersKnown, Holding
<1>2. SafeInv /\ HeadersKnown /\ [Next]_vars => [A]_vars
  <2> SUFFICES ASSUME SafeInv, HeadersKnown, [Next]_vars, sent' # sent, published
               PROVE  "meta" \in onWire /\ (held \in Video => "sps" \in onWire)
    OBVIOUS
  <2>1. TypeOK
    BY DEF SafeInv
  <2>2. SendPacketOk
    <3>1. ~(QuietSender \/ QuietFeeder \/ QuietRest)
      BY <2>1, QuietSenderLemma, QuietFeederLemma, QuietRestLemma
         DEF QuietSenderFacts, QuietFeederFacts, QuietRestFacts, logVars
    <3>2. ~(Front \/ Drop \/ PopSent \/ Push \/ ResetClear \/ StopRelease)
      BY DEF Front, Drop, PopSent, Push, ResetClear, StopRelease, logVars
    <3> QED  BY <3>1, <3>2, StepsSorted
  <2> QED  BY <2>2 DEF SendPacketOk, SenderAt, HeadersKnown
<1>3. Init => NothingLost
  BY NothingLostAtFirst
<1> QED  BY <1>1, <1>2, <1>3, StepGives, StepKnows, StepAccounts, AlwaysSafe, PTL
         DEF Spec, HeadersPrecedeMedia
=============================================================================

------------------------- MODULE StreamServerProofs -------------------------
(***************************************************************************)
(* Proofs about StreamServer for any number of streams and peers.          *)
(*                                                                         *)
(* TypeOK is inductive by itself.  Inv is the invariant the rest follows   *)
(* from.  Its heart is ServedIsCurrent: only the stream the global pointer *)
(* points to is ever in progress, and a reader that serves has an open     *)
(* socket there.  The accept thread gives the pointer up only where it has *)
(* seen that this is not so, and nothing but Open makes it so again.       *)
(***************************************************************************)
EXTENDS StreamServer, TLAPS

(* At most the current stream is in progress, and its RTMP is allocated.   *)
ServedIsCurrent ==
    \A s \in Stream : stream[s] = "in_progress" => rtmpStream = s /\ rtmp[s]

(* A reader that reads or serves does so on an open socket.                *)
ServingIsConnected ==
    \A s \in Stream : Serving(s) => stream[s] = "in_progress" /\ socket[s] # NULL

(* Where the accept thread is says what it knows of the current stream.    *)
AcceptorKnows ==
    /\ acceptor = "init" => rtmpStream = NULL
    /\ acceptor \in {"close", "free", "forget"} /\ rtmpStream # NULL =>
         ~(stream[rtmpStream] = "in_progress" /\ socket[rtmpStream] # NULL)
    /\ acceptor = "free" => stream[rtmpStream] # "in_progress"
    /\ acceptor = "forget" => stream[rtmpStream] = "free"
    /\ acceptor = "select" => /\ stream[rtmpStream] = "stopped" /\ rtmp[rtmpStream]
                              /\ reader[rtmpStream] = "none"
    /\ acceptor = "serve" => /\ stream[rtmpStream] = "in_progress"
                             /\ reader[rtmpStream] = "none"

(* Only a failed handshake leaves the global pointer dangling for long.    *)
DanglingIsKnown ==
    rtmpStream # NULL /\ ~Allocated(rtmpStream) => HandshakesFail \/ acceptor = "forget"

Inv == ServedIsCurrent /\ ServingIsConnected /\ AcceptorKnows /\ DanglingIsKnown
-----------------------------------------------------------------------------
(* The types *)

LEMMA TypeInit == Init => TypeOK
BY ServerAssumption DEF Init, TypeOK

(***************************************************************************)
(* The accept thread keeps the types.                                      *)
(***************************************************************************)
LEMMA TypeAcceptor ==
    ASSUME TypeOK,
           Start \/ While \/ CallAccept \/ (\E p \in Peer : Accepted(p)) \/
           AcceptInterrupted \/ Refuse \/ Replace \/ CloseNothing \/ CloseRtmp
           \/ CloseStream \/ ForgetStream \/ InitStream \/ Ignore \/ Open \/
           HandshakeFails \/ StartReader \/ SetCallbacks
    PROVE  TypeOK'
<1> USE ServerAssumption
<1> USE DEF TypeOK, AcceptorAt, streamVars, acceptVars,
            auxVars
<1>1. CASE Start
  BY <1>1 DEF Start
<1>2. CASE While
  BY <1>2 DEF While
<1>3. CASE CallAccept
  BY <1>3 DEF CallAccept
<1>4. ASSUME NEW p \in Peer, Accepted(p) PROVE TypeOK'
  BY <1>4 DEF Accepted
<1>5. CASE AcceptInterrupted
  BY <1>5 DEF AcceptInterrupted
<1>6. CASE Refuse
  BY <1>6 DEF Refuse, Uses
<1>7. CASE Replace
  BY <1>7 DEF Replace, Uses, Connected
<1>8. CASE CloseNothing
  BY <1>8 DEF CloseNothing
<1>9. CASE CloseRtmp
  BY <1>9 DEF CloseRtmp, Uses, RtmpClose
<1>10. CASE CloseStream
  BY <1>10 DEF CloseStream, Uses
<1>11. CASE ForgetStream
  BY <1>11 DEF ForgetStream
<1>12. CASE InitStream
  BY <1>12 DEF InitStream, Unused
<1>13. CASE Ignore
  BY <1>13 DEF Ignore
<1>14. CASE Open
  BY <1>14 DEF Open, Uses
<1>15. CASE HandshakeFails
  BY <1>15 DEF HandshakeFails, RtmpClose
<1>16. CASE StartReader
  BY <1>16 DEF StartReader
<1>17. CASE SetCallbacks
  BY <1>17 DEF SetCallbacks, Uses
<1> QED BY <1>1, <1>2, <1>3, <1>4, <1>5, <1>6, <1>7, <1>8, <1>9, <1>10, <1>11, <1>12, <1>13, <1>14, <1>15, <1>16, <1>17

(***************************************************************************)
(* A reader keeps the types.                                               *)
(***************************************************************************)
LEMMA TypeReader ==
    ASSUME TypeOK, NEW s \in Stream,
           ReaderLoop(s) \/ ReadPacket(s) \/ ServePacket(s) \/ Leave(s) \/
           CloseReader(s) \/ ExitReader(s)
    PROVE  TypeOK'
<1> USE ServerAssumption
<1> USE DEF TypeOK, ReaderAt, Uses, streamVars, acceptVars,
            auxVars
<1>1. CASE ReaderLoop(s)
  BY <1>1 DEF ReaderLoop
<1>2. CASE ReadPacket(s)
  <2>1. reader' \in {[reader EXCEPT ![s] = "serve"], [reader EXCEPT ![s] = "leave"]}
    BY <1>2 DEF ReadPacket, UsesRtmp
  <2>2. \/ socket' = socket /\ fds' = fds
        \/ socket' = [socket EXCEPT ![s] = NULL] /\ fds' = fds \ {socket[s]}
    BY <1>2 DEF ReadPacket, UsesRtmp, RtmpClose
  <2>3. /\ UNCHANGED <<acceptVars, callback, stream, rtmp, streamCb, app, peer, auxVars>>
        /\ wild' = FALSE
    BY <1>2 DEF ReadPacket, UsesRtmp
  <2>4. reader' \in [Stream -> {"none", "loop", "read", "serve", "leave", "close", "exit", "done"}]
    BY <2>1
  <2>5. socket' \in [Stream -> Peer \cup {NULL}] /\ fds' \subseteq Peer
    BY <2>2
  <2> QED BY <2>3, <2>4, <2>5
<1>3. CASE ServePacket(s)
  BY <1>3 DEF ServePacket, UsesRtmp, RtmpClose
<1>4. CASE Leave(s)
  BY <1>4 DEF Leave
<1>5. CASE CloseReader(s)
  BY <1>5 DEF CloseReader, UsesRtmp, RtmpClose
<1>6. CASE ExitReader(s)
  BY <1>6 DEF ExitReader, UsesRtmp
<1> QED BY <1>1, <1>2, <1>3, <1>4, <1>5, <1>6

(***************************************************************************)
(* The application and the peers keep the types.                           *)
(***************************************************************************)
LEMMA TypeOthers ==
    ASSUME TypeOK,
           RegisterCallback \/ StopState \/ StopSocket \/ StopJoin \/ UsesFreed
           \/ (\E p \in Peer : Connect(p)) \/ UNCHANGED vars
    PROVE  TypeOK'
<1> USE ServerAssumption
<1> USE DEF TypeOK, AppAt, streamVars, acceptVars,
            auxVars
<1>1. CASE RegisterCallback
  BY <1>1 DEF RegisterCallback, Uses
<1>2. CASE StopState
  BY <1>2 DEF StopState
<1>3. CASE StopSocket
  BY <1>3 DEF StopSocket
<1>4. CASE StopJoin
  BY <1>4 DEF StopJoin
<1>5. CASE UsesFreed
  BY <1>5 DEF UsesFreed
<1>6. ASSUME NEW p \in Peer, Connect(p) PROVE TypeOK'
  BY <1>6 DEF Connect
<1>7. CASE UNCHANGED vars
  BY <1>7 DEF vars
<1> QED BY <1>1, <1>2, <1>3, <1>4, <1>5, <1>6, <1>7

LEMMA TypeStep ==
    ASSUME TypeOK, [Next]_vars
    PROVE  TypeOK'
<1>1. CASE AcceptorStep
  BY <1>1, TypeAcceptor, TypeOthers DEF AcceptorStep, AcceptorUsesFreed
<1>2. CASE AcceptInterrupted
  BY <1>2, TypeAcceptor
<1>3. CASE AppStep
  BY <1>3, TypeOthers DEF AppStep, AppUsesFreed
<1>4. ASSUME NEW s \in Stream, ReaderStep(s) PROVE TypeOK'
  BY <1>4, TypeReader, TypeOthers DEF ReaderStep, ReaderUsesFreed
<1>5. CASE \E p \in Peer : Connect(p)
  BY <1>5, TypeOthers
<1>6. CASE Ended \/ UNCHANGED vars
  BY <1>6, TypeOthers DEF Ended
<1> QED BY <1>1, <1>2, <1>3, <1>4, <1>5, <1>6 DEF Next

(***************************************************************************)
(* Every variable stays within the values the threads give it.             *)
(***************************************************************************)
THEOREM TypeCorrect == Spec => []TypeOK
BY TypeInit, TypeStep, PTL DEF Spec
-----------------------------------------------------------------------------
(* The invariant *)

LEMMA InvInit == Init => Inv
BY ServerAssumption DEF Init, Inv, ServedIsCurrent, ServingIsConnected, Serving,
   AcceptorKnows, DanglingIsKnown

(***************************************************************************)
(* The accept thread: it closes a stream only after it has seen that it is *)
(* not connected, and opens one only when there is none.                   *)
(***************************************************************************)
LEMMA InvAcceptor ==
    ASSUME TypeOK, Inv,
           Start \/ While \/ CallAccept \/ (\E p \in Peer : Accepted(p)) \/
           AcceptInterrupted \/ Refuse \/ Replace \/ CloseNothing \/ CloseRtmp
           \/ CloseStream \/ ForgetStream \/ InitStream \/ Ignore \/ Open \/
           HandshakeFails \/ StartReader \/ SetCallbacks
    PROVE  Inv'
<1> USE ServerAssumption
<1> USE DEF Inv, ServedIsCurrent, ServingIsConnected, Serving, AcceptorKnows,
            DanglingIsKnown, Allocated, TypeOK, AcceptorAt, streamVars, acceptVars,
            auxVars
<1>1. CASE Start
  BY <1>1 DEF Start
<1>2. CASE While
  BY <1>2 DEF While
<1>3. CASE CallAccept
  BY <1>3 DEF CallAccept
<1>4. ASSUME NEW p \in Peer, Accepted(p) PROVE Inv'
  BY <1>4 DEF Accepted
<1>5. CASE AcceptInterrupted
  BY <1>5 DEF AcceptInterrupted
<1>6. CASE Refuse
  BY <1>6 DEF Refuse, Uses
<1>7. CASE Replace
  BY <1>7 DEF Replace, Uses, Connected
<1>8. CASE CloseNothing
  BY <1>8 DEF CloseNothing
<1>9. CASE CloseRtmp
  BY <1>9 DEF CloseRtmp, Uses, RtmpClose
<1>10. CASE CloseStream
  BY <1>10 DEF CloseStream, Uses
<1>11. CASE ForgetStream
  BY <1>11 DEF ForgetStream
<1>12. CASE InitStream
  BY <1>12 DEF InitStream, Unused
<1>13. CASE Ignore
  BY <1>13 DEF Ignore
<1>14. CASE Open
  BY <1>14 DEF Open, Uses
<1>15. CASE HandshakeFails
  BY <1>15 DEF HandshakeFails, RtmpClose
<1>16. CASE StartReader
  BY <1>16 DEF StartReader
<1>17. CASE SetCallbacks
  BY <1>17 DEF SetCallbacks, Uses
<1> QED BY <1>1, <1>2, <1>3, <1>4, <1>5, <1>6, <1>7, <1>8, <1>9, <1>10, <1>11, <1>12, <1>13, <1>14, <1>15, <1>16, <1>17

(***************************************************************************)
(* The readers: one changes its own stream only, and not before the accept *)
(* thread has started it.                                                  *)
(***************************************************************************)
LEMMA InvReader ==
    ASSUME TypeOK, Inv, NEW s \in Stream,
           ReaderLoop(s) \/ ReadPacket(s) \/ ServePacket(s) \/ Leave(s) \/
           CloseReader(s) \/ ExitReader(s)
    PROVE  Inv'
<1> USE ServerAssumption
<1> USE DEF Inv, ServedIsCurrent, ServingIsConnected, Serving, AcceptorKnows,
            DanglingIsKnown, Allocated, TypeOK, ReaderAt, Uses, streamVars, acceptVars,
            auxVars
<1>1. CASE ReaderLoop(s)
  BY <1>1 DEF ReaderLoop
<1>2. CASE ReadPacket(s)
  BY <1>2 DEF ReadPacket, UsesRtmp, RtmpClose
<1>3. CASE ServePacket(s)
  BY <1>3 DEF ServePacket, UsesRtmp, RtmpClose
<1>4. CASE Leave(s)
  BY <1>4 DEF Leave
<1>5. CASE CloseReader(s)
  BY <1>5 DEF CloseReader, UsesRtmp, RtmpClose
<1>6. CASE ExitReader(s)
  BY <1>6 DEF ExitReader, UsesRtmp
<1> QED BY <1>1, <1>2, <1>3, <1>4, <1>5, <1>6

(***************************************************************************)
(* The application and the peers change nothing the invariant is about.    *)
(***************************************************************************)
LEMMA InvOthers ==
    ASSUME TypeOK, Inv,
           RegisterCallback \/ StopState \/ StopSocket \/ StopJoin \/ UsesFreed
           \/ (\E p \in Peer : Connect(p)) \/ UNCHANGED vars
    PROVE  Inv'
<1> USE ServerAssumption
<1> USE DEF Inv, ServedIsCurrent, ServingIsConnected, Serving, AcceptorKnows,
            DanglingIsKnown, Allocated, TypeOK, AppAt, streamVars, acceptVars,
            auxVars
<1>1. CASE RegisterCallback
  BY <1>1 DEF RegisterCallback, Uses
<1>2. CASE StopState
  BY <1>2 DEF StopState
<1>3. CASE StopSocket
  BY <1>3 DEF StopSocket
<1>4. CASE StopJoin
  BY <1>4 DEF StopJoin
<1>5. CASE UsesFreed
  BY <1>5 DEF UsesFreed
<1>6. ASSUME NEW p \in Peer, Connect(p) PROVE Inv'
  BY <1>6 DEF Connect
<1>7. CASE UNCHANGED vars
  BY <1>7 DEF vars
<1> QED BY <1>1, <1>2, <1>3, <1>4, <1>5, <1>6, <1>7

LEMMA InvStep ==
    ASSUME TypeOK, Inv, [Next]_vars
    PROVE  Inv'
<1>1. CASE AcceptorStep
  BY <1>1, InvAcceptor, InvOthers DEF AcceptorStep, AcceptorUsesFreed
<1>2. CASE AcceptInterrupted
  BY <1>2, InvAcceptor
<1>3. CASE AppStep
  BY <1>3, InvOthers DEF AppStep, AppUsesFreed
<1>4. ASSUME NEW s \in Stream, ReaderStep(s) PROVE Inv'
  BY <1>4, InvReader, InvOthers DEF ReaderStep, ReaderUsesFreed
<1>5. CASE \E p \in Peer : Connect(p)
  BY <1>5, InvOthers
<1>6. CASE Ended \/ UNCHANGED vars
  BY <1>6, InvOthers DEF Ended
<1> QED BY <1>1, <1>2, <1>3, <1>4, <1>5, <1>6 DEF Next

LEMMA InvHolds == Spec => []Inv
BY TypeCorrect, InvInit, InvStep, PTL DEF Spec

(***************************************************************************)
(* At most one reader serves, its stream and RTMP are allocated and the    *)
(* stream is the current one: streamIsConnect is enough to keep the accept *)
(* thread from it.                                                         *)
(***************************************************************************)
THEOREM ServerHasOneReader == Spec => []OneServingReader
<1>1. TypeOK /\ Inv => OneServingReader
  BY DEF Inv, ServedIsCurrent, ServingIsConnected, OneServingReader, Allocated
<1> QED BY <1>1, TypeCorrect, InvHolds, PTL
-----------------------------------------------------------------------------
(* Callbacks *)

(* A reader of the stream in progress, serving or not, has the callbacks.  *)
RunningHasCallbacks ==
    \A s \in Stream : stream[s] = "in_progress" /\ Running(s) /\ callback /\ acceptor # "callbacks"
        => streamCb[s]

(***************************************************************************)
(* The accept thread copies the callbacks before it is back in its loop.   *)
(***************************************************************************)
LEMMA CallbacksAcceptor ==
    ASSUME TypeOK, Inv, RunningHasCallbacks,
           Start \/ While \/ CallAccept \/ (\E p \in Peer : Accepted(p)) \/
           AcceptInterrupted \/ Refuse \/ Replace \/ CloseNothing \/ CloseRtmp
           \/ CloseStream \/ ForgetStream \/ InitStream \/ Ignore \/ Open \/
           HandshakeFails \/ StartReader \/ SetCallbacks
    PROVE  RunningHasCallbacks'
<1> USE ServerAssumption
<1> USE DEF RunningHasCallbacks, Running, Inv, ServedIsCurrent, AcceptorKnows, Allocated,
            TypeOK, AcceptorAt, streamVars, acceptVars,
            auxVars
<1>1. CASE Start
  BY <1>1 DEF Start
<1>2. CASE While
  BY <1>2 DEF While
<1>3. CASE CallAccept
  BY <1>3 DEF CallAccept
<1>4. ASSUME NEW p \in Peer, Accepted(p) PROVE RunningHasCallbacks'
  BY <1>4 DEF Accepted
<1>5. CASE AcceptInterrupted
  BY <1>5 DEF AcceptInterrupted
<1>6. CASE Refuse
  BY <1>6 DEF Refuse, Uses
<1>7. CASE Replace
  BY <1>7 DEF Replace, Uses, Connected
<1>8. CASE CloseNothing
  BY <1>8 DEF CloseNothing
<1>9. CASE CloseRtmp
  BY <1>9 DEF CloseRtmp, Uses, RtmpClose
<1>10. CASE CloseStream
  BY <1>10 DEF CloseStream, Uses
<1>11. CASE ForgetStream
  BY <1>11 DEF ForgetStream
<1>12. CASE InitStream
  BY <1>12 DEF InitStream, Unused
<1>13. CASE Ignore
  BY <1>13 DEF Ignore
<1>14. CASE Open
  BY <1>14 DEF Open, Uses
<1>15. CASE HandshakeFails
  BY <1>15 DEF HandshakeFails, RtmpClose
<1>16. CASE StartReader
  BY <1>16 DEF StartReader
<1>17. CASE SetCallbacks
  BY <1>17 DEF SetCallbacks, Uses
<1> QED BY <1>1, <1>2, <1>3, <1>4, <1>5, <1>6, <1>7, <1>8, <1>9, <1>10, <1>11, <1>12, <1>13, <1>14, <1>15, <1>16, <1>17

(***************************************************************************)
(* No reader begins to serve a stream that has none.                       *)
(***************************************************************************)
LEMMA CallbacksReader ==
    ASSUME TypeOK, Inv, RunningHasCallbacks, NEW s \in Stream,
           ReaderLoop(s) \/ ReadPacket(s) \/ ServePacket(s) \/ Leave(s) \/
           CloseReader(s) \/ ExitReader(s)
    PROVE  RunningHasCallbacks'
<1> USE ServerAssumption
<1> USE DEF RunningHasCallbacks, Running, Inv, ServedIsCurrent, AcceptorKnows, Allocated,
            TypeOK, ReaderAt, Uses, streamVars, acceptVars,
            auxVars
<1>1. CASE ReaderLoop(s)
  BY <1>1 DEF ReaderLoop
<1>2. CASE ReadPacket(s)
  BY <1>2 DEF ReadPacket, UsesRtmp, RtmpClose
<1>3. CASE ServePacket(s)
  BY <1>3 DEF ServePacket, UsesRtmp, RtmpClose
<1>4. CASE Leave(s)
  BY <1>4 DEF Leave
<1>5. CASE CloseReader(s)
  BY <1>5 DEF CloseReader, UsesRtmp, RtmpClose
<1>6. CASE ExitReader(s)
  BY <1>6 DEF ExitReader, UsesRtmp
<1> QED BY <1>1, <1>2, <1>3, <1>4, <1>5, <1>6

(***************************************************************************)
(* The application registers callbacks for streams to come only while      *)
(* there is no current one.                                                *)
(***************************************************************************)
LEMMA CallbacksOthers ==
    ASSUME TypeOK, Inv, RunningHasCallbacks,
           RegisterCallback \/ StopState \/ StopSocket \/ StopJoin \/ UsesFreed
           \/ (\E p \in Peer : Connect(p)) \/ UNCHANGED vars
    PROVE  RunningHasCallbacks'
<1> USE ServerAssumption
<1> USE DEF RunningHasCallbacks, Running, Inv, ServedIsCurrent, AcceptorKnows, Allocated,
            TypeOK, AppAt, streamVars, acceptVars,
            auxVars
<1>1. CASE RegisterCallback
  BY <1>1 DEF RegisterCallback, Uses
<1>2. CASE StopState
  BY <1>2 DEF StopState
<1>3. CASE StopSocket
  BY <1>3 DEF StopSocket
<1>4. CASE StopJoin
  BY <1>4 DEF StopJoin
<1>5. CASE UsesFreed
  BY <1>5 DEF UsesFreed
<1>6. ASSUME NEW p \in Peer, Connect(p) PROVE RunningHasCallbacks'
  BY <1>6 DEF Connect
<1>7. CASE UNCHANGED vars
  BY <1>7 DEF vars
<1> QED BY <1>1, <1>2, <1>3, <1>4, <1>5, <1>6, <1>7

LEMMA CallbacksStep ==
    ASSUME TypeOK, Inv, RunningHasCallbacks, [Next]_vars
    PROVE  RunningHasCallbacks'
<1>1. CASE AcceptorStep
  BY <1>1, CallbacksAcceptor, CallbacksOthers DEF AcceptorStep, AcceptorUsesFreed
<1>2. CASE AcceptInterrupted
  BY <1>2, CallbacksAcceptor
<1>3. CASE AppStep
  BY <1>3, CallbacksOthers DEF AppStep, AppUsesFreed
<1>4. ASSUME NEW s \in Stream, ReaderStep(s) PROVE RunningHasCallbacks'
  BY <1>4, CallbacksReader, CallbacksOthers DEF ReaderStep, ReaderUsesFreed
<1>5. CASE \E p \in Peer : Connect(p)
  BY <1>5, CallbacksOthers
<1>6. CASE Ended \/ UNCHANGED vars
  BY <1>6, CallbacksOthers DEF Ended
<1> QED BY <1>1, <1>2, <1>3, <1>4, <1>5, <1>6 DEF Next

(***************************************************************************)
(* Callbacks registered before any stream exists are set in every stream   *)
(* that is served, once the accept thread has copied them.                 *)
(***************************************************************************)
THEOREM ReadersHaveCallbacks == Spec => []CallbacksReachReader
<1>1. Init => RunningHasCallbacks
  BY DEF Init, RunningHasCallbacks
<1>2. Inv /\ RunningHasCallbacks => CallbacksReachReader
  BY DEF Inv, ServingIsConnected, RunningHasCallbacks, Running, CallbacksReachReader, Serving
<1> QED BY <1>1, <1>2, TypeCorrect, InvHolds, CallbacksStep, PTL DEF Spec
-----------------------------------------------------------------------------
(* Descriptors *)

(* A stream that was made and not opened has no descriptor.                *)
UnopenedIsClosed == \A s \in Stream : stream[s] = "stopped" /\ rtmp[s] => socket[s] = NULL

(* closeRtmpStreaming has closed the stream it is about to free.           *)
FreedIsClosed == acceptor = "free" => ~rtmp[rtmpStream] \/ socket[rtmpStream] = NULL

Owners == UnopenedIsClosed /\ FreedIsClosed /\ NoDescriptorLost

(***************************************************************************)
(* The accept thread hands the descriptor to the stream, or closes it, or  *)
(* ignores its peer; what it frees has no descriptor.                      *)
(***************************************************************************)
LEMMA OwnersAcceptor ==
    ASSUME TypeOK, Inv, Owners,
           Start \/ While \/ CallAccept \/ (\E p \in Peer : Accepted(p)) \/
           AcceptInterrupted \/ Refuse \/ Replace \/ CloseNothing \/ CloseRtmp
           \/ CloseStream \/ ForgetStream \/ InitStream \/ Ignore \/ Open \/
           HandshakeFails \/ StartReader \/ SetCallbacks
    PROVE  Owners'
<1> USE ServerAssumption
<1> USE DEF Owners, UnopenedIsClosed, FreedIsClosed, NoDescriptorLost, Inv,
            AcceptorKnows, Allocated, TypeOK, AcceptorAt, streamVars, acceptVars,
            auxVars
<1>1. CASE Start
  BY <1>1 DEF Start
<1>2. CASE While
  BY <1>2 DEF While
<1>3. CASE CallAccept
  BY <1>3 DEF CallAccept
<1>4. ASSUME NEW p \in Peer, Accepted(p) PROVE Owners'
  BY <1>4 DEF Accepted
<1>5. CASE AcceptInterrupted
  BY <1>5 DEF AcceptInterrupted
<1>6. CASE Refuse
  BY <1>6 DEF Refuse, Uses
<1>7. CASE Replace
  BY <1>7 DEF Replace, Uses, Connected
<1>8. CASE CloseNothing
  BY <1>8 DEF CloseNothing
<1>9. CASE CloseRtmp
  BY <1>9 DEF CloseRtmp, Uses, RtmpClose
<1>10. CASE CloseStream
  BY <1>10 DEF CloseStream, Uses
<1>11. CASE ForgetStream
  BY <1>11 DEF ForgetStream
<1>12. CASE InitStream
  BY <1>12 DEF InitStream, Unused
<1>13. CASE Ignore
  BY <1>13 DEF Ignore
<1>14. CASE Open
  BY <1>14 DEF Open, Uses
<1>15. CASE HandshakeFails
  BY <1>15 DEF HandshakeFails, RtmpClose
<1>16. CASE StartReader
  BY <1>16 DEF StartReader
<1>17. CASE SetCallbacks
  BY <1>17 DEF SetCallbacks, Uses
<1> QED BY <1>1, <1>2, <1>3, <1>4, <1>5, <1>6, <1>7, <1>8, <1>9, <1>10, <1>11, <1>12, <1>13, <1>14, <1>15, <1>16, <1>17

(***************************************************************************)
(* A reader closes only the descriptor of its own stream.                  *)
(***************************************************************************)
LEMMA OwnersReader ==
    ASSUME TypeOK, Inv, Owners, NEW s \in Stream,
           ReaderLoop(s) \/ ReadPacket(s) \/ ServePacket(s) \/ Leave(s) \/
           CloseReader(s) \/ ExitReader(s)
    PROVE  Owners'
<1> USE ServerAssumption
<1> USE DEF Owners, UnopenedIsClosed, FreedIsClosed, NoDescriptorLost, Inv,
            AcceptorKnows, Allocated, TypeOK, ReaderAt, Uses, streamVars, acceptVars,
            auxVars
<1>1. CASE ReaderLoop(s)
  BY <1>1 DEF ReaderLoop
<1>2. CASE ReadPacket(s)
  BY <1>2 DEF ReadPacket, UsesRtmp, RtmpClose
<1>3. CASE ServePacket(s)
  BY <1>3 DEF ServePacket, UsesRtmp, RtmpClose
<1>4. CASE Leave(s)
  BY <1>4 DEF Leave
<1>5. CASE CloseReader(s)
  BY <1>5 DEF CloseReader, UsesRtmp, RtmpClose
<1>6. CASE ExitReader(s)
  BY <1>6 DEF ExitReader, UsesRtmp
<1> QED BY <1>1, <1>2, <1>3, <1>4, <1>5, <1>6

(***************************************************************************)
(* Nobody else opens or closes an accepted descriptor.                     *)
(***************************************************************************)
LEMMA OwnersOthers ==
    ASSUME TypeOK, Inv, Owners,
           RegisterCallback \/ StopState \/ StopSocket \/ StopJoin \/ UsesFreed
           \/ (\E p \in Peer : Connect(p)) \/ UNCHANGED vars
    PROVE  Owners'
<1> USE ServerAssumption
<1> USE DEF Owners, UnopenedIsClosed, FreedIsClosed, NoDescriptorLost, Inv,
            AcceptorKnows, Allocated, TypeOK, AppAt, streamVars, acceptVars,
            auxVars
<1>1. CASE RegisterCallback
  BY <1>1 DEF RegisterCallback, Uses
<1>2. CASE StopState
  BY <1>2 DEF StopState
<1>3. CASE StopSocket
  BY <1>3 DEF StopSocket
<1>4. CASE StopJoin
  BY <1>4 DEF StopJoin
<1>5. CASE UsesFreed
  BY <1>5 DEF UsesFreed
<1>6. ASSUME NEW p \in Peer, Connect(p) PROVE Owners'
  BY <1>6 DEF Connect
<1>7. CASE UNCHANGED vars
  BY <1>7 DEF vars
<1> QED BY <1>1, <1>2, <1>3, <1>4, <1>5, <1>6, <1>7

LEMMA OwnersStep ==
    ASSUME TypeOK, Inv, Owners, [Next]_vars
    PROVE  Owners'
<1>1. CASE AcceptorStep
  BY <1>1, OwnersAcceptor, OwnersOthers DEF AcceptorStep, AcceptorUsesFreed
<1>2. CASE AcceptInterrupted
  BY <1>2, OwnersAcceptor
<1>3. CASE AppStep
  BY <1>3, OwnersOthers DEF AppStep, AppUsesFreed
<1>4. ASSUME NEW s \in Stream, ReaderStep(s) PROVE Owners'
  BY <1>4, OwnersReader, OwnersOthers DEF ReaderStep, ReaderUsesFreed
<1>5. CASE \E p \in Peer : Connect(p)
  BY <1>5, OwnersOthers
<1>6. CASE Ended \/ UNCHANGED vars
  BY <1>6, OwnersOthers DEF Ended
<1> QED BY <1>1, <1>2, <1>3, <1>4, <1>5, <1>6 DEF Next

(***************************************************************************)
(* Every open descriptor belongs to a stream that is allocated, or to the  *)
(* accept thread while it decides, or to a request it ignored.             *)
(***************************************************************************)
THEOREM DescriptorsHaveOwners == Spec => []NoDescriptorLost
<1>1. Init => Owners
  BY DEF Init, Owners, UnopenedIsClosed, FreedIsClosed, NoDescriptorLost
<1>2. Owners => NoDescriptorLost
  BY DEF Owners
<1> QED BY <1>1, <1>2, TypeCorrect, InvHolds, OwnersStep, PTL DEF Spec
-----------------------------------------------------------------------------
(* Freed memory *)

(***************************************************************************)
(* A step after which freed memory was used is one of the three named in   *)
(* WildOnlyWhenKnown.                                                      *)
(***************************************************************************)
THEOREM FreedMemoryIsUsedOnlyWhenKnown == Spec => WildOnlyWhenKnown
<1> DEFINE Known == \/ \E s \in Stream : reader[s] \in {"loop", "leave", "close", "exit"}
                                          /\ (Allocated(s) => ~rtmp[s])
                    \/ app = "closed"
                    \/ /\ HandshakesFail \/ acceptor = "forget"
                       /\ rtmpStream # NULL /\ ~Allocated(rtmpStream)
<1>1. ASSUME TypeOK, Inv, [Next]_vars, wild' # wild
      PROVE  Known
  <2>0. wild \in BOOLEAN
    BY <1>1 DEF TypeOK
  <2>1. ~wild /\ wild' # FALSE
    <3>1. wild => wild' = wild
      BY <1>1 DEF Next, Ended, vars
    <3> QED BY <1>1, <2>0, <3>1
  <2>2. CASE AcceptorUsesFreed \/ AppUsesFreed
    BY <1>1, <2>2 DEF Inv, DanglingIsKnown, AcceptorUsesFreed, AppUsesFreed
  <2>3. ASSUME NEW s \in Stream, ReaderUsesFreed(s) PROVE Known
    <3>1. ~Serving(s) => reader[s] \in {"loop", "leave", "close", "exit"}
      BY <1>1, <2>3 DEF TypeOK, ReaderUsesFreed, Running, Serving
    <3>2. Serving(s) => Allocated(s) /\ rtmp[s]
      BY <1>1 DEF Inv, ServedIsCurrent, ServingIsConnected, Allocated
    <3> QED BY <2>3, <3>1, <3>2 DEF ReaderUsesFreed
  <2>4. CASE AcceptorStep /\ ~AcceptorUsesFreed
    <3>1. wild' = wild \/ wild' = FALSE
      <4>1. ASSUME NEW p \in Peer, Accepted(p) PROVE wild' = wild
        BY <4>1 DEF Accepted
      <4>2. CASE Start \/ While \/ CallAccept \/ CloseNothing \/ ForgetStream \/ InitStream
        BY <4>2 DEF Start, While, CallAccept, CloseNothing, ForgetStream, InitStream
      <4>3. CASE Refuse \/ Replace \/ CloseRtmp \/ CloseStream \/ Open \/ SetCallbacks
        BY <4>3 DEF Refuse, Replace, CloseRtmp, CloseStream, Open, SetCallbacks, Uses
      <4>4. CASE Ignore \/ HandshakeFails \/ StartReader
        BY <4>4 DEF Ignore, HandshakeFails, StartReader
      <4> QED BY <2>4, <4>1, <4>2, <4>3, <4>4 DEF AcceptorStep
    <3> QED BY <1>1, <2>1, <3>1
  <2>5. CASE AppStep /\ ~AppUsesFreed
    <3>1. wild' = wild \/ wild' = FALSE
      BY <2>5 DEF AppStep, RegisterCallback, Uses, StopState, StopSocket, StopJoin
    <3> QED BY <1>1, <2>1, <3>1
  <2>6. ASSUME NEW s \in Stream, ReaderStep(s), ~ReaderUsesFreed(s) PROVE Known
    <3>1. wild' = FALSE
      BY <2>6 DEF ReaderStep, ReaderLoop, ReadPacket, ServePacket, Leave, CloseReader,
         ExitReader, Uses, UsesRtmp
    <3> QED BY <2>1, <3>1
  <2>7. CASE AcceptInterrupted \/ \E p \in Peer : Connect(p)
    <3>1. wild' = wild
      BY <2>7 DEF AcceptInterrupted, Connect
    <3> QED BY <1>1, <3>1
  <2>8. CASE Ended \/ UNCHANGED vars
    BY <1>1, <2>8 DEF Ended, vars
  <2> QED BY <1>1, <2>2, <2>3, <2>4, <2>5, <2>6, <2>7, <2>8 DEF Next
<1>2. TypeOK /\ Inv /\ [Next]_vars => [wild' # wild => Known]_vars
  BY <1>1
<1> QED BY <1>2, TypeCorrect, InvHolds, PTL DEF Spec, WildOnlyWhenKnown
=============================================================================

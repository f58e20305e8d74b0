---------------------------- MODULE ClientSender ----------------------------
(***************************************************************************)
(* rtmp_client.c: the publishing client.  Three threads share one client:  *)
(*                                                                         *)
(*   - the sender, clientStreamThread, which connects, takes the front     *)
(*     packet of the FIFO, sends it and only then pops it;                 *)
(*   - the feeder, the application's thread (or, in a relay, the server's  *)
(*     reader thread) that calls setMetaData, sendX264VideoData,           *)
(*     sendAudioData and, when a new publisher arrives, beforeSendData;    *)
(*   - the controller, which calls stopRtmpClient.                         *)
(*                                                                         *)
(* Only the FIFO has a lock.  A step here is one access to shared state or *)
(* one blocking call; the FIFO's operations are those of PacketFifo.tla.   *)
(* The connection is abstracted to what the sender can tell of it: whether *)
(* RTMP_SendPacket succeeds, fails, or fails with sb_timedout set.         *)
(***************************************************************************)
EXTENDS PacketFifo

CONSTANTS Key, Inter,     \* video packets whose first body byte is 0x17, 0x27
          WithSps,        \* video calls whose data starts with an SPS and a PPS
          FifoLimit,      \* 25*3 in the code: beyond it inter frames are dropped
          MaxResets,      \* bound: calls of beforeSendData
          MaxOutages,     \* bound: times the network goes down
          HeadersFirst    \* the application gives the metadata and the SPS/PPS
                          \* once, before the first packet (test_rtmpsvr_push.c)

ASSUME ClientAssumption ==
    /\ Key \subseteq Packet /\ Inter \subseteq Packet /\ Key \cap Inter = {}
    /\ WithSps \subseteq Key
    /\ FifoLimit \in Nat /\ MaxResets \in Nat /\ MaxOutages \in Nat
    /\ HeadersFirst \in BOOLEAN

(* malloc of a node never fails: there is a cell for every packet *)
ASSUME MemoryAssumption ==
    IsFiniteSet(Packet) => Cardinality(Node) >= Cardinality(Packet)

Video == Key \cup Inter

VARIABLES
    sender,      \* where clientStreamThread is
    held,        \* its local `packet', the pointer frontFifo returned
    runThread,   \* RTMP_CLIENT.runThread
    bPlaying,    \* RTMP.m_bPlaying
    socket,      \* RTMP.m_sb.sb_socket: "closed" is -1, "stale" a closed descriptor
    timedout,    \* RTMP.m_sb.sb_timedout
    hasSendMeta, hasSendSps,
    feeder,      \* where the feeder is in its current call
    feeding,     \* the packet that call made
    metaData,    \* is RTMP_CLIENT.metaDataBuf set?
    spsData,     \* are RTMP_CLIENT.spsData's sps and pps set?
    controller,  \* where stopRtmpClient is
    net,         \* is the network up?
    resets, outages,   \* how often beforeSendData was called, the network went down
    (* auxiliary: what has happened *)
    published,   \* has the current connection gone through RTMP_ConnectStream?
    onWire,      \* the headers, of {"meta", "sps"}, sent on the current connection
    pushed,      \* the packets pushed, in order
    sent,        \* the packets RTMP_SendPacket succeeded on, in order
    dropped,     \* the packets popped because the FIFO was long
    lost         \* the packets popped by the sender without having been sent

connVars == <<bPlaying, socket, timedout, published, onWire>>
flagVars == <<hasSendMeta, hasSendSps>>
inputVars == <<metaData, spsData>>
feederVars == <<feeder, feeding, metaData, spsData, resets, pushed>>
logVars == <<sent, dropped, lost>>
clientVars == <<sender, held, runThread, connVars, flagVars, feederVars,
                controller, net, outages, logVars>>
vars == <<fifoVars, clientVars>>

(* startRtmpClient has connected once, made the FIFO and created the thread *)
Init ==
    /\ agent = TRUE /\ header = NULL /\ tail = NULL /\ size = 0
    /\ next = [n \in Node |-> NULL] /\ packet = [n \in Node |-> NULL]
    /\ live = {} /\ freed = {} /\ answer = NULL /\ chain = <<>>
    /\ sender = "run" /\ held = NULL
    /\ runThread = TRUE
    /\ bPlaying = FALSE /\ socket = "open" /\ timedout = FALSE
    /\ published = FALSE /\ onWire = {}
    /\ hasSendMeta = FALSE /\ hasSendSps = FALSE
    /\ feeder = "idle" /\ feeding = NULL
    /\ metaData = FALSE /\ spsData = FALSE
    /\ controller = "running"
    /\ net = TRUE
    /\ resets = 0 /\ outages = 0
    /\ pushed = <<>> /\ sent = <<>> /\ dropped = {} /\ lost = {}
-----------------------------------------------------------------------------
(* The sender *)

SenderAt(here, there) == sender = here /\ sender' = there

(* RTMP_Close: no socket, not playing, no memory of the connection *)
RtmpClose == /\ bPlaying' = FALSE /\ socket' = "closed"
             /\ published' = FALSE /\ onWire' = {}
             /\ UNCHANGED timedout

(* while (client->runThread) *)
Run == /\ \/ runThread /\ SenderAt("run", "connect")
          \/ ~runThread /\ SenderAt("run", "exited")
       /\ UNCHANGED <<fifoVars, held, runThread, connVars, flagVars, feederVars,
                      controller, net, outages, logVars>>

IsConnected == socket # "closed"

(***************************************************************************)
(* connectSocket: whatever socket there was is closed, without RTMP_Close, *)
(* and RTMP_Connect opens a new one, does the handshake and sends the      *)
(* connect command.  When it fails it has called RTMP_Close, except when   *)
(* the host name does not resolve: then sb_socket keeps the descriptor     *)
(* that was just closed.                                                   *)
(***************************************************************************)
ConnectSocket ==
    \/ /\ socket' = "open" /\ timedout' = FALSE
       /\ published' = FALSE /\ onWire' = {}
       /\ UNCHANGED bPlaying
    \/ ~net /\ RtmpClose
    \/ /\ ~net
       /\ socket' = IF IsConnected THEN "stale" ELSE socket
       /\ published' = FALSE /\ onWire' = {}
       /\ UNCHANGED <<bPlaying, timedout>>

(***************************************************************************)
(* connectStream, whose result the loop does not look at: connectSocket,   *)
(* then RTMP_ConnectStream, which reads replies until the publish is       *)
(* accepted (m_bPlaying), the connection is gone, or reading fails for     *)
(* another reason than a timeout.  It never looks at runThread: as long as *)
(* the peer is silent the sender stays here.                               *)
(***************************************************************************)
ConnectStreamSocket ==
    /\ ConnectSocket
    /\ SenderAt("connect", IF socket' = "open" THEN "publish" ELSE "flags")
    /\ UNCHANGED <<fifoVars, held, runThread, flagVars, feederVars, controller,
                   net, outages, logVars>>

ConnectStreamPublish ==
    /\ SenderAt("publish", "flags")
    /\ \/ /\ socket = "open"
          /\ bPlaying' = TRUE /\ published' = TRUE
          /\ UNCHANGED <<socket, timedout, onWire>>
       \/ (socket # "open" \/ ~net) /\ RtmpClose
    /\ UNCHANGED <<fifoVars, held, runThread, flagVars, feederVars, controller,
                   net, outages, logVars>>

(* mutant: a reconnect keeps the header flags *)
FlagsKept ==
    /\ SenderAt("flags", "while")
    /\ UNCHANGED <<fifoVars, held, runThread, connVars, flagVars, feederVars,
                   controller, net, outages, logVars>>

(* the loop clears both header flags after connectStream, good or bad *)
ClearFlags ==
    /\ SenderAt("flags", "while")
    /\ hasSendMeta' = FALSE /\ hasSendSps' = FALSE
    /\ UNCHANGED <<fifoVars, held, runThread, connVars, feederVars, controller,
                   net, outages, logVars>>

(* while (rtmp->m_bPlaying && client->runThread && RTMP_IsConnected(rtmp)) *)
While ==
    /\ IF bPlaying /\ runThread /\ IsConnected
       THEN SenderAt("while", "front")
       ELSE SenderAt("while", "close")
    /\ UNCHANGED <<fifoVars, held, runThread, connVars, flagVars, feederVars,
                   controller, net, outages, logVars>>

Front ==
    /\ PacketFifoFront
    /\ held' = answer'
    /\ SenderAt("front", IF answer' = NULL THEN "while" ELSE "look")
    /\ UNCHANGED <<runThread, connVars, flagVars, feederVars, controller, net,
                   outages, logVars>>

(* mutant: the kind of the frame is not looked at *)
LookAtSizeOnly ==
    /\ SenderAt("look", IF size > FifoLimit THEN "drop" ELSE "meta")
    /\ UNCHANGED <<fifoVars, held, runThread, connVars, flagVars, feederVars,
                   controller, net, outages, logVars>>

(* if (dataFifo->size > 25*3 && type == 9 && packet->m_body[0] == 0x27) *)
Look ==
    /\ IF size > FifoLimit /\ held \in Inter
       THEN SenderAt("look", "drop")
       ELSE SenderAt("look", "meta")
    /\ UNCHANGED <<fifoVars, held, runThread, connVars, flagVars, feederVars,
                   controller, net, outages, logVars>>

(* popFifo, when there is something to pop *)
Pop == \/ FixedHeader # NULL /\ PacketFifoPop
       \/ FixedHeader = NULL /\ UNCHANGED fifoVars
Popped == freed' \ freed

(* mutant: the `continue' after the pop is missing *)
DropFallsThrough ==
    /\ SenderAt("drop", "meta")
    /\ Pop
    /\ dropped' = dropped \cup (Popped \cap {held})
    /\ lost' = lost \cup (Popped \ {held})
    /\ UNCHANGED <<held, runThread, connVars, flagVars, feederVars, controller,
                   net, outages, sent>>

Drop ==
    /\ SenderAt("drop", "while")
    /\ Pop
    /\ dropped' = dropped \cup (Popped \cap {held})
    /\ lost' = lost \cup (Popped \ {held})
    /\ UNCHANGED <<held, runThread, connVars, flagVars, feederVars, controller,
                   net, outages, sent>>

(***************************************************************************)
(* RTMP_SendPacket.  On a descriptor that is closed it fails at once, and  *)
(* that is no timeout; a failed send leaves the socket as it is.           *)
(***************************************************************************)
SendWorks == /\ socket = "open" /\ timedout' = FALSE
             /\ UNCHANGED <<bPlaying, socket, published>>
SendFails == /\ socket # "open" \/ ~net
             /\ timedout' \in (IF socket = "open" THEN BOOLEAN ELSE {FALSE})
             /\ UNCHANGED <<bPlaying, socket, published, onWire>>

(***************************************************************************)
(* sendMetaDataPacket and sendSpsPacket succeed without sending anything   *)
(* when there is nothing to send, and the flag is set all the same.        *)
(***************************************************************************)
SendMeta ==
    /\ IF hasSendMeta
       THEN SenderAt("meta", "sps") /\ UNCHANGED <<connVars, hasSendMeta>>
       ELSE \/ /\ ~metaData
               /\ SenderAt("meta", "sps") /\ hasSendMeta' = TRUE
               /\ UNCHANGED connVars
            \/ /\ metaData
               /\ SenderAt("meta", "sps") /\ hasSendMeta' = TRUE
               /\ SendWorks /\ onWire' = onWire \cup {"meta"}
            \/ /\ metaData
               /\ SenderAt("meta", "close") /\ SendFails
               /\ UNCHANGED hasSendMeta
    /\ UNCHANGED <<fifoVars, held, runThread, hasSendSps, feederVars, controller,
                   net, outages, logVars>>

SendSps ==
    /\ IF hasSendSps \/ held \notin Video
       THEN SenderAt("sps", "send") /\ UNCHANGED <<connVars, hasSendSps>>
       ELSE \/ /\ ~spsData
               /\ SenderAt("sps", "send") /\ hasSendSps' = TRUE
               /\ UNCHANGED connVars
            \/ /\ spsData
               /\ SenderAt("sps", "send") /\ hasSendSps' = TRUE
               /\ SendWorks /\ onWire' = onWire \cup {"sps"}
            \/ /\ spsData
               /\ SenderAt("sps", "close") /\ SendFails
               /\ UNCHANGED hasSendSps
    /\ UNCHANGED <<fifoVars, held, runThread, hasSendMeta, feederVars, controller,
                   net, outages, logVars>>

(* mutants: no pop after a success, a pop after a failure *)
SentStays ==
    /\ SenderAt("send", "while")
    /\ SendWorks /\ UNCHANGED onWire
    /\ sent' = Append(sent, held)
    /\ UNCHANGED <<fifoVars, held, runThread, flagVars, feederVars, controller,
                   net, outages, dropped, lost>>

FailedPops ==
    /\ SendFails
    /\ SenderAt("send", "pop")
    /\ UNCHANGED <<fifoVars, held, runThread, flagVars, feederVars, controller,
                   net, outages, logVars>>

SendPacketOk ==
    /\ SenderAt("send", "pop")
    /\ SendWorks /\ UNCHANGED onWire
    /\ sent' = Append(sent, held)
    /\ UNCHANGED <<fifoVars, held, runThread, flagVars, feederVars, controller,
                   net, outages, dropped, lost>>

SendPacketFails ==
    /\ SendFails
    /\ SenderAt("send", IF timedout' THEN "reconnect" ELSE "close")
    /\ UNCHANGED <<fifoVars, held, runThread, flagVars, feederVars, controller,
                   net, outages, logVars>>

(***************************************************************************)
(* connectSocket after a timed out send: no RTMP_Close before it and no    *)
(* RTMP_ConnectStream after it, so m_bPlaying and the header flags stay.   *)
(***************************************************************************)
Reconnect ==
    /\ SenderAt("reconnect", "while")
    /\ ConnectSocket
    /\ UNCHANGED <<fifoVars, held, runThread, flagVars, feederVars, controller,
                   net, outages, logVars>>

PopSent ==
    /\ SenderAt("pop", "while")
    /\ Pop
    /\ lost' = lost \cup {p \in Popped : \A i \in 1..Len(sent) : sent[i] # p}
    /\ UNCHANGED <<held, runThread, connVars, flagVars, feederVars, controller,
                   net, outages, sent, dropped>>

(* mutant: the thread ends with the connection *)
CloseAndExit ==
    /\ SenderAt("close", "exited")
    /\ RtmpClose
    /\ UNCHANGED <<fifoVars, held, runThread, flagVars, feederVars, controller,
                   net, outages, logVars>>

Close ==
    /\ SenderAt("close", "run")
    /\ RtmpClose
    /\ UNCHANGED <<fifoVars, held, runThread, flagVars, feederVars, controller,
                   net, outages, logVars>>

SenderStep == \/ Run \/ ConnectStreamSocket \/ ConnectStreamPublish
              \/ ClearFlags \/ While \/ Front \/ Look \/ Drop \/ SendMeta \/ SendSps
              \/ SendPacketOk \/ SendPacketFails \/ Reconnect \/ PopSent \/ Close
-----------------------------------------------------------------------------
(* The feeder.  Its caller stops feeding before it calls stopRtmpClient. *)

FeederAt(here, there) == feeder = here /\ feeder' = there
FeederCalls(there) == controller = "running" /\ FeederAt("idle", there)

(* setMetaData frees the old buffer, then sets the size and the new one *)
SetMetaData ==
    /\ HeadersFirst => pushed = <<>> /\ ~metaData
    /\ FeederCalls("metadata")
    /\ metaData' = FALSE
    /\ UNCHANGED <<fifoVars, sender, held, runThread, connVars, flagVars, feeding,
                   spsData, resets, pushed, controller, net, outages, logVars>>

SetMetaDataEnd ==
    /\ FeederAt("metadata", "idle")
    /\ metaData' = TRUE
    /\ UNCHANGED <<fifoVars, sender, held, runThread, connVars, flagVars, feeding,
                   spsData, resets, pushed, controller, net, outages, logVars>>

(***************************************************************************)
(* sendX264VideoData and sendAudioData of the data that becomes packet p:  *)
(* the SPS and PPS at its start replace the stored ones, then the frame is *)
(* pushed.                                                                 *)
(***************************************************************************)
SendData(p) ==
    /\ p \notin Owned
    /\ HeadersFirst /\ pushed = <<>> => metaData /\ p \in WithSps
    /\ FeederCalls(IF p \in WithSps THEN "sps" ELSE "push")
    /\ feeding' = p
    /\ spsData' = (spsData /\ p \notin WithSps)
    /\ UNCHANGED <<fifoVars, sender, held, runThread, connVars, flagVars, metaData,
                   resets, pushed, controller, net, outages, logVars>>

StoreSps ==
    /\ FeederAt("sps", "push")
    /\ spsData' = TRUE
    /\ UNCHANGED <<fifoVars, sender, held, runThread, connVars, flagVars, feeding,
                   metaData, resets, pushed, controller, net, outages, logVars>>

Push ==
    /\ FeederAt("push", "idle")
    /\ PacketFifoPush(feeding)
    /\ feeding' = NULL
    /\ pushed' = Append(pushed, feeding)
    /\ UNCHANGED <<sender, held, runThread, connVars, flagVars, inputVars, resets,
                   controller, net, outages, logVars>>

(***************************************************************************)
(* beforeSendData: forget the SPS and PPS, clear the FIFO, clear the two   *)
(* flags, close the connection under the sender.                           *)
(***************************************************************************)
BeforeSendData ==
    /\ resets < MaxResets
    /\ FeederCalls("clear")
    /\ resets' = resets + 1
    /\ spsData' = FALSE
    /\ UNCHANGED <<fifoVars, sender, held, runThread, connVars, flagVars, feeding,
                   metaData, pushed, controller, net, outages, logVars>>

ResetClear ==
    /\ FeederAt("clear", "flags")
    /\ CleanPacketFifo
    /\ UNCHANGED <<sender, held, runThread, connVars, flagVars, feeding, inputVars,
                   resets, pushed, controller, net, outages, logVars>>

ResetFlags ==
    /\ FeederAt("flags", "close")
    /\ hasSendMeta' = FALSE /\ hasSendSps' = FALSE
    /\ UNCHANGED <<fifoVars, sender, held, runThread, connVars, feeding, inputVars,
                   resets, pushed, controller, net, outages, logVars>>

(* mutant: the connection is left open *)
ResetStaysOpen ==
    /\ FeederAt("close", "idle")
    /\ UNCHANGED <<fifoVars, sender, held, runThread, connVars, flagVars, feeding,
                   inputVars, resets, pushed, controller, net, outages, logVars>>

ResetClose ==
    /\ FeederAt("close", "idle")
    /\ RtmpClose
    /\ UNCHANGED <<fifoVars, sender, held, runThread, flagVars, feeding, inputVars,
                   resets, pushed, controller, net, outages, logVars>>

FeederStep == \/ SetMetaData \/ SetMetaDataEnd
              \/ \E p \in Packet : SendData(p)
              \/ StoreSps \/ Push
              \/ BeforeSendData \/ ResetClear \/ ResetFlags \/ ResetClose
-----------------------------------------------------------------------------
(* stopRtmpClient *)

ControllerAt(here, there) == controller = here /\ controller' = there

(* mutant: runThread is not cleared *)
StopKeepsRunning ==
    /\ feeder = "idle"
    /\ ControllerAt("running", "stopping")
    /\ UNCHANGED <<fifoVars, sender, held, runThread, connVars, flagVars, feederVars,
                   net, outages, logVars>>

StopRunning ==
    /\ feeder = "idle"
    /\ ControllerAt("running", "stopping")
    /\ runThread' = FALSE
    /\ UNCHANGED <<fifoVars, sender, held, connVars, flagVars, feederVars, net,
                   outages, logVars>>

StopPlaying ==
    /\ ControllerAt("stopping", "join")
    /\ bPlaying' = FALSE
    /\ UNCHANGED <<fifoVars, sender, held, runThread, socket, timedout,
                   published, onWire, flagVars, feederVars, net, outages, logVars>>

(* ThreadJoin returned: uninitRtmpClient, RTMP_Close, RTMP_Free *)
StopRelease ==
    /\ ControllerAt("join", "stopped")
    /\ sender = "exited"
    /\ ReleaseFifoAgent
    /\ metaData' = FALSE /\ spsData' = FALSE
    /\ RtmpClose
    /\ UNCHANGED <<sender, held, runThread, flagVars, feeder, feeding, resets,
                   pushed, net, outages, logVars>>

(* The client is gone; nothing runs any more. *)
Stopped == controller = "stopped" /\ UNCHANGED vars

ControllerStep == StopRunning \/ StopPlaying \/ StopRelease \/ Stopped

NetworkFails == /\ net /\ outages < MaxOutages /\ controller # "stopped"
                /\ net' = FALSE /\ outages' = outages + 1
                /\ UNCHANGED <<fifoVars, sender, held, runThread, connVars, flagVars,
                               feederVars, controller, logVars>>
NetworkHeals == /\ ~net /\ controller # "stopped"
                /\ net' = TRUE
                /\ UNCHANGED <<fifoVars, sender, held, runThread, connVars, flagVars,
                               feederVars, controller, outages, logVars>>

Next == SenderStep \/ FeederStep \/ ControllerStep \/ NetworkFails \/ NetworkHeals

(***************************************************************************)
(* Fairness is that of the threads: a thread that can run does.  Nothing   *)
(* is assumed of the application (it need not feed or stop) nor of the     *)
(* network: while it is down the peer need not answer a publish.           *)
(***************************************************************************)
Answered == sender = "publish" => net \/ socket # "open"

Fairness == /\ WF_vars(Answered /\ SenderStep)
            /\ WF_vars(SetMetaDataEnd \/ StoreSps \/ Push)
            /\ WF_vars(ResetClear \/ ResetFlags \/ ResetClose)
            /\ WF_vars(StopPlaying \/ StopRelease)

Spec == Init /\ [][Next]_vars
FairSpec == Spec /\ Fairness
-----------------------------------------------------------------------------
Holding == sender \in {"look", "drop", "meta", "sps", "send", "reconnect", "pop"}
Queued == {packet[chain[i]] : i \in 1..Len(chain)}

(***************************************************************************)
(* Every variable stays within the values the threads give it.             *)
(***************************************************************************)
TypeOK ==
    /\ FifoTypeOK
    /\ sender \in {"run", "connect", "publish", "flags", "while", "front", "look",
                   "drop", "meta", "sps", "send", "reconnect", "pop", "close", "exited"}
    /\ held \in Packet \cup {NULL}
    /\ {runThread, bPlaying, timedout, hasSendMeta, hasSendSps,
        metaData, spsData, net, published} \subseteq BOOLEAN
    /\ socket \in {"open", "closed", "stale"}
    /\ feeder \in {"idle", "metadata", "sps", "push", "clear", "flags", "close"}
    /\ feeding \in Packet \cup {NULL}
    /\ controller \in {"running", "stopping", "join", "stopped"}
    /\ resets \in 0..MaxResets /\ outages \in 0..MaxOutages
    /\ onWire \subseteq {"meta", "sps"}
    /\ pushed \in Seq(Packet) /\ sent \in Seq(Packet)
    /\ dropped \subseteq Packet /\ lost \subseteq Packet

(***************************************************************************)
(* The pointer the sender works on between frontFifo and popFifo, outside  *)
(* the FIFO's lock, is the oldest queued packet, so the pop that follows a *)
(* send removes what was sent; only a beforeSendData under the sender's    *)
(* feet makes it a pointer to a freed packet.                              *)
(***************************************************************************)
HeldIsTheOldest ==
    Holding => \/ Queue # <<>> /\ held = Head(Queue)
               \/ held \in freed /\ resets > 0

(***************************************************************************)
(* Packets reach the socket in the order they were pushed, and none twice, *)
(* whatever reconnects, drops and resets happen in between.                *)
(***************************************************************************)
SentInOrder ==
    \E f \in [1..Len(sent) -> 1..Len(pushed)] :
        /\ \A i \in 1..Len(sent) : pushed[f[i]] = sent[i]
        /\ \A i, j \in 1..Len(sent) : i < j => f[i] < f[j]

(***************************************************************************)
(* No packet disappears: as long as the client runs and no beforeSendData  *)
(* intervenes, a packet pushed is still queued, was sent, or is an inter   *)
(* frame that was dropped; a connection lost in the middle loses nothing.  *)
(***************************************************************************)
NothingLost ==
    resets = 0 /\ controller # "stopped" =>
        Elems(pushed) = Queued \cup Elems(sent) \cup (dropped \cap Inter)

(***************************************************************************)
(* What a reset can cost: a pop that follows it may hit a packet of the    *)
(* new stream that was never sent, one such packet per reset at most.      *)
(***************************************************************************)
OneLossPerReset == Cardinality(lost) <= resets

(***************************************************************************)
(* On a connection that was published, media goes out only after the       *)
(* metadata, and video only after the SPS and PPS, when the application    *)
(* supplies them first.                                                    *)
(***************************************************************************)
HeadersPrecedeMedia ==
    [][sent' # sent /\ published =>
         /\ "meta" \in onWire
         /\ held \in Video => "sps" \in onWire]_vars

(***************************************************************************)
(* A frame is dropped only when it is the oldest of a FIFO longer than the *)
(* limit, although size is read outside the lock and before the pop, and   *)
(* only if it is an inter frame: a key frame or audio is never dropped.    *)
(***************************************************************************)
DropIsJustified ==
    [][dropped' # dropped => /\ dropped' \ dropped \subseteq Inter
                             /\ size > FifoLimit
                             /\ held = Head(Queue)]_vars

(***************************************************************************)
(* Bytes of a packet that beforeSendData has freed can reach the network   *)
(* only until that same call closes the connection.                        *)
(***************************************************************************)
FreedSentOnlyDuringReset ==
    [][sent' # sent /\ held \in freed => feeder \in {"flags", "close"}]_vars

(***************************************************************************)
(* The log line of the timeout path, rtmp_client.c:326, "timeout will      *)
(* reconnect and resend again": what is sent goes to a published stream.   *)
(***************************************************************************)
ResentToPublishedStream == [][sent' # sent => published]_vars

(***************************************************************************)
(* stopRtmpClient returns, once the network stays up: the sender notices   *)
(* runThread wherever it is, even if it sets m_bPlaying again after the    *)
(* controller cleared it.                                                  *)
(***************************************************************************)
StopCompletes == <>[]net => (controller = "stopping") ~> (controller = "stopped")

(***************************************************************************)
(* Once the network stays up, every packet pushed is sent or dropped,      *)
(* unless the client is stopped or reset.                                  *)
(***************************************************************************)
EventuallySent ==
    <>[]net => \A p \in Packet :
        (p \in Elems(pushed)) ~> \/ p \in Elems(sent) \cup dropped
                                \/ controller # "running" \/ resets > 0
=============================================================================

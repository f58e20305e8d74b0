---------------------------- MODULE ClientSession ---------------------------
(***************************************************************************)
(* How rtmp_client.c gets to publish: startRtmpClient and the thread       *)
(* connect (RTMP_Connect), shake hands, send "connect" and then answer     *)
(* what the server says until it may publish (RTMP_ConnectStream,          *)
(* RTMP_ClientPacket, HandleInvoke), against a server that is              *)
(* rtmp_stream.c's (SHandShake, ServePacket, ServeInvoke).                 *)
(*                                                                         *)
(* Three things make it hard.  The client has two ways to connect again:   *)
(* RTMP_Close, which forgets the session, and connectSocket, which only    *)
(* replaces the socket.  Calls are matched with answers by a number.  And  *)
(* the application pushes packets, with the stream id of the moment, while *)
(* the thread does all this.                                               *)
(*                                                                         *)
(* A message is a record and comes whole; how it is cut is ChunkStream's   *)
(* subject.  The reader of an earlier connection works on a stream of its  *)
(* own (StreamServer) and is not followed here.                            *)
(***************************************************************************)
EXTENDS Integers, Sequences, FiniteSets, SequencesExt

CONSTANTS
    Extra,        \* what another server may say besides, of ExtraKind
    MaxExtra,     \* bound: how often it does
    MaxFailures,  \* bound: lost connections and failed attempts to connect
    MaxTimeouts,  \* bound: sends that time out
    MaxSilences,  \* bound: reads that time out
    MaxPackets    \* bound: packets pushed by the application

ExtraKind == {"onBWDone", "ping", "_onbwcheck", "_onbwdone", "onFCUnsubscribe", "close",
              "Play.Stop", "NetStream.Failed", "ctrlPing", "media", "bytesRead"}

ASSUME SessionAssumption ==
    /\ Extra \subseteq ExtraKind
    /\ {MaxExtra, MaxFailures, MaxTimeouts, MaxSilences, MaxPackets} \subseteq Nat

VARIABLES
    (* the client's thread and its RTMP *)
    phase,      \* what the thread does next
    caller,     \* who called RTMP_Connect: "start", "stream" or "resend"
    interface,  \* RTMP_Connect0's i: the interface to be tried
    socket,     \* is m_sb.sb_socket a descriptor (not -1)?
    buffered,   \* m_sb.sb_buf: what recv returned and was not read yet
    timedOut,   \* m_sb.sb_timedout
    numInvokes, \* m_numInvokes
    calls,      \* m_methodCalls, with the connection each was made on
    streamId,   \* m_stream_id
    playing,    \* m_bPlaying
    bwChecks,   \* m_nBWCheckCounter
    last,       \* RTMP_ConnectStream's packet: the kind read last, or "none"
    fifo,       \* the packets the application pushed
    (* the connection *)
    link,       \* "none" yet, "up", "lost", or "closed" by the client
    up, down,   \* the messages to the server and to the client
    (* the server's stream for this connection *)
    server,     \* .at: what it waits for; .streamId, .connects and .begun
    served,     \* the packets given to videoFunc
    (* auxiliary *)
    connection, \* how many times a socket was connected
    misaligned, \* did a handshake take bytes of an earlier connection?
    used        \* how much of each bound is used up

rtmpVars == <<numInvokes, calls, streamId, playing, bwChecks>>
linkVars == <<link, up, down>>
serverVars == <<server, served>>
clientVars == <<phase, caller, interface, socket, buffered, timedOut, rtmpVars, last,
                misaligned>>
vars == <<clientVars, fifo, linkVars, serverVars, connection, used>>

FreshServer == [at |-> "c0c1", streamId |-> 0, connects |-> 0, begun |-> 0]

Init == /\ phase = "connect" /\ caller = "start" /\ interface = 1
        /\ socket = FALSE /\ buffered = <<>> /\ timedOut = FALSE
        /\ numInvokes = 0 /\ calls = <<>> /\ streamId = 0
        /\ playing = FALSE /\ bwChecks = 0
        /\ last = "none" /\ fifo = <<>>
        /\ link = "none" /\ up = <<>> /\ down = <<>>
        /\ server = FreshServer /\ served = <<>>
        /\ connection = 0 /\ misaligned = FALSE
        /\ used = [extra |-> 0, failures |-> 0, timeouts |-> 0, silences |-> 0, packets |-> 0]

Use(what, bound) == used[what] < bound /\ used' = [used EXCEPT ![what] = @ + 1]

Message(kind) == [kind |-> kind, txn |-> 0, id |-> 0]
Result(of, txn, id) == [kind |-> "_result", of |-> of, txn |-> txn, id |-> id]
-----------------------------------------------------------------------------
(* Writing, closing *)

(* A write to a connection that is lost may still succeed, once.           *)
WriteWorks == IF link = "up" THEN {TRUE} ELSE {TRUE, FALSE}
Written(ms) == IF link = "up" THEN up \o ms ELSE up

(***************************************************************************)
(* Remote methods are invoked, each with the next number: first those      *)
(* whose answer does not matter, then the `queued' ones, which are added   *)
(* to the calls cs (RTMP_SendPacket(.., TRUE)), after the write and only   *)
(* if it worked.                                                           *)
(***************************************************************************)
Invoke(others, queued, cs, ok) ==
    LET names == others \o queued
    IN  /\ numInvokes' = numInvokes + Len(names)
        /\ up' = IF ok THEN Written([i \in 1..Len(names) |->
                              [kind |-> names[i], txn |-> numInvokes + i, id |-> 0]])
                       ELSE up
        /\ calls' = IF ok THEN cs \o [i \in 1..Len(queued) |->
                              [name |-> queued[i], num |-> numInvokes + Len(others) + i,
                               on |-> connection]]
                          ELSE cs

(* RTMP_Close: a stream that was created is unpublished on the way out     *)
CloseKeepsCalls ==   \* mutant: the calls survive, their numbers start over
    /\ up' = IF socket /\ streamId > 0 THEN Written(<<Message("FCUnpublish")>>) ELSE up
    /\ link' = IF link = "none" THEN link ELSE "closed"
    /\ socket' = FALSE /\ buffered' = <<>>
    /\ streamId' = -1 /\ numInvokes' = 0 /\ UNCHANGED calls
    /\ playing' = FALSE /\ bwChecks' = 0 /\ misaligned' = FALSE

CloseKeepsBuffer ==   \* mutant: sb_size is not reset
    /\ up' = IF socket /\ streamId > 0 THEN Written(<<Message("FCUnpublish")>>) ELSE up
    /\ link' = IF link = "none" THEN link ELSE "closed"
    /\ socket' = FALSE /\ UNCHANGED buffered
    /\ streamId' = -1 /\ numInvokes' = 0 /\ calls' = <<>>
    /\ playing' = FALSE /\ bwChecks' = 0 /\ misaligned' = FALSE

RtmpClose ==
    /\ up' = IF socket /\ streamId > 0 THEN Written(<<Message("FCUnpublish")>>) ELSE up
    /\ link' = IF link = "none" THEN link ELSE "closed"
    /\ socket' = FALSE /\ buffered' = <<>>
    /\ streamId' = -1 /\ numInvokes' = 0 /\ calls' = <<>>
    /\ playing' = FALSE /\ bwChecks' = 0 /\ misaligned' = FALSE

At(here) == phase = here
Goto(there) == phase' = there

(* What follows when RTMP_Connect returns FALSE: startRtmpClient gives up,  *)
(* connectStream returns to the thread's loop, and so does a resend, which  *)
(* does not look at the result.                                             *)
ConnectFailed == Goto(IF caller = "start" THEN "failed" ELSE "loop")
-----------------------------------------------------------------------------
(* RTMP_Connect *)

(***************************************************************************)
(* connectSocket (and startRtmpClient, which has no socket yet): only the  *)
(* socket is closed, the session stays as it is; RTMP_Connect0 then makes  *)
(* a socket.                                                               *)
(***************************************************************************)
ConnectSocket ==
    /\ At("connect") /\ Goto("interface")
    /\ link' = IF link = "none" THEN link ELSE "closed"
    /\ socket' = TRUE /\ timedOut' = FALSE /\ interface' = 1
    /\ UNCHANGED <<caller, buffered, rtmpVars, last, misaligned, fifo, up, down,
                   serverVars, connection, used>>

(***************************************************************************)
(* The name of the server does not resolve, and m_sb.sb_socket stays the   *)
(* number of the socket just closed, with which a resend goes on; or there *)
(* is no socket to be had.                                                 *)
(***************************************************************************)
NoSocket ==
    /\ At("connect") /\ Use("failures", MaxFailures)
    /\ link' = IF link = "none" THEN link ELSE "closed"
    /\ \/ /\ IF caller = "resend" /\ socket THEN Goto("publish") ELSE ConnectFailed
          /\ UNCHANGED <<socket, timedOut>>
       \/ socket' = FALSE /\ timedOut' = FALSE /\ ConnectFailed
    /\ UNCHANGED <<caller, interface, buffered, rtmpVars, last, misaligned, fifo, up, down,
                   serverVars, connection>>

(* RTMP_ConnectWithEth on the socket RTMP_Connect0 made *)
InterfaceConnects ==
    /\ At("interface") /\ interface <= 4 /\ socket
    /\ Goto("c0c1")
    /\ link' = "up" /\ up' = <<>> /\ down' = <<>>
    /\ server' = FreshServer /\ served' = <<>>
    /\ connection' = connection + 1
    /\ UNCHANGED <<caller, interface, socket, buffered, timedOut, rtmpVars, last,
                   misaligned, fifo, used>>

(* The attempt fails, which closes the RTMP and leaves no socket to those   *)
(* that follow.                                                             *)
InterfaceFails ==
    /\ At("interface") /\ interface <= 4
    /\ \/ ~socket /\ UNCHANGED <<socket, buffered, rtmpVars, misaligned, link, up, used>>
       \/ socket /\ Use("failures", MaxFailures) /\ RtmpClose
    /\ interface' = interface + 1
    /\ UNCHANGED <<phase, caller, timedOut, last, fifo, down, serverVars,
                   connection>>

NoInterface ==
    /\ At("interface") /\ interface = 5
    /\ ConnectFailed
    /\ UNCHANGED <<caller, interface, socket, buffered, timedOut, rtmpVars, last,
                   misaligned, fifo, linkVars, serverVars, connection, used>>

(* HandShake, SendConnectPacket: a failed read or write closes the RTMP *)
CloseAndFail == RtmpClose /\ ConnectFailed

SendC0C1 ==
    /\ At("c0c1") /\ timedOut' = FALSE
    /\ \E ok \in WriteWorks :
         IF ok THEN /\ Goto("s0s1") /\ up' = Written(<<Message("C0C1")>>)
                    /\ UNCHANGED <<socket, buffered, rtmpVars, misaligned, link>>
               ELSE CloseAndFail
    /\ UNCHANGED <<caller, interface, last, fifo, down, serverVars,
                   connection, used>>

(***************************************************************************)
(* A handshake reads its bytes by their number: what an earlier connection *)
(* left in the buffer is taken for the beginning of the answer.            *)
(***************************************************************************)
Kinds(s) == [i \in 1..Len(s) |-> s[i].kind]
Awaited == CASE At("s0s1") -> "S0S1" [] At("s2") -> "S2" [] OTHER -> "any"
HasAwaited == IF Awaited = "any" THEN buffered # <<>>
              ELSE Contains(Kinds(buffered), Awaited)
TakeHandshake ==
    LET k == CHOOSE i \in 1..Len(buffered) : buffered[i].kind = Awaited
    IN  /\ buffered' = SubSeq(buffered, k + 1, Len(buffered))
        /\ misaligned' = (misaligned \/ k > 1)

ReadS0S1 ==   \* and send C2
    /\ At("s0s1") /\ HasAwaited /\ timedOut' = FALSE
    /\ \E ok \in WriteWorks :
         IF ok THEN /\ Goto("s2") /\ up' = Written(<<Message("C2")>>) /\ TakeHandshake
                    /\ UNCHANGED <<socket, rtmpVars, link>>
               ELSE CloseAndFail
    /\ UNCHANGED <<caller, interface, last, fifo, down, serverVars, connection, used>>

ReadS2 ==
    /\ At("s2") /\ HasAwaited /\ timedOut' = FALSE
    /\ Goto("command") /\ TakeHandshake
    /\ UNCHANGED <<caller, interface, socket, rtmpVars, last, fifo, linkVars, serverVars,
                   connection, used>>

(* SendConnectPacket, and where RTMP_Connect returns to *)
AfterConnect == CASE caller = "start" -> "connect"      \* the thread, connectStream
                  [] caller = "stream" -> "announce"
                  [] caller = "resend" -> "publish"
SendConnectPacket ==
    /\ At("command") /\ timedOut' = FALSE
    /\ caller' = IF caller = "start" THEN "stream" ELSE caller
    /\ \E ok \in WriteWorks :
         IF ok THEN /\ Invoke(<<>>, <<"connect">>, calls, TRUE)
                    /\ Goto(AfterConnect)
                    /\ UNCHANGED <<socket, buffered, streamId, playing, bwChecks, misaligned,
                                   link>>
               ELSE CloseAndFail
    /\ UNCHANGED <<interface, last, fifo, down, serverVars, connection, used>>

(* connectStream: the size of chunks; its result is not looked at *)
AnnounceChunkSize ==
    /\ At("announce") /\ Goto("stream")
    /\ timedOut' = FALSE /\ last' = "none"
    /\ up' = Written(<<Message("chunkSize")>>)
    /\ UNCHANGED <<caller, interface, socket, buffered, rtmpVars, misaligned, fifo, link,
                   down, serverVars, connection, used>>
-----------------------------------------------------------------------------
(* Reading: recv, then RTMP_ReadPacket *)

Reading == \/ phase \in {"s0s1", "s2"}
           \/ At("stream") /\ ~playing /\ socket

Fill == \* RTMPSockBuf_Fill: as much as there is, at least something
    /\ Reading /\ ~HasAwaited /\ link # "closed"
    /\ \E n \in 1..Len(down) :
         /\ buffered' = buffered \o SubSeq(down, 1, n)
         /\ down' = SubSeq(down, n + 1, Len(down))
    /\ UNCHANGED <<phase, caller, interface, socket, timedOut, rtmpVars, last, misaligned,
                   fifo, link, up, serverVars, connection, used>>

ReadFails == \* the connection is lost: ReadN closes the RTMP
    /\ Reading /\ ~HasAwaited /\ down = <<>> /\ link = "lost"
    /\ timedOut' = FALSE
    /\ RtmpClose
    /\ IF At("stream") THEN Goto("loop") ELSE ConnectFailed
    /\ UNCHANGED <<caller, interface, last, fifo, down, serverVars,
                   connection, used>>

HandshakeTimesOut ==
    /\ phase \in {"s0s1", "s2"} /\ ~HasAwaited /\ down = <<>> /\ link = "up"
    /\ Use("silences", MaxSilences)
    /\ timedOut' = TRUE
    /\ CloseAndFail
    /\ UNCHANGED <<caller, interface, last, fifo, down, serverVars, connection>>

(***************************************************************************)
(* RTMP_ConnectStream takes no notice of a timeout: `packet' still is as   *)
(* the last read left it, ready, but its body was freed.  Those the client *)
(* ignores do no harm the second time; the others are read through NULL.   *)
(***************************************************************************)
Bodiless == {"none", "media", "bytesRead"}
StreamTimesOut ==
    /\ At("stream") /\ ~playing /\ socket
    /\ buffered = <<>> /\ down = <<>> /\ link = "up"
    /\ Use("silences", MaxSilences)
    /\ timedOut' = TRUE
    /\ IF last \in Bodiless THEN UNCHANGED phase ELSE Goto("crashed")
    /\ UNCHANGED <<caller, interface, socket, buffered, rtmpVars, last, misaligned, fifo,
                   linkVars, serverVars, connection>>
-----------------------------------------------------------------------------
(* RTMP_ClientPacket: each message, and what HandleInvoke does with it *)

Receive(kind) == /\ At("stream") /\ ~playing /\ socket
                 /\ buffered # <<>> /\ Head(buffered).kind = kind
                 /\ timedOut' = FALSE /\ last' = kind
                 /\ UNCHANGED <<caller, interface, fifo, down, serverVars,
                                connection, used>>
Consume == /\ buffered' = Tail(buffered)
           /\ UNCHANGED <<phase, socket, misaligned, link>>

Asked(txn) == {i \in 1..Len(calls) : calls[i].num = txn}
First(s) == CHOOSE i \in s : \A j \in s : i <= j
Erase(s) == IF s = {} THEN calls ELSE RemoveAt(calls, First(s))
Named(name) == {i \in 1..Len(calls) : calls[i].name = name}

IdNotStored(r) == streamId   \* mutant
IdOf(r) == r.id
StartsPlayingEarly == {"createStream", "play", "publish"}   \* mutant
StartsPlaying == {"play", "publish"}
PublishAtOnce == <<"createStream", "publish">>   \* mutant
OnceConnected == <<"createStream">>

(* "_result": the first call with this number decides what is done next *)
ReceiveResult ==
    /\ Receive("_result") /\ Consume
    /\ LET r == Head(buffered)
           s == Asked(r.txn)
           name == IF s = {} THEN "none" ELSE calls[First(s)].name
       IN \E ok \in WriteWorks :
            /\ CASE name = "connect" ->
                      Invoke(<<"releaseStream", "FCPublish">>, OnceConnected, Erase(s), ok)
                 [] name = "createStream" -> Invoke(<<>>, <<"publish">>, Erase(s), ok)
                 [] OTHER -> calls' = Erase(s) /\ UNCHANGED <<numInvokes, up>>
            /\ streamId' = IF name = "createStream" THEN IdOf(r) ELSE streamId
            /\ playing' = (playing \/ name \in StartsPlaying)
    /\ UNCHANGED bwChecks

ReceivePublishStart ==   \* onStatus
    /\ Receive("Publish.Start") /\ Consume
    /\ playing' = TRUE /\ calls' = Erase(Named("publish"))
    /\ UNCHANGED <<numInvokes, streamId, bwChecks, up>>

ReceiveOnBWDone ==
    /\ Receive("onBWDone") /\ Consume
    /\ IF bwChecks = 0 THEN \E ok \in WriteWorks : Invoke(<<"_checkbw">>, <<>>, calls, ok)
                       ELSE UNCHANGED <<numInvokes, calls, up>>
    /\ UNCHANGED <<streamId, playing, bwChecks>>

ReceiveOnbwcheck ==   \* answered with the counter
    /\ Receive("_onbwcheck") /\ Consume
    /\ up' = Written(<<Message("_result")>>) /\ bwChecks' = bwChecks + 1
    /\ UNCHANGED <<numInvokes, calls, streamId, playing>>

ReceiveOnbwdone ==   \* the call of _checkbw is erased: there is none
    /\ Receive("_onbwdone") /\ Consume
    /\ calls' = Erase(Named("_checkbw"))
    /\ UNCHANGED <<numInvokes, streamId, playing, bwChecks, up>>

ReceivePing ==
    /\ \/ Receive("ping") /\ up' = Written(<<Message("pong")>>)
       \/ Receive("ctrlPing") /\ up' = Written(<<Message("ctrlPong")>>)
    /\ Consume
    /\ UNCHANGED rtmpVars

ReceiveNothing ==   \* no state of the session changes
    /\ \E kind \in {"chunkSize", "serverBW", "clientBW", "streamBegin", "media",
                    "bytesRead"} : Receive(kind)
    /\ Consume
    /\ UNCHANGED <<rtmpVars, up>>

ReceiveClose ==   \* RTMP_ConnectStream's loop ends, connectStream closes again
    /\ \E kind \in {"onFCUnsubscribe", "close", "Play.Stop", "NetStream.Failed"} :
         Receive(kind)
    /\ RtmpClose
    /\ Goto("loop")
-----------------------------------------------------------------------------
(* The thread's loop *)

StreamPlays ==   \* RTMP_ConnectStream returns TRUE
    /\ At("stream") /\ playing /\ Goto("publish")
    /\ UNCHANGED <<caller, interface, socket, buffered, timedOut, rtmpVars, last,
                   misaligned, fifo, linkVars, serverVars, connection, used>>

(* The packet at the front is sent and popped; its headers are ClientSender's *)
SendMedia ==
    /\ At("publish") /\ playing /\ socket /\ fifo # <<>>
    /\ timedOut' = FALSE
    /\ \E ok \in WriteWorks :
         IF ok THEN /\ up' = Written(<<[kind |-> "media", txn |-> 0, id |-> 0, packet |-> Head(fifo)]>>)
                    /\ fifo' = Tail(fifo) /\ UNCHANGED phase
               ELSE Goto("loop") /\ UNCHANGED <<up, fifo>>
    /\ UNCHANGED <<caller, interface, socket, buffered, rtmpVars, last, misaligned, link,
                   down, serverVars, connection, used>>

SendTimesOut ==   \* RTMP_IsTimedout: connectSocket, the packet stays
    /\ At("publish") /\ playing /\ socket /\ fifo # <<>> /\ link = "up"
    /\ Use("timeouts", MaxTimeouts)
    /\ timedOut' = TRUE
    /\ caller' = "resend" /\ Goto("connect")
    /\ UNCHANGED <<interface, socket, buffered, rtmpVars, last, misaligned, fifo, linkVars,
                   serverVars, connection>>

Loop ==   \* RTMP_Close, a pause, and connectStream again
    /\ At("loop") /\ Goto("connect") /\ caller' = "stream"
    /\ RtmpClose
    /\ UNCHANGED <<interface, timedOut, last, fifo, down, serverVars,
                   connection, used>>

(* sendRawVideoData, sendX264VideoData, sendAudioData, in another thread;   *)
(* startRtmpClient has returned by then.  `playing' and `on' say what the   *)
(* client knew at the time.                                                 *)
Push ==
    /\ caller # "start" /\ phase \notin {"failed", "crashed"}
    /\ Use("packets", MaxPackets)
    /\ fifo' = Append(fifo, [stream |-> streamId, playing |-> playing, on |-> connection])
    /\ UNCHANGED <<clientVars, linkVars, serverVars, connection>>
-----------------------------------------------------------------------------
(* The server: SHandShake, then readPacketThread and ServePacket *)

ServerReads(kind) == /\ up # <<>> /\ Head(up).kind = kind /\ server.at # "closed"
                     /\ up' = Tail(up)
                     /\ UNCHANGED <<clientVars, fifo, link, connection, used>>
Answered(ms) == IF link = "up" THEN down \o ms ELSE down

ServerHandshake ==
    \/ /\ server.at = "c0c1" /\ ServerReads("C0C1")
       /\ server' = [server EXCEPT !.at = "c2"]
       /\ down' = Answered(<<Message("S0S1"), Message("S2")>>)
       /\ UNCHANGED served
    \/ /\ server.at = "c2" /\ ServerReads("C2")
       /\ server' = [server EXCEPT !.at = "packets"]
       /\ UNCHANGED <<down, served>>

ServeConnect ==
    /\ server.at = "packets" /\ ServerReads("connect")
    /\ server' = [server EXCEPT !.connects = @ + 1]
    /\ down' = Answered(<<Message("chunkSize"), Message("serverBW"), Message("clientBW"),
                          Result("connect", Head(up).txn, 0)>>)
    /\ UNCHANGED served

CreateSameNumber ==   \* mutant: the answer carries the number of the call before
    /\ server.at = "packets" /\ ServerReads("createStream")
    /\ server' = [server EXCEPT !.streamId = @ + 1]
    /\ down' = Answered(<<Result("createStream", Head(up).txn - 1, server.streamId + 1)>>)
    /\ UNCHANGED served

ServeCreateStream ==
    /\ server.at = "packets" /\ ServerReads("createStream")
    /\ server' = [server EXCEPT !.streamId = @ + 1]
    /\ down' = Answered(<<Result("createStream", Head(up).txn, server.streamId + 1)>>)
    /\ UNCHANGED served

(* streamBegin, beginPublishFunc and onStatus; nothing if the first fails *)
ServePublish ==
    /\ server.at = "packets" /\ ServerReads("publish")
    /\ \E ok \in WriteWorks :
         IF ok THEN /\ server' = [server EXCEPT !.begun = @ + 1]
                    /\ down' = Answered(<<Message("streamBegin"), Message("Publish.Start")>>)
               ELSE UNCHANGED <<server, down>>
    /\ UNCHANGED served

ServeMedia ==   \* videoFunc, whatever was published
    /\ server.at = "packets" /\ ServerReads("media")
    /\ served' = Append(served, Head(up).packet)
    /\ UNCHANGED <<server, down>>

ServeNothing ==
    /\ server.at = "packets"
    /\ \E kind \in {"chunkSize", "releaseStream", "FCPublish", "FCUnpublish", "_checkbw",
                    "_result", "pong", "ctrlPong"} : ServerReads(kind)
    /\ UNCHANGED <<down, server, served>>

(* the end of the connection: the reader leaves its loop, RTMP_Close *)
ServerStops ==
    /\ link \in {"lost", "closed"} /\ up = <<>> /\ server.at # "closed"
    /\ server' = [server EXCEPT !.at = "closed"]
    /\ UNCHANGED <<clientVars, fifo, linkVars, served, connection, used>>

(* A server that is not this one may say more, once it was called.          *)
PeerSays ==
    /\ link = "up" /\ server.connects > 0
    /\ Use("extra", MaxExtra)
    /\ \E kind \in Extra : down' = Append(down, Message(kind))
    /\ UNCHANGED <<clientVars, fifo, link, up, serverVars, connection>>

(* What was on the way may be lost with the connection.                     *)
Break ==
    /\ link = "up" /\ Use("failures", MaxFailures)
    /\ link' = "lost"
    /\ \/ UNCHANGED <<up, down>>
       \/ up' = <<>> /\ down' = <<>>
    /\ UNCHANGED <<clientVars, fifo, serverVars, connection>>
-----------------------------------------------------------------------------
Connecting == \/ ConnectSocket \/ NoSocket
              \/ InterfaceConnects \/ InterfaceFails \/ NoInterface
              \/ SendC0C1 \/ ReadS0S1 \/ ReadS2 \/ SendConnectPacket \/ AnnounceChunkSize
Receiving == \/ Fill \/ ReadFails
             \/ ReceiveResult \/ ReceivePublishStart \/ ReceiveOnBWDone
             \/ ReceiveOnbwcheck \/ ReceiveOnbwdone \/ ReceivePing \/ ReceiveNothing
             \/ ReceiveClose
ClientStep == \/ Connecting \/ Receiving
              \/ StreamPlays \/ SendMedia \/ Loop
Timeout == HandshakeTimesOut \/ StreamTimesOut \/ SendTimesOut
ServerStep == \/ ServerHandshake \/ ServeConnect \/ ServeCreateStream \/ ServePublish
              \/ ServeMedia \/ ServeNothing \/ ServerStops

Next == ClientStep \/ Timeout \/ ServerStep \/ Push \/ PeerSays \/ Break

Spec == Init /\ [][Next]_vars

(* The client's thread and the server's reader run; nothing is assumed of   *)
(* the network, the peer's whims or the application.                        *)
FairSpec == Spec /\ WF_vars(ClientStep) /\ WF_vars(ServerStep)
-----------------------------------------------------------------------------
(***************************************************************************)
(* An answer is taken for the call it answers: whatever number it carries, *)
(* the first pending call with that number is the one the server answered, *)
(* made on this connection, although calls outlive a socket and numbers    *)
(* start over after RTMP_Close.                                            *)
(***************************************************************************)
AnswersMatch ==
    \A r \in ToSet(buffered) \cup ToSet(down) :
        r.kind = "_result" /\ "of" \in DOMAIN r /\ Asked(r.txn) # {}
        => calls[First(Asked(r.txn))] = [name |-> r.of, num |-> r.txn, on |-> connection]

(***************************************************************************)
(* The client believes it publishes (m_bPlaying) only if the server began  *)
(* to publish on this very connection, unless the connection replaced only *)
(* the socket of one that did (connectSocket after a timed out send).      *)
(***************************************************************************)
PlayingMeansPublished == playing => server.begun = 1 \/ caller = "resend"

(***************************************************************************)
(* RTMP_ConnectStream never reads from a connection whose handshake took   *)
(* bytes of the connection before: connectSocket keeps the buffer, and the *)
(* client only reads again once RTMP_Close has emptied it.                 *)
(***************************************************************************)
ReadsInSync == At("stream") /\ ~playing => ~misaligned

(***************************************************************************)
(* A packet carries the id of the stream it is served on, unless it was    *)
(* pushed before the client published there (m_nInfoField2 is fixed by the *)
(* push), or nothing was published on this connection at all.              *)
(***************************************************************************)
StaleIdsAreOld ==
    \A p \in ToSet(served) :
        p.stream = server.streamId \/ ~p.playing \/ p.on # connection \/ server.begun = 0

(***************************************************************************)
(* On every connection the server gets "connect", "createStream" and       *)
(* "publish" in this order and once.                                       *)
(***************************************************************************)
stageOf == CASE server.connects > 1 \/ server.streamId > 1 \/ server.begun > 1 -> "repeated"
             [] server.begun = 1 -> "published"
             [] server.begun = 0 /\ server.streamId = 1 -> "created"
             [] server.streamId = 0 /\ server.connects = 1 -> "connected"
             [] OTHER -> "open"
Protocol == INSTANCE PublishProtocol WITH stage <- stageOf
ImplementsProtocol == Protocol!PPSpec

(***************************************************************************)
(* Whatever is lost on the way, and whatever else a server says, a client  *)
(* that got through startRtmpClient comes to publish again, or ends where  *)
(* a timeout ends it.                                                      *)
(***************************************************************************)
ComesToPublish == []<>(phase \in {"publish", "failed", "crashed"})

(***************************************************************************)
(* librtmp.3:148 of the option timeout: "Timeout the session after num     *)
(* seconds without receiving any data from the server".                    *)
(***************************************************************************)
TimeoutEndsSession == timedOut => ~At("stream") /\ ~At("crashed")
=============================================================================

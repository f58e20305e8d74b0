----------------------------- MODULE StreamServer ---------------------------
(***************************************************************************)
(* rtmpsrv.c and the life cycle of a stream in rtmp_stream.c.  One thread  *)
(* accepts connections (serverThread) and, after the handshake, starts a   *)
(* reader thread for the stream (readPacketThread); the application's      *)
(* thread registers its callbacks and closes the server.  None of them     *)
(* takes a lock, and nobody joins a reader: what keeps them apart is the   *)
(* test the accept thread makes before it replaces the current stream.     *)
(*                                                                         *)
(* A descriptor is named by its peer.  Once a step has used memory that    *)
(* was freed (`wild') nothing more is said: the program's behaviour is     *)
(* undefined from there on.                                                *)
(***************************************************************************)
EXTENDS Naturals, FiniteSets

CONSTANTS Stream,           \* addresses of RTMP_STREAM objects
          Peer,             \* the peers; each connects at most once
          NULL,
          HandshakesFail    \* may a handshake fail?

ASSUME ServerAssumption == /\ NULL \notin Stream /\ NULL \notin Peer
                           /\ HandshakesFail \in BOOLEAN

VARIABLES
    (* the accept thread and the server *)
    acceptor,     \* where serverThread is
    sockfd,       \* its local sockfd
    serverState,  \* RTMP_SERVER.state
    listening,    \* is RTMP_SERVER.socket a descriptor (not -1)?
    rtmpStream,   \* the global pointer, NULL or an address
    callback,     \* are the global callbacks (videoFunc, ...) set?
    (* the streams *)
    stream,       \* RTMP_STREAM.state of each object, "free" if it is not allocated
    rtmp,         \* RTMP_STREAM.rtmp: is the RTMP it points to allocated?
    socket,       \* rtmp->m_sb.sb_socket, NULL for -1
    streamCb,     \* RTMP_STREAM.videoFunc, ...: are they set?
    reader,       \* where the reader thread of each stream is
    (* the application and the peers *)
    app,          \* where the application's thread is
    peer,         \* "out", "pending" in the backlog, or "accepted"
    fds,          \* the accepted descriptors that are open
    (* auxiliary *)
    leaked,       \* streams whose RTMP and video buffer were never freed
    ignored,      \* peers whose request timed out in select
    late,         \* did the accept thread start after stopRtmpServer had begun?
    wild          \* has freed memory been used?

acceptVars == <<acceptor, sockfd, serverState, listening, rtmpStream>>
streamVars == <<stream, rtmp, socket, streamCb>>
auxVars == <<leaked, ignored, late>>
vars == <<acceptVars, callback, streamVars, reader, app, peer, fds, auxVars, wild>>

Init == /\ acceptor = "start" /\ sockfd = NULL
        /\ serverState = "listening" /\ listening = TRUE
        /\ rtmpStream = NULL /\ callback = FALSE
        /\ stream = [s \in Stream |-> "free"]
        /\ rtmp = [s \in Stream |-> FALSE]
        /\ socket = [s \in Stream |-> NULL]
        /\ streamCb = [s \in Stream |-> FALSE]
        /\ reader = [s \in Stream |-> "none"]
        /\ app = "register"
        /\ peer = [p \in Peer |-> "out"] /\ fds = {}
        /\ leaked = {} /\ ignored = {} /\ late = FALSE /\ wild = FALSE
-----------------------------------------------------------------------------
Allocated(s) == stream[s] # "free"

(* A step that reads or writes *s, and one that also uses *s->rtmp; what it *)
(* does with freed memory is not modelled.                                  *)
Uses(s) == Allocated(s) /\ wild' = FALSE
UsesRtmp(s) == Uses(s) /\ rtmp[s]
UsesFreed == /\ wild' = TRUE
             /\ UNCHANGED <<acceptVars, callback, streamVars, reader, app, peer, fds,
                            auxVars>>

AcceptorAt(here, there) == acceptor = here /\ acceptor' = there

(* RTMP_Close of the stream's RTMP *)
RtmpClose(s) == /\ fds' = fds \ {socket[s]}
                /\ socket' = [socket EXCEPT ![s] = NULL]

(* serverThread: the state is set without looking at what it was *)
Start == /\ AcceptorAt("start", "while")
         /\ serverState' = "accepting"
         /\ late' = (app \notin {"register", "running"})
         /\ UNCHANGED <<sockfd, listening, rtmpStream, callback, streamVars, reader,
                        app, peer, fds, leaked, ignored, wild>>

(* mutant: the state is not looked at again *)
WhileForever == /\ AcceptorAt("while", "accept")
                /\ UNCHANGED <<sockfd, serverState, listening, rtmpStream, callback,
                               streamVars, reader, app, peer, fds, auxVars, wild>>

While == /\ \/ serverState = "accepting" /\ AcceptorAt("while", "accept")
               /\ UNCHANGED serverState
            \/ serverState # "accepting" /\ AcceptorAt("while", "exited")
               /\ serverState' = "stopping"
         /\ UNCHANGED <<sockfd, listening, rtmpStream, callback, streamVars, reader,
                        app, peer, fds, auxVars, wild>>

(* accept on descriptor -1 fails; else it blocks until a peer comes, even  *)
(* if the application closes the listening socket meanwhile                *)
CallAccept == /\ AcceptorAt("accept", IF listening THEN "blocked" ELSE "while")
              /\ UNCHANGED <<sockfd, serverState, listening, rtmpStream, callback,
                             streamVars, reader, app, peer, fds, auxVars, wild>>

Accepted(p) == /\ AcceptorAt("blocked", "check")
               /\ peer[p] = "pending"
               /\ peer' = [peer EXCEPT ![p] = "accepted"]
               /\ sockfd' = p /\ fds' = fds \cup {p}
               /\ UNCHANGED <<serverState, listening, rtmpStream, callback, streamVars,
                              reader, app, auxVars, wild>>

(* where closing the listening socket interrupts accept *)
AcceptInterrupted ==
    /\ AcceptorAt("blocked", "while")
    /\ ~listening
    /\ UNCHANGED <<sockfd, serverState, listening, rtmpStream, callback, streamVars,
                   reader, app, peer, fds, auxVars, wild>>

AlwaysReplaced(s) == FALSE   \* mutant: no test

(* rtmpStream->rtmp != 0 && streamIsConnect(rtmpStream) *)
Connected(s) == rtmp[s] /\ stream[s] = "in_progress" /\ socket[s] # NULL

(* mutant: the refused connection is not closed *)
RefuseLeftOpen ==
    /\ AcceptorAt("check", "while")
    /\ rtmpStream # NULL /\ Uses(rtmpStream) /\ Connected(rtmpStream)
    /\ UNCHANGED <<sockfd, serverState, listening, rtmpStream, callback, streamVars,
                   reader, app, peer, fds, auxVars>>

Refuse == /\ AcceptorAt("check", "while")
          /\ rtmpStream # NULL /\ Uses(rtmpStream) /\ Connected(rtmpStream)
          /\ fds' = fds \ {sockfd}
          /\ UNCHANGED <<sockfd, serverState, listening, rtmpStream, callback,
                         streamVars, reader, app, peer, auxVars>>

Replace == /\ AcceptorAt("check", "close")
           /\ \/ rtmpStream = NULL /\ UNCHANGED wild
              \/ rtmpStream # NULL /\ Uses(rtmpStream) /\ ~Connected(rtmpStream)
           /\ UNCHANGED <<sockfd, serverState, listening, rtmpStream, callback,
                          streamVars, reader, app, peer, fds, auxVars>>

(***************************************************************************)
(* closeRtmpStreaming: state, RTMP_Close, free of the RTMP, then of the    *)
(* stream; a stream in state STOPPED keeps its RTMP and its video buffer.  *)
(***************************************************************************)
CloseNothing == /\ AcceptorAt("close", "init") /\ rtmpStream = NULL
                /\ UNCHANGED <<sockfd, serverState, listening, rtmpStream, callback,
                               streamVars, reader, app, peer, fds, auxVars, wild>>

CloseRtmp == LET s == rtmpStream IN
    /\ AcceptorAt("close", "free") /\ s # NULL
    /\ Uses(s)
    /\ IF stream[s] # "stopped"
       THEN /\ RtmpClose(s)
            /\ stream' = [stream EXCEPT ![s] = "stopped"]
            /\ rtmp' = [rtmp EXCEPT ![s] = FALSE]
            /\ UNCHANGED leaked
       ELSE /\ leaked' = leaked \cup {s}
            /\ UNCHANGED <<stream, rtmp, socket, fds>>
    /\ UNCHANGED <<sockfd, serverState, listening, rtmpStream, callback, streamCb,
                   reader, app, peer, ignored, late>>

CloseStream == /\ AcceptorAt("free", "forget")
               /\ Uses(rtmpStream)
               /\ stream' = [stream EXCEPT ![rtmpStream] = "free"]
               /\ UNCHANGED <<sockfd, serverState, listening, rtmpStream, callback,
                              rtmp, socket, streamCb, reader, app, peer, fds, auxVars>>

ForgetStream == /\ AcceptorAt("forget", "init")
                /\ rtmpStream' = NULL
                /\ UNCHANGED <<sockfd, serverState, listening, callback, streamVars,
                               reader, app, peer, fds, auxVars, wild>>

(* initRtmpStream; malloc may return any cell no thread still points to *)
Unused == {s \in Stream \ leaked : ~Allocated(s) /\ reader[s] \in {"none", "done"}}

InitStream == \E s \in Unused :
    /\ AcceptorAt("init", "select")
    /\ rtmpStream' = s
    /\ stream' = [stream EXCEPT ![s] = "stopped"]
    /\ rtmp' = [rtmp EXCEPT ![s] = TRUE]
    /\ socket' = [socket EXCEPT ![s] = NULL]
    /\ streamCb' = [streamCb EXCEPT ![s] = FALSE]
    /\ reader' = [reader EXCEPT ![s] = "none"]
    /\ UNCHANGED <<sockfd, serverState, listening, callback, app, peer, fds, auxVars,
                   wild>>

(* openRtmpStreaming: nothing to read within five seconds, or a handshake *)
Ignore == /\ AcceptorAt("select", "while")
          /\ ignored' = ignored \cup {sockfd}
          /\ UNCHANGED <<sockfd, serverState, listening, rtmpStream, callback,
                         streamVars, reader, app, peer, fds, leaked, late, wild>>

Open == /\ AcceptorAt("select", "serve")
        /\ Uses(rtmpStream)
        /\ socket' = [socket EXCEPT ![rtmpStream] = sockfd]
        /\ stream' = [stream EXCEPT ![rtmpStream] = "in_progress"]
        /\ UNCHANGED <<sockfd, serverState, listening, rtmpStream, callback, rtmp,
                       streamCb, reader, app, peer, fds, auxVars>>

(* cleanup: everything is freed, rtmpStream still points to it *)
HandshakeFails ==
    /\ HandshakesFail
    /\ AcceptorAt("serve", "while")
    /\ RtmpClose(rtmpStream)
    /\ stream' = [stream EXCEPT ![rtmpStream] = "free"]
    /\ rtmp' = [rtmp EXCEPT ![rtmpStream] = FALSE]
    /\ UNCHANGED <<sockfd, serverState, listening, rtmpStream, callback, streamCb,
                   reader, app, peer, auxVars, wild>>

StartReader == /\ AcceptorAt("serve", "callbacks")
               /\ reader' = [reader EXCEPT ![rtmpStream] = "loop"]
               /\ UNCHANGED <<sockfd, serverState, listening, rtmpStream, callback,
                              streamVars, app, peer, fds, auxVars, wild>>

(* mutant: the stream keeps the callbacks it had *)
CallbacksForgotten ==
    /\ AcceptorAt("callbacks", "while")
    /\ Uses(rtmpStream)
    /\ UNCHANGED <<sockfd, serverState, listening, rtmpStream, callback, streamVars,
                   reader, app, peer, fds, auxVars>>

(* the reader may have been running for a while *)
SetCallbacks == /\ AcceptorAt("callbacks", "while")
                /\ Uses(rtmpStream)
                /\ streamCb' = [streamCb EXCEPT ![rtmpStream] = callback]
                /\ UNCHANGED <<sockfd, serverState, listening, rtmpStream, callback,
                               stream, rtmp, socket, reader, app, peer, fds, auxVars>>

(* the stream a failed handshake freed; nobody else frees one *)
AcceptorUsesFreed == /\ acceptor = "check" /\ rtmpStream # NULL
                     /\ ~Allocated(rtmpStream)
                     /\ UsesFreed

AcceptorStep == \/ Start \/ While \/ CallAccept
                \/ \E p \in Peer : Accepted(p)
                \/ Refuse \/ Replace \/ CloseNothing \/ CloseRtmp \/ CloseStream
                \/ ForgetStream \/ InitStream \/ Ignore \/ Open \/ HandshakeFails \/ StartReader
                \/ SetCallbacks \/ AcceptorUsesFreed
-----------------------------------------------------------------------------
(* readPacketThread of stream s *)

ReaderAt(s, here, there) == reader[s] = here /\ reader' = [reader EXCEPT ![s] = there]

(* while (state == STREAMING_IN_PROGRESS && RTMP_IsConnected(rtmp)) *)
ReaderLoop(s) ==
    /\ Uses(s)
    /\ IF stream[s] = "in_progress" /\ socket[s] # NULL
       THEN ReaderAt(s, "loop", "read")
       ELSE ReaderAt(s, "loop", "leave")
    /\ UNCHANGED <<acceptVars, callback, streamVars, app, peer, fds, auxVars>>

(* RTMP_ReadPacket: a packet, a timeout, or a lost connection, which ReadN *)
(* closes                                                                  *)
ReadPacket(s) ==
    /\ UsesRtmp(s)
    /\ \/ ReaderAt(s, "read", "serve") /\ UNCHANGED <<socket, fds>>
       \/ ReaderAt(s, "read", "leave") /\ UNCHANGED <<socket, fds>>
       \/ ReaderAt(s, "read", "leave") /\ RtmpClose(s)
    /\ UNCHANGED <<acceptVars, callback, stream, rtmp, streamCb, app, peer, auxVars>>

(* ServePacket calls the callbacks that are set, or closes the connection *)
ServePacket(s) ==
    /\ UsesRtmp(s)
    /\ ReaderAt(s, "serve", "loop")
    /\ RtmpClose(s) \/ UNCHANGED <<socket, fds>>
    /\ UNCHANGED <<acceptVars, callback, stream, rtmp, streamCb, app, peer, auxVars>>

Leave(s) == /\ Uses(s)
            /\ ReaderAt(s, "leave", "close")
            /\ stream' = [stream EXCEPT ![s] = "stopping"]
            /\ UNCHANGED <<acceptVars, callback, rtmp, socket, streamCb, app, peer,
                           fds, auxVars>>

CloseReader(s) == /\ UsesRtmp(s)
                  /\ ReaderAt(s, "close", "exit")
                  /\ RtmpClose(s)
                  /\ UNCHANGED <<acceptVars, callback, stream, rtmp, streamCb, app,
                                 peer, auxVars>>

(* exitPublishThreadFunc, and the last line of the log *)
ExitReader(s) == /\ UsesRtmp(s)
                 /\ ReaderAt(s, "exit", "done")
                 /\ UNCHANGED <<acceptVars, callback, streamVars, app, peer, fds,
                                auxVars>>

Running(s) == reader[s] \notin {"none", "done"}

(* closeRtmpServer frees the log a reader writes to; the two steps named   *)
(* here do not look at the RTMP                                            *)
ReaderUsesFreed(s) ==
    /\ Running(s)
    /\ \/ ~Allocated(s) \/ app = "closed"
       \/ ~rtmp[s] /\ reader[s] \notin {"loop", "leave"}
    /\ UsesFreed

ReaderStep(s) == \/ app # "closed" /\ \/ ReaderLoop(s) \/ ReadPacket(s)
                                      \/ ServePacket(s) \/ Leave(s)
                                      \/ CloseReader(s) \/ ExitReader(s)
                 \/ ReaderUsesFreed(s)
-----------------------------------------------------------------------------
(* The application, and the peers *)

AppAt(here, there) == app = here /\ app' = there

(* setRtmpVideoCallback: of the current stream if there is one, else for   *)
(* the streams to come                                                     *)
RegisterCallback ==
    /\ AppAt("register", "running")
    /\ \/ /\ rtmpStream = NULL /\ callback' = TRUE
          /\ UNCHANGED <<streamCb, wild>>
       \/ /\ rtmpStream # NULL /\ Uses(rtmpStream)
          /\ streamCb' = [streamCb EXCEPT ![rtmpStream] = TRUE]
          /\ UNCHANGED callback
    /\ UNCHANGED <<acceptVars, stream, rtmp, socket, reader, peer, fds, auxVars>>

AppUsesFreed == /\ app = "register" /\ rtmpStream # NULL
                /\ ~Allocated(rtmpStream)
                /\ UsesFreed

(* stopRtmpServer, within closeRtmpServer *)
StopState == /\ AppAt("running", "stopping")
             /\ serverState' = "stopping"
             /\ UNCHANGED <<acceptor, sockfd, listening, rtmpStream, callback,
                            streamVars, reader, peer, fds, auxVars, wild>>

StopSocket == /\ AppAt("stopping", "join")
              /\ listening' = FALSE
              /\ UNCHANGED <<acceptor, sockfd, serverState, rtmpStream, callback,
                             streamVars, reader, peer, fds, auxVars, wild>>

StopJoin == /\ AppAt("join", "closed")
            /\ acceptor = "exited"
            /\ serverState' = "stopped"
            /\ UNCHANGED <<acceptor, sockfd, listening, rtmpStream, callback,
                           streamVars, reader, peer, fds, auxVars, wild>>

AppStep == RegisterCallback \/ AppUsesFreed \/ StopState \/ StopSocket \/ StopJoin

(* the backlog takes peers while the socket listens, or accept holds it *)
Connect(p) == /\ peer[p] = "out"
              /\ listening \/ acceptor = "blocked"
              /\ peer' = [peer EXCEPT ![p] = "pending"]
              /\ UNCHANGED <<acceptVars, callback, streamVars, reader, app, fds,
                             auxVars, wild>>

(* Nothing is left to do, or nothing can be said any more. *)
Ended == /\ wild \/ (app = "closed" /\ \A s \in Stream : ~Running(s))
         /\ UNCHANGED vars

Next == \/ /\ ~wild
           /\ \/ AcceptorStep \/ AcceptInterrupted \/ AppStep
              \/ \E s \in Stream : ReaderStep(s)
              \/ \E p \in Peer : Connect(p)
        \/ Ended

Spec == Init /\ [][Next]_vars

(***************************************************************************)
(* The threads run.  A read ends (there is a timeout of thirty seconds),   *)
(* but nothing makes a peer connect, the application close the server, or  *)
(* a blocked accept return because of that.                                *)
(***************************************************************************)
Fairness == /\ WF_vars(~wild /\ AcceptorStep)
            /\ WF_vars(~wild /\ (StopSocket \/ StopJoin))
            /\ \A s \in Stream : WF_vars(~wild /\ ReaderStep(s))

FairSpec == Spec /\ Fairness
-----------------------------------------------------------------------------
(***************************************************************************)
(* Every variable stays within the values the threads give it.             *)
(***************************************************************************)
TypeOK ==
    /\ acceptor \in {"start", "while", "accept", "blocked", "check", "close", "free",
                     "forget", "init", "select", "serve", "callbacks", "exited"}
    /\ acceptor \in {"free", "forget", "select", "serve", "callbacks"} => rtmpStream # NULL
    /\ sockfd \in Peer \cup {NULL} /\ rtmpStream \in Stream \cup {NULL}
    /\ serverState \in {"listening", "accepting", "stopping", "stopped"}
    /\ stream \in [Stream -> {"free", "stopped", "in_progress", "stopping"}]
    /\ rtmp \in [Stream -> BOOLEAN] /\ streamCb \in [Stream -> BOOLEAN]
    /\ socket \in [Stream -> Peer \cup {NULL}]
    /\ reader \in [Stream -> {"none", "loop", "read", "serve", "leave", "close",
                              "exit", "done"}]
    /\ app \in {"register", "running", "stopping", "join", "closed"}
    /\ peer \in [Peer -> {"out", "pending", "accepted"}] /\ fds \subseteq Peer
    /\ {listening, callback, late, wild} \subseteq BOOLEAN

Serving(s) == reader[s] \in {"read", "serve"}

(***************************************************************************)
(* At most one reader reads packets and calls the application, although    *)
(* no lock keeps the accept thread from replacing a stream, and the stream *)
(* it uses is not freed under it: streamIsConnect is enough for that.      *)
(***************************************************************************)
OneServingReader ==
    \A s \in Stream : Serving(s) =>
        /\ Allocated(s) /\ rtmp[s] /\ rtmpStream = s
        /\ \A t \in Stream \ {s} : ~Serving(t)

(***************************************************************************)
(* Every open descriptor has an owner that will close it: a stream that is *)
(* allocated, or the accept thread, except those of ignored requests.      *)
(***************************************************************************)
NoDescriptorLost ==
    \A p \in fds : \/ \E s \in Stream : Allocated(s) /\ rtmp[s] /\ socket[s] = p
                   \/ sockfd = p /\ acceptor \in {"check", "close", "free", "forget", "init", "select"}
                   \/ p \in ignored

(***************************************************************************)
(* Freed memory is used only by a reader that has left its loop while its  *)
(* stream is replaced, by any reader after closeRtmpServer, or through the *)
(* global pointer: left dangling by a failed handshake, or read by a       *)
(* set...Callback before the accept thread clears it.                      *)
(***************************************************************************)
WildOnlyWhenKnown ==
    [][wild' # wild =>
         \/ \E s \in Stream : reader[s] \in {"loop", "leave", "close", "exit"}
                                /\ (Allocated(s) => ~rtmp[s])
         \/ app = "closed"
         \/ /\ HandshakesFail \/ acceptor = "forget"
            /\ rtmpStream # NULL /\ ~Allocated(rtmpStream)]_vars

(***************************************************************************)
(* closeRtmpServer returns, unless accept stays blocked because no peer    *)
(* comes any more, or serverThread began so late that it overwrote the     *)
(* state that asks it to stop.                                             *)
(***************************************************************************)
CloseReturns ==
    [](app = "join" => <>(app = "closed" \/ late \/ wild \/ [](acceptor = "blocked")))

(***************************************************************************)
(* Callbacks registered before any stream exists are set in every stream   *)
(* that is served, from the moment the accept thread is back in its loop.  *)
(* (Those registered later belong to one stream, and are lost even for it  *)
(* if the accept thread is still opening it.)                              *)
(***************************************************************************)
CallbacksReachReader ==
    \A s \in Stream : Serving(s) /\ callback /\ acceptor # "callbacks" => streamCb[s]

(***************************************************************************)
(* rtmpsrv.c:147 says why a connection is refused: "old stream still       *)
(* running".  A stream whose reader is running is not freed.               *)
(***************************************************************************)
RunningIsNotFreed == \A s \in Stream : Running(s) => Allocated(s) /\ rtmp[s]
=============================================================================

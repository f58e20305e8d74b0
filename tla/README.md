# librtmpsvr in TLA+

This directory holds a verification development for `src/jni/librtmpsvr`: a small
RTMP server and a publishing RTMP client built on a modified librtmp, and the relay
(`test_rtmpsvr_push.c`) that feeds what the server receives to the client. The
program is C with threads, manual memory and almost no locks; it has no unit tests
beyond the two manual programs `test_rtmpsrv.c` and `test_rtmpsvr_push.c`. What can
go wrong in it is what happens between threads, across reconnects and in the
protocol state both ends of a connection infer from each other. That is what is
modelled here.

Modules are translated from the source. `PROJECT.json` maps each definition to the
lines it stands for, and lists components, runs, mutants, hazards and theorems.
Paths below are relative to `src/jni/librtmpsvr`.

## 1. Inventory

| component | files | state | operations | modelled in |
|---|---|---|---|---|
| packet FIFO | `packet_fifo.c/.h` | header, tail, size, malloc'ed nodes, one mutex | create, push, front, pop, clear, release | `PacketFifo`, `AbstractFifo` |
| publishing client | `rtmp_client.c/.h` | `runThread`, FIFO, header flags, metadata and SPS/PPS buffers, the RTMP | start, sender thread, `setMetaData`, `sendX264VideoData`, `sendAudioData`, `beforeSendData`, `changeChunkSize`, stop | `ClientSender`, `SharedConnection`, `HeaderBuffers`, `ClientSession`, `ChunkStream` |
| chunk layer | `librtmp/rtmp.c` 2900-3450 | chunk sizes, last packet and timestamp of each channel, on both ends | `RTMP_SendPacket`, `RTMP_ReadPacket`, chunk size messages | `ChunkStream` |
| connection and session | `librtmp/rtmp.c` 770-1480, 1480-2900, 3497-3601 | socket, read buffer, timeout flag, `m_bPlaying`, stream id, pending calls, counts of bytes | connect, handshake, `RTMP_ConnectStream`, `RTMP_ClientPacket`, `HandleInvoke`, `RTMP_Close`, `ReadN`/`WriteN` | `ClientSession`, `SharedConnection`, `ByteCount` |
| stream server | `rtmpsrv.c/.h`, `rtmp_stream.c` 1231-1416 | server state, listening socket, the global stream pointer, global callbacks, each stream's state and RTMP | accept thread, reader threads, close, `set...Callback` | `StreamServer` |
| publish protocol of the server | `rtmp_stream.c` 580-1224 | stream id, connect arguments | `ServeInvoke`, `ServePacket`, replies | `ClientSession` |
| server media path | `rtmp_stream.c` 800-1080 | video buffer | AVC packet to Annex B, data frames | `AvcFraming`, `AmfValues` |
| AMF | `librtmp/amf.c` | none | encode, decode, find a property | `AmfValues` |
| player side of librtmp | `librtmp/rtmp.c` | read buffer, resume | `RTMP_Read`, `RTMP_Write`, FLV | not modelled: nothing here calls it |
| URL parsing, SWF hash, crypto handshake, log, utilities, thread wrappers | `librtmp/parseurl.c`, `hashswf.c`, `dh.h`, `handshake.h`, `log.c`, `utils.c`, `thread.c` | - | - | not modelled: stateless, not built, or taken by what they guarantee |

How they interact:

    peer --TCP--> accept thread --starts--> reader thread --callbacks--> application
                  (serverThread)            (readPacketThread)               |
                                                                 sendX264VideoData, ...
                                                                             v
    peer <--TCP-- RTMP_SendPacket <-- clientStreamThread <--front/pop-- packet FIFO

* The accept thread, the readers and the application share `rtmpStream`, the stream
  objects and the callbacks. There is no lock, and readers are never joined.
* The feeder (the application, in the relay a reader's callback), the sender thread
  and the thread that stops the client share the client. Only the FIFO has a lock;
  the pointer `frontFifo` returns is used after that lock is released.
* `beforeSendData` (a reset) calls `RTMP_Close` on the RTMP the sender is using, and
  `changeChunkSize` sends on it, both from another thread.
* In the relay client and server share a process, so that the number of a descriptor
  the client closed may be given to a connection of the server.
* The two ends of a connection share nothing but the bytes; headers leave out what
  the other side is expected to remember, and answers are matched with calls by number.

Hard behaviours, by component (each is a `hazards` entry with its line):

* FIFO: the first push leaves `packetFifoHeader` NULL for readers to repair; `clear`
  and `release` walk without that repair; cells are reused after `free`.
* Client: send, then pop, with reconnects, drops and resets between the two; what a
  timeout leads to; header flags per connection; stopping while blocked; header
  buffers replaced while they are read; a socket closed by two threads.
* Session: two ways to connect again, of which one keeps the session (`RTMP_Close`,
  `connectSocket`); numbers of calls that start over; a read that times out and is not
  looked at; packets pushed with the stream id of the moment; counts that wrap.
* Chunk layer: header compression against remembered packets, chunk sizes that change
  in mid stream, a header written over the packet's own body, state that survives a
  reconnect, `uint32_t` timestamps with an extension.
* Server: replacing a stream while its reader still runs, failed handshakes, select
  timeouts, closing the server while `accept` blocks, callbacks copied late.
* Data: buffers that may be too short, a decoder that goes on after an error, a search
  for the end of a unit that also stops elsewhere.

What makes each component correct: the FIFO is a queue and frees each thing once; the
client loses nothing and keeps the order except where a reset interferes; the two ends
of the chunk layer rebuild what was sent; a session publishes once per connection and
comes back after failures; one reader serves and every descriptor has an owner; what is
encoded is decoded.

## 2. The modules

### PacketFifo, AbstractFifo, MCPacketFifo, PacketFifoProofs

Every operation of `FifoAgent`, on a heap: `Node` is the set of cells `malloc` can
return, `live` the allocated ones, `next` and `packet` their fields, and a freed cell
may be returned again. Operations hold `fifoMutex` throughout, so each is one action.
`chain` is auxiliary: the nodes pushed and not removed. A packet is pushed only while
nobody else owns it, which is how the callers allocate them. `AbstractFifo` is the
queue the callers believe in (push, front, pop, clear), and the list implements it
under `queue <- Queue`. `Front` of the abstract queue answers NULL exactly when it is
empty.

### ClientSender, MCClientSender, ClientSenderProofs

Extends `PacketFifo` with the three threads of a client.

| code | actions |
|---|---|
| `clientStreamThread` | `Run`, `ConnectStreamSocket`, `ConnectStreamPublish`, `ClearFlags`, `While`, `Front`, `Look`, `Drop`, `SendMeta`, `SendSps`, `SendPacketOk`/`SendPacketFails`, `Reconnect`, `PopSent`, `Close` |
| `setMetaData`; `sendX264VideoData`, `sendAudioData` | `SetMetaData`, `SetMetaDataEnd`; `SendData`, `StoreSps`, `Push` |
| `beforeSendData` | `BeforeSendData`, `ResetClear`, `ResetFlags`, `ResetClose` |
| `stopRtmpClient` | `StopRunning`, `StopPlaying`, `StopRelease` |

A step is one access to shared state or one blocking call. The connection is what the
sender can tell of it: a socket that is open, closed (-1) or stale (closed, but still
in `sb_socket`), `m_bPlaying`, and whether a failed send set `sb_timedout`. `WriteN`
does not close the connection (the call is commented out at `rtmp.c:1463`), so after a
failure the loop decides. A packet is its identity and its kind: key frame, inter frame
(first body byte 0x27) or audio. The caller is assumed to stop feeding before it calls
`stopRtmpClient`, which frees the FIFO.

### SharedConnection, HeaderBuffers, MCClientRaces, SharedConnectionProofs, HeaderBuffersProofs

What `ClientSender` takes as one step and two threads do not: `SharedConnection` splits
`RTMP_Close` (test, unpublish, close the descriptor, reset the fields, free and forget
the channel's last packet), `connectSocket` with the name lookup before the new socket,
and `RTMP_SendPacket`, between the sender and `beforeSendData`. `RTMP_SendPacket` is the
same steps in either thread: it takes the channel's last packet, uses it, writes, and keeps
the new one (`TakePrevious`, `Compress`, `Write`, `Keep`, `Copy`). The sender calls it from
its loop, and `RTMP_Close` calls it in either thread to send FCUnpublish (`Unpublish`). One
channel's record is followed; each send is of that channel or of another. Descriptors are numbers; the kernel gives the lowest free
one; `OtherOpens` and `OtherCloses` are the rest of the process. `hit` says that the
last step used a descriptor of somebody else, `wild` that freed memory was used.

`HeaderBuffers` has every access to the SPS and PPS buffers: `sendX264VideoData`
replaces them while `getSpsAndPps` computes a size, allocates a packet and copies into
it. A buffer is named by the frame it came with. `corrupt` is the use of freed memory or
a write beyond the packet; both stop the model, since behaviour is undefined there.
`SendTimesOut` is the send that times out: the socket is connected again, no flag is cleared,
and the same packet is sent on the new connection.

`MCClientRaces` runs the two in one instance, each in behaviours of its own.

### ClientSession, PublishProtocol, MCClientSession, ClientSessionProofs

`startRtmpClient` and the thread until they publish, against a server that is
`rtmp_stream.c`'s: `RTMP_Connect0` over its four interfaces, the plain handshake,
`connect`, the chunk size, then `RTMP_ConnectStream`: one action per message
`RTMP_ClientPacket` and `HandleInvoke` know, with the pending calls of `m_methodCalls`
and their numbers, until `onStatus` begins to publish. The server side has one action
per message `ServePacket` and `ServeInvoke` know. `Extra` is what another server may say
(pings, bandwidth checks, status that ends the session, media). Messages come whole; how
they are cut is `ChunkStream`'s subject. Faults: a connection breaks at any time, with
or without what was under way, an attempt to connect fails, a name does not resolve or no
socket can be had (`NoSocket`; after a timed out send the client then goes on with the
number of the closed one), a write to a lost connection fails or does not, a read or a send
times out. `PublishProtocol` is the
abstract specification: on each connection connect, createStream and publish in this
order, each once. `ClientSession` implements it under `stage <- stageOf`, which reads
the stage from what the server has served.

### ChunkStream, MCChunkStream, ChunkStreamProofs

One sending `RTMP` and the peer's receiving `RTMP`, byte for byte in structure: the
wire is a sequence of units, each a chunk header or one body byte that knows which byte
of which packet it is. `SendPacket` chooses how much of the header to leave out and
overwrites `m_headerType` in the caller's packet, `WriteChunk` is one turn of the send
loop with the next header written over the body, `WriteFails` a failure after part of a
chunk. `ReadPacket` reads one chunk; `LoseSync` is the moment the reader takes a body
byte for a header, after which nothing is claimed. The stream thread goes through the
phases of `rtmp_client.c`: connect command, chunk size announcement, media packets from
the FIFO (`SendFront`), reconnects through `RTMP_Close` (`CloseAndConnect`) or only
`connectSocket` (`ReconnectSocket`). Before the first packet of the FIFO on a published
connection goes the metadata, before its first video the SPS and PPS (`ToSend`), if the
client has them (`NothingToSend`); both have full headers and use the channels of the media. `ChangeChunkSize` is the other thread. Numbers are scaled:
timestamps modulo 16 with the extension from 7 on stand for 2^32 and 0xffffff, chunk
sizes 2, 3, 5 for 128, 4096 and what an application asks for.

Assumptions: a failure before the first media packet, or of the metadata or the SPS and PPS,
leads to `RTMP_Close`; no frame is dropped from the FIFO, and `beforeSendData` does not
interfere (`ClientSender` has both); all SPS packets have one size; the four bytes of a chunk
size are one unit, so that the announcement itself is never cut, as with any chunk size from
four on; a peer
starts afresh with every connection (`openRtmpStreaming` on the other side); the
commands of `RTMP_ConnectStream` after the chunk size (createStream, publish) behave as
the connect command does and are left out; HTTP tunnelling and channels above 63 are
left out because neither the client nor the server uses them.

### StreamServer, MCStreamServer, StreamServerProofs

The accept thread step by step from `accept` to the copied callbacks, each reader's
loop, `closeRtmpServer`, and one `set...Callback` for all five. `malloc` returns any
cell no thread still points to; `Uses(s)` marks every access to a stream, and an access
to freed memory sets `wild`, after which the model stops: behaviour is undefined there.
A descriptor is named by its peer. `accept` on a closed listening socket may or may not
return. `leaked` are the streams freed without their RTMP and video buffer after a
select timeout. `RTMP_Close` is one step here; what two threads inside it do is
`SharedConnection`'s subject.

### Bytes, AmfValues, AvcFraming, ByteCount, MCFormats, ByteCountProofs

`AmfValues` has `AMF_Encode` with its checks of the room left, `AMF_Decode` with its
way to go on after an error, the AMF3 decoder, the search for a property, and the
metadata packet from `getMetaDataPacket` to `handleDataFrame`, as operators on bytes.
`AvcFraming` has the search for SPS and PPS in an Annex B buffer
(`sendX264VideoData`), the packets made of them, and the way back in
`handleVideoPacket` with the growth of its buffer. `ByteCount` is a state machine:
`ReadN`'s report of the bytes read, with 32 bit counts. `MCFormats` enumerates inputs
for the operators, one choice per behaviour, and runs `ByteCount` while none is chosen.
`AmfValues` and `AvcFraming` use RECURSIVE operators and are only model-checked.

## 3. The runs

| run | bounds | what it shows |
|---|---|---|
| `fifo` | 4 cells, 5 packets, symmetric | list structure, ownership, the only leak, refinement of the queue |
| `client_publish` | 4 packets (1 key, 2 inter, 1 audio), 1 outage, no reset, headers supplied first | nothing lost, order kept, drops justified, headers before media |
| `client_relay` | 2 packets, 1 reset, 1 outage, headers in any order, fairness | what `beforeSendData` can and cannot break; stop returns, packets are sent |
| `client_races` | 3 descriptor numbers, 3 connects, 2 resets, 2 descriptors opened elsewhere; 4 frames, 1 reset, 3 connections | what two threads in one RTMP and one pair of buffers do to each other |
| `client_timeout` (violation) | 1 packet, 1 outage | after a timeout packets go to a stream that was never published |
| `chunk_stream` | 1 connection, 5 packets around the chunk sizes, timestamps growing, repeating, wrapping, extended | both ends stay in step; delivered as sent; drift only after a repeat |
| `chunk_api` | 3 connections, both kinds of failure; 3 packets longer than some chunk size beside 1 `changeChunkSize`, or 4 packets, two of them as large as the SPS packet and with one timestamp (`OneKind`) | what alone puts the two ends out of step; where a resent packet is damaged; which timestamps arrive changed when packets are sent again, first on their channel or behind the SPS packet |
| `server` | 2 peers, 2 stream cells, failing handshakes, fairness | one serving reader, no descriptor lost, callbacks reach the reader, the known uses of freed memory and no other, when close returns |
| `server_running` (violation) | 2 peers, no failing handshake | a stream is freed while its reader still runs |
| `session` | 7 kinds of extra message, 1 said, 2 failures, 1 send and 1 read that time out, 1 packet, fairness | answers go to their calls, the protocol is kept, the client comes to publish |
| `session_timeout` (violation) | 1 read that times out | a time-out does not end the session |
| `formats` | trees of up to 2 members with 2 members, any room up to 45 bytes, 8 values of types that are refused before 4 ways to go on after the object, units of up to 7 bytes over {0, 1, 9}; counts modulo 64, windows 4 and 12 | the round trips, with the inputs for which they fail; when reports fall silent |

Why the bounds are enough. The FIFO's cases are the empty list, one node with and
without the repaired header, two, and more; four cells reach them all with reuse. In
the client a drop needs two queued packets (`FifoLimit` 1 stands for 75), a reorder or
a loss needs two, a reset interferes with one packet held and one pushed after it. A
socket is lost with one open inside one reset; a number comes to another part of the
process with one close and one open; the second reset and the third number show that
more of them add no case. On the wire, packets below, at and above each chunk size and
of one to three chunks cover the arithmetic of the cut; every property relates at most
a packet and its predecessor on the channel, or two connections that follow each other,
and the third connection shows that damage and stale headers may add up. In `chunk_api` the
SPS packet differs in size from the videos of the first kind, so that a shortened header
behind it is misread, and has the size of those of the second, so that the two ends stay in
step and only the timestamp is wrong. In `HeaderBuffers` the third connection is one whose socket was
connected again after a video had gone out with a header. In the session
two failures give every pair of places at which one connection and the next may end. In
the server two peers give every pair of an old reader and a new stream; a third repeats
the same hand-over. `MaxUnreported` 200 is more than three turns of the count. In
`formats` strings are long from 3 bytes on (`LongFrom`, for 65536) and the buffer grows
by 8 (`Slack`, for 64), so that both sides of each boundary are reached.

Symmetry is used only where cells of the heap are interchangeable and the properties
are safety properties (`fifo`, `client_publish`).

Deadlock is checked unless the program really stops: `formats` ends with the input it
chose, and in `session` and `session_timeout` the client ends when `startRtmpClient`
fails and when it crashes. Elsewhere the specification has an explicit idle step for
the end of the program.

## 4. Properties worth knowing

* `HeldIsTheOldest`, `NothingLost`, `SentInOrder`: the pointer the sender works on
  outside the lock is the oldest queued packet, unless a reset freed it; so the later
  pop removes what was sent, through reconnects and drops.
* `OneLossPerReset`, `FreedSentOnlyDuringReset`: the exact price of
  `beforeSendData` running beside the sender. A packet that was freed may be sent, but
  only until that call closes the connection, and each reset may cost one new packet.
* `HeadersPrecedeMedia`: on a published connection, metadata and SPS/PPS come first.
* `SocketLostOnlyByRace`, `OthersHitOnlyWhenKnown`, `WildOnlyWhereShared`: a socket is
  leaked, a descriptor of the server written to or closed, freed memory used, only in
  the situations they name; all need a reset in the middle of a connect, a send or another
  close, or a name that did not resolve. Either thread may be the one that uses freed
  memory: the FCUnpublish of its own `RTMP_Close` goes through the record the other frees.
* `HeaderAsGiven`, `PpsNeverOlder`, `HeaderSkippedOnlyWhenKnown`: a header packet
  joins the sets given last unless they change while it is made, never a new SPS with an
  older PPS; a connection goes without one only if no pair was given, the pair was being
  replaced, or the connection is the one a timed out send goes on with. That one always
  goes without, but where a reset has cleared the flag and is about to close it.
* `AnswersMatch`, `ImplementsProtocol`, `ComesToPublish`: numbers that start over do not
  mix up answers, each connection publishes once, and every failure leads back there.
* `ReadsInSync`: `connectSocket` keeps bytes of the old connection, and the new
  handshake takes them; but nothing is read until `RTMP_Close` has emptied the buffer.
* `StaleIdsAreOld`: which packets may carry the id of another stream.
* `DeliveredAsSent`, `NothingStuck`: the peer rebuilds what was sent, from headers that
  leave out what it must remember.
* `DriftNeedsARepeat`: timestamps disagree only because of a packet that repeats its
  predecessor's timestamp, or the first of the FIFO on its channel of a new connection,
  until the next full header. Behind the SPS packet that one drifts only if its timestamp
  had been left out before.
* `SyncUnlessRacedOrStale`: both ends cut the stream alike except for a
  `changeChunkSize` that overlaps a packet or a failure (`raced`), a packet longer than some
  chunk size that is sent on a new connection before a size was announced on it (`CutApart`),
  or a header that was shortened for an earlier connection (`StaleHeader`), where nothing
  before it on the channel told the new peer its size and type: at most the SPS packet, with
  another size. A packet that is
  whole in every chunk size does no harm, nor does a stale size once one is announced.
* `DamagedOnlyWhereCut`: a packet that failed and is sent again carries chunk headers
  where an earlier attempt began a chunk, so at multiples of a chunk size of the client,
  and differs nowhere else.
* `OneServingReader`: although nothing but two unlocked reads in the accept thread
  separates streams, only one reader ever serves packets, and on allocated memory.
* `WildOnlyWhenKnown`: the complete list of ways the server uses freed memory.
* `CloseReturns`: `closeRtmpServer` returns unless `accept` stays blocked for ever, or
  `serverThread` started so late that it overwrote the request to stop.
* `CallbacksReachReader`: callbacks registered before any stream exists are always in
  place once the accept thread is back in its loop.
* `AmfArrives`, `VideoArrives`: round trips stated as equivalences where the code fails
  on some inputs, so that the inputs are named exactly. After a member it cannot read the
  decoder comes back at the end mark of the object if and only if no byte of the member
  after its first begins what reads as an end mark or a member (`RecoversAtTheEnd`);
  otherwise it ends too early, or takes the end mark for part of a value and reads on in what
  follows the object.
* `ReportsInTime`, `SilentForATurnAtMost`: when the two counts wrap apart.

Type invariants are proved (section 7), or implied by the round trips of `formats`; no
run repeats them.

## 5. Fairness

Threads that can run do run (weak fairness of each thread's steps). Nothing is assumed
of the application, the network or peers: an application need not feed, stop or close;
a peer need not connect. `StopCompletes` and `EventuallySent` hold only if the network
stays up from some point on (`<>[]net`), because `RTMP_ConnectStream` waits for the
reply to publish without looking at `runThread`: with a peer that is silent for ever
`stopRtmpClient` does not return. In the server a read ends after at most 30 seconds
(`SO_RCVTIMEO`), and `select` after five, which is what fairness of the readers and of
the accept thread states; a blocked `accept` is exempt. In `ClientSession` the client's
thread (`ClientStep`) and the server's reader (`ServerStep`) run; breaks, time-outs and
what the peer adds are never forced.

## 6. Findings

`findings` in `PROJECT.json` has the quotes.

1. After a timed out send the client reconnects the socket but publishes nothing on it
   (`client_timeout`).
2. A read that times out while `RTMP_ConnectStream` waits does not end the session: the
   packet before is handled again without its body, through a null pointer
   (`session_timeout`).
3. The accept thread frees a stream whose reader has lost its connection but still
   runs (`server_running`).

Behaviours stated by properties that hold, as exceptions they name:

* the node a clear loses (`LeaksOnlyAnUnseenSingleton`);
* a chunk size that outlives its connection, so that the next connect command may be cut
  where the peer does not expect it, and headers shortened for a peer that is gone
  (`SyncUnlessRacedOrStale`); the bytes a resend damages (`DamagedOnlyWhereCut`); the
  timestamp that drifts after a repeated one, or of a packet that is sent again on a new
  connection (`DriftNeedsARepeat`);
* video without SPS and PPS on a connection opened again after a timeout
  (`HeaderSkippedOnlyWhenKnown`);
* an AMF object whose end is lost to a value the decoder does not know (`AmfArrives`);
* the stream a failed handshake leaves dangling (`WildOnlyWhenKnown`);
* a socket lost to a reset, a connection of the server closed by the client, a channel's
  last packet freed twice, or used by one thread after the other freed it (`client_races`);
* the report of bytes read that falls silent for a turn of the count, or for good with
  an unlucky value (`SilentForATurnAtMost`);
* null members written without their names, four-byte AMF3 integers read wrong where
  `char` is signed, the last value of an AMF3 object read twice (`AmfArrives`); parameter
  sets cut at a run of 0 and 1, a video buffer up to four bytes too short
  (`VideoArrives`).

Met while reading and in no run, because the code gives no defined outcome or no
property would say more than the line: the loop over AMF3 classes with sealed members
does not end (`AMF3CD_AddProp` counts what the loop counts up to); an AMF3 object inside
an AMF3 object skips a byte; a frame of nothing but SPS and PPS leaks its packet;
`RTMP_Connect0` never has a socket for the second interface.

## 7. Proofs

Eight modules hold theorems. Each assumes the named ASSUMEs of the module it is
about, so its theorems hold for every set of cells, packets, frames, peers, streams,
messages and descriptor numbers and every bound. Two theorems or groups of theorems add
a hypothesis of their own, `GivenOnce` and `Alone`, explained below; both hold in the
run that checks the same property.

`PacketFifoProofs` (`NullAssumption`: the null pointer is neither a cell nor a packet):
`TypeCorrect`, `ListIsTheQueue`, `NoDanglingNode` (the invariants of `fifo`),
`LeakIsBounded` (the action property on leaks) and `FifoRefinement` (the list implements
`AbstractFifo`). The inductive invariant is `FifoInv`: types, `WellLinked`,
`QueuedAreAllocated`, and that nothing is linked between two agents. None of the parts
is inductive alone: that a pop leaves the list well linked needs that no node is linked
twice; that a push does not reuse a linked cell needs that linked cells are allocated;
that `create` may reset the pointers needs the last part. There is one lemma per
operation. The walk of `clear` is the least set closed under `next`; `WalkStaysInChain`
shows that it frees nothing but list nodes, and `WalkMeetsTheChain` (by the least
counterexample among the indices of the list) that it misses none when header is set.

`ClientSenderProofs`: `ClientTypeCorrect`, `SenderHoldsTheOldest`, `DropsAreJustified`,
`FreedGoesOutOnlyInAReset`, `NoPacketDisappears`, `AResetCostsOnePacket`,
`PacketsGoOutInOrder`. `SafeInv` adds to `FifoInv` the types, where the three threads
can be together, and what the sender holds. Most steps leave the FIFO alone
(`QuietSenderLemma`, ...); `PopEffect`, `PushEffect`, `FrontEffect` and `CleanEffect` say
once what the others do to the queue. Losses are counted with `Paid` (a lost packet was
paid for by a reset that freed what the sender held); order with `Ordered`: the queue is
the end of what was pushed, and the packets sent have growing places in it before the
one held.

`HeadersGoFirst` is about an application that gives metadata and one pair of parameter
sets before anything else and does not reset (`GivenOnce`, as in `client_publish`).
`Given` says what the client has of them at each point of the feeder's calls,
`HeadersKnown` that a header flag is set on a published connection only if the header
went out on that very connection: the flags outlive a reconnect after a timeout, but then
nothing is published. Without the hypothesis the property is false: while an SPS is
being replaced the sender finds no pair and sets the flag all the same, which
`HeaderSkippedOnlyWhenKnown` states.

`StreamServerProofs`: `TypeCorrect`, `ServerHasOneReader` (from `Inv`: a served stream is
the current one, with a connection, and what the accept thread knows of it at each
step), `ReadersHaveCallbacks` (`RunningHasCallbacks`), `DescriptorsHaveOwners`
(`Owners`), `FreedMemoryIsUsedOnlyWhenKnown`.

`SharedConnectionProofs`: `TypeCorrect`, `NumbersGoStaleByClosing`,
`SocketsAreLostByRace`, `OthersAreHitByRace`, `FreedMemoryIsShared`, from `ConnectsLeft`
(the sender connects only while the bound allows), `SocketsKept` and `RecordKnown`: a freed
record is one that some close is about to forget, and a thread inside `RTMP_SendPacket` that
meets one entered before it was freed. That a thread never meets one it freed itself is what
makes the property more than a list of places.

`ByteCountProofs`: `CountsAgree` (the counts and the unreported bytes agree modulo the
width), `ReportsUntilTheWrap`, `SilenceIsShort`.

`HeaderBuffersProofs` (`FramesAssumption`: the sets of a frame have lengths in Nat):
`HeadersTypeCorrect`, `PairsAreOrdered`, `HeaderJoinsWhatWasGiven`,
`SkippedOnlyWhenKnown`. `HeadersInvariant` has one part per thread. `BuffersKnown` is
the application's: at each of its accesses, which of the two sets is there, in which
state and with which size. `MakesWhatWasGiven` is the sender's while nobody interferes:
what it has tested, counted and copied is what was given, so that what is copied is as
long as the packet was allocated for. `NeverOlder` needs no such condition: an SPS that is
there or was read is at most as young as the PPS that is there or is read after it, since
the PPS is dropped before a new SPS comes. `HeaderExcused` follows the flag: video that is
sent with it set follows a header, or one of the excuses. `ResumedKeepsFlag` says that a
connection opened in the middle of a send finds the flag set, so that no header is made on it.

`ClientSessionProofs` (`SessionAssumption`): `SessionTypeCorrect`,
`ResultsAnswerTheirCalls`, `PlayingIsPublished`, `StreamReadsInSync`, `WrongIdsAreOld` and
`ProtocolIsImplemented`, all from `Session`:

* `PathKnown`: of the commands and their answers one at most is under way, and it says
  how far the server has come. A command that is repeated, or an answer that is served
  twice, would break it; so `PublishProtocol` follows from it.
* `PlaceKnown`, `PhaseKnown`, `HandshakeKnown`: without a peer the client is not between the
  handshake and publishing (though it may go on sending to a socket it has no more), nothing
  was asked before the handshake is over, and a client that does not publish has nothing in its read buffer when it starts
  one. This is what makes `PathKnown` inductive across a reconnect, and what bounds the
  places where a handshake can take bytes of the old connection to those that resend.
* `CallsKnown`: a pending call with the number of the answer under way is the one it
  answers; pending calls have numbers up to `m_numInvokes`. Numbers start over with a
  connection, so that the part has to hold of every pending call, not of the last.
* `IdsKnown`: while the client publishes its stream id is 1, and so is that of every packet
  pushed meanwhile. `StaleIdsAreOld` allows the id of another connection's stream as well;
  the proof does not need it.

Steps that send nothing and steps that do have lemmas of their own, and each message the
client or the server handles has a step. The refinement takes `stageOf` from the counts of
the server (`CountsAre`); that the call answered is the first with its number is shown
by the least-number principle of `WellFoundedInduction`.

`ChunkStreamProofs` (`ChunkAssumption`): `KeepsInSync`, `DamagesOnlyWhereCut`,
`DriftsNeedARepeat` and `StuckOnlyOutOfStep`, for any packets, chunk sizes and timestamps,
any number of connections, however they are lost, and any calls of `changeChunkSize`. Of one
connection with no `changeChunkSize` beside it (`Alone`, the bounds of `chunk_stream`) follow
`StaysInSync`, `DeliversAsSent` and `NothingIsStuck`: there nothing of what `OutOfStep` names
can happen. The invariant says that a call of `changeChunkSize` has raced, or that there is a
line `L` of packets, those sent on this connection and the one that is being sent or was lost,
for which `SenderOK(L)` holds and one of three:

* `Apart(L)`, on a later connection: a packet of the line may have been cut where the peer
  does not expect it. Nothing is claimed of the receiver, and while the line grows it stays so.
* `StaleOn(L)`, and nothing is claimed of the receiver: a packet has a header that was
  shortened for an earlier connection, and no packet before it on its channel tells what it
  leaves out.
* `InStep(L)`: the stream written on the connection is cut at places, each in a packet of the
  line, a chunk leading from each to the next. The sender is at the last place, or a send
  failed there and less than a chunk follows (`Torn`); the receiver is at some place before.
  It has delivered the packets before its place and remembers of each channel what its last
  packet tells (`Receives`, `Times`).

Without the places no statement about the receiver's memory is inductive, for what it
remembers is what the sender did when the header was made, with all that is on the wire in
between. The line, the stream and the places are bound by the invariant, and what is said of
them (`Link`, `Fits`, `Due`, `SizeAt`, `MayBe`) does not depend on the state; so it stays true
when line and stream grow (`LinkStays`, `CutsStay`), and only the two ends of the cut have to
be looked at. `SenderOK` has the sender's side: the chunk size is the last one told, once one
was told on this connection (`ChunkSizes`); only the front of the FIFO can have been tried
before, so only its header can be shortened already, and before it on a new connection go
only packets that are made anew for each send (`Fronts`); a body differs from the
application's only where a chunk began (`Bodies`); the header in hand tells the receiver all
it needs, or it is stale (`InHand`); and of the channel's last packet the sender knows what it
sent, or, on a later connection, something older (`SenderMemory`).

`BeginInStep` adds a packet to the line, `WriteInStep` and `FailInStep` a place at the end,
`ReadInStep` moves the receiver to the next, and `LostIsStale` says that a header it does not
understand is a stale one. `HeaderFits` says that what `CompressedType` leaves out is what the
packets before tell; `SameEnd` that both sides end the chunk at the same byte; `NextTime`, with
the arithmetic of differences modulo 2^32 (`TimesAdd`), that a wrong time has its excuse.
`ApartShows` and `StaleShows` lead from the line back to `CutApart` and `StaleHeader`.

### Only model-checked

* All liveness (`StopCompletes`, `EventuallySent`, `CloseReturns`, `ComesToPublish`): TLAPS
  here has no rule for fairness or ENABLED.
* `AmfArrives` and `VideoArrives`: what recursive operators compute, for every input, needs
  induction over data, and an operator declared RECURSIVE is beyond the prover. No module
  with a theorem reaches one.
* The three properties that are expected to be violated.

## 8. Not modelled

* The player side of librtmp (`RTMP_Read`, `RTMP_Write`, FLV, seek, pause, playlists):
  no code of the server or the client calls it; nor play and getStreamLength of
  `ServeInvoke`, which this client never sends.
* URL parsing: a sequential function on one string, without state.
* SWF hash, Diffie-Hellman, the encrypted handshake: only with CRYPTO, which the
  Makefile does not build. The HTTP tunnel and authentication: never switched on.
* Thread and mutex wrappers, log, utilities: taken by what they guarantee.
* H.264 that is not well formed: `AvcFraming` has no unit whose length goes beyond the body,
  and no one to three bytes after the last unit. `handleVideoPacket` reads past the end of
  the body there, for which the code has no defined outcome.
* Time-outs in the middle of a packet: `ReadN` returns short and drops what it read.
  `ClientSession` times out between messages.
* The contents of the metadata buffer: the sender only tests whether there is one
  (`metaData` in `ClientSender`); what it sends is made of the static `_metaData`, which
  `setDataFrame` writes without a lock, so that one packet may join old and new values.
* A write to a connection the peer closed raises SIGPIPE; the models are of a program
  that ignores it, since the code handles the error.

## 9. Plan

Done: everything in section 2, with the theorems of section 7. Left, in this order:

1. `ClientSession` with reads that time out inside a message.
2. The server's reader and `closeRtmpStreaming` inside `RTMP_Close` as another pair of
   threads of `SharedConnection`.

## 10. Running

    tlc -config MCPacketFifo.cfg MCPacketFifo
    tlapm PacketFifoProofs.tla

`ClientSessionProofs` and `ChunkStreamProofs` take about five minutes each, the others one
or less. Every other run is `tlc -config <cfg> <module>` with the pair named in `PROJECT.json`.
A run marked `violation` is expected to find the counterexample it is about. Operators
commented as mutants are plausible slips of the code; each property is violated when
the mutant named in `PROJECT.json` takes the place of the definition it varies.

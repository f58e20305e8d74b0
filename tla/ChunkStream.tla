----------------------------- MODULE ChunkStream ----------------------------
(***************************************************************************)
(* The chunk layer of librtmp/rtmp.c: RTMP_SendPacket cuts a packet into   *)
(* chunks and leaves out what the peer can infer from the previous packet  *)
(* of the channel; RTMP_ReadPacket puts packets together again from the    *)
(* same memory on its side.  Nothing in the stream says where the two      *)
(* sides stand, so each must infer exactly what the other meant.           *)
(*                                                                         *)
(* The sender is rtmp_client.c's: one thread runs the stream, connecting   *)
(* and reconnecting as in ClientSender.tla, and the application's thread   *)
(* may call changeChunkSize, with no lock between them.  The receiver is   *)
(* a peer that starts afresh with every connection (openRtmpStreaming).    *)
(*                                                                         *)
(* The stream is a sequence of units: a chunk header is one unit, a byte   *)
(* of a body is one unit that knows which byte it is.                      *)
(***************************************************************************)
EXTENDS Integers, Sequences, FiniteSets

CONSTANTS
    Media,         \* the packets of the FIFO, records as MediaPacket below
    ConnectSize,   \* the size of the connect command
    MetaSize,      \* the size of the metadata
    SpsSize,       \* the size of the SPS and PPS
    Default,       \* RTMP_DEFAULT_CHUNKSIZE (128)
    ClientChunk,   \* the initial _rtmpChunkSize (4096)
    ApiChunks,     \* the sizes the application passes to changeChunkSize
    MaxApiCalls,   \* bound: calls of changeChunkSize
    MaxConnections,\* bound: connections
    Failures,      \* how sends fail, of {"failed", "timedout"}
    Modulus,       \* 2^32: timestamps are uint32_t
    Extended       \* 0xffffff: timestamps from here on go in the extension

(* large: m_headerType as the packet is made, LARGE or else MEDIUM *)
MediaPacket == [id : STRING, channel : 6..7, type : {"audio", "video"},
                size : Nat \ {0}, ts : Nat, large : BOOLEAN]

ASSUME ChunkAssumption ==
    /\ \A m \in Media : m \in MediaPacket /\ m.ts < Modulus /\ m.id # "sps"
    /\ ConnectSize \in Nat \ {0}
    /\ MetaSize \in Nat \ {0} /\ SpsSize \in Nat \ {0}
    /\ Default \in Nat \ {0} /\ ClientChunk \in Nat \ {0}
    /\ ApiChunks \subseteq Nat \ {0}
    /\ MaxApiCalls \in Nat /\ MaxConnections \in Nat
    /\ Failures \subseteq {"failed", "timedout"}
    /\ Modulus \in Nat \ {0} /\ Extended \in 1..(Modulus - 1)

Channel == 2..7
Thread == {"stream", "api"}

(* the packets of SendConnectPacket and sendChunkSize; the four bytes of a  *)
(* size are one unit, as no chunk size is shorter                          *)
ConnectPacket == [id |-> "connect", channel |-> 3, type |-> "invoke",
                  size |-> ConnectSize, ts |-> 0, large |-> TRUE]
ChunkSizePacket(n) == [id |-> "chunksize", channel |-> 2, type |-> "chunksize",
                       size |-> 1, ts |-> 0, large |-> TRUE, value |-> n]
(* the packets of getMetaDataPacket and getSpsAndPps, made for each send *)
MetaPacket == [id |-> "meta", channel |-> 4, type |-> "info",
               size |-> MetaSize, ts |-> 0, large |-> TRUE]
SpsPacket == [id |-> "sps", channel |-> 6, type |-> "video",
              size |-> SpsSize, ts |-> 0, large |-> TRUE]

(* packet->m_headerType: how much of the header is left out *)
LARGE == 0
MEDIUM == 1
SMALL == 2
MINIMUM == 3

NONE == [none |-> TRUE]

VARIABLES
    (* the sending RTMP and the packets in the client's memory *)
    phase,       \* what the stream thread does next
    outChunk,    \* m_outChunkSize
    chunkSize,   \* _rtmpChunkSize, announced after a connect
    prevOut,     \* m_vecChannelsOut: the last packet sent on each channel
    current,     \* the RTMP_SendPacket each thread is in, or NONE
    front,       \* the packet frontFifo gave, until it is popped
    hasSent,     \* hasSendMeta and hasSendSps: which of the two packets was sent
    body,        \* m_body of each packet of Media, as units
    headerType,  \* m_headerType of each packet of Media
    popped,      \* the packets of Media that were sent and popped
    (* the connection and the receiving RTMP *)
    wire,        \* the units written and not yet read
    inChunk,     \* m_inChunkSize
    prevIn,      \* m_vecChannelsIn: the last packet read on each channel
    channelTs,   \* m_channelTimestamp
    delivered,   \* the packets given to ServePacket, in order
    lostSync,    \* has the receiver taken body bytes for a header?
    (* auxiliary *)
    finished,    \* the packets fully sent on this connection, in order
    raced,       \* has a changeChunkSize overlapped or followed a failure?
    connections, apiCalls

senderVars == <<outChunk, chunkSize, prevOut, body, headerType>>
receiverVars == <<inChunk, prevIn, channelTs, delivered, lostSync>>
fifoVars == <<front, popped>>
vars == <<phase, current, fifoVars, hasSent, senderVars, wire, receiverVars,
          finished, raced, connections, apiCalls>>

Byte(id, i) == [header |-> FALSE, id |-> id, i |-> i]
Intact(p) == IF p.type = "chunksize" THEN <<Byte(p.id, p.value)>>
             ELSE [i \in 1..p.size |-> Byte(p.id, i)]

FreshReceiver == /\ inChunk' = Default
                 /\ prevIn' = [c \in Channel |-> NONE]
                 /\ channelTs' = [c \in Channel |-> 0]
                 /\ delivered' = <<>> /\ lostSync' = FALSE

Init == /\ phase = "connect"
        /\ outChunk = Default /\ chunkSize = ClientChunk
        /\ prevOut = [c \in Channel |-> NONE]
        /\ current = [t \in Thread |-> NONE]
        /\ front = NONE /\ hasSent = {}
        /\ body = [m \in Media |-> Intact(m)]
        /\ headerType = [m \in Media |-> IF m.large THEN LARGE ELSE MEDIUM]
        /\ popped = {}
        /\ wire = <<>>
        /\ inChunk = Default
        /\ prevIn = [c \in Channel |-> NONE]
        /\ channelTs = [c \in Channel |-> 0]
        /\ delivered = <<>> /\ lostSync = FALSE
        /\ finished = <<>> /\ raced = FALSE
        /\ connections = 1 /\ apiCalls = 0
-----------------------------------------------------------------------------
(* RTMP_SendPacket *)

HeaderTypeOf(p) == IF p \in Media THEN headerType[p] ELSE LARGE
BodyOf(p) == IF p \in Media THEN body[p] ELSE Intact(p)

(***************************************************************************)
(* The header of packet p, asked for with type f, when prev was the last   *)
(* packet of the channel: type, size and timestamp are left out when prev  *)
(* has the same ones, and the timestamp is sent as a difference.           *)
(***************************************************************************)
Follows(f, prev) == prev # NONE /\ f # LARGE

(* mutant: the sizes are not compared *)
CompressedAnySize(p, f, prev) ==
    LET g == IF Follows(f, prev) /\ f = MEDIUM /\ prev.type = p.type THEN SMALL ELSE f
    IN  IF Follows(f, prev) /\ g = SMALL /\ prev.ts = p.ts THEN MINIMUM ELSE g

CompressedType(p, f, prev) ==
    LET g == IF /\ Follows(f, prev) /\ f = MEDIUM
                /\ prev.size = p.size /\ prev.type = p.type
             THEN SMALL ELSE f
    IN  IF Follows(f, prev) /\ g = SMALL /\ prev.ts = p.ts THEN MINIMUM ELSE g

NoDelta(p, f, prev) == p.ts   \* mutant: always absolute
Delta(p, f, prev) == (p.ts - (IF Follows(f, prev) THEN prev.ts ELSE 0)) % Modulus

Continuation(c) == [header |-> TRUE, fmt |-> MINIMUM, channel |-> c]

Header(p, g, t) ==
    CASE g = MINIMUM -> Continuation(p.channel)
      [] g = SMALL -> [header |-> TRUE, fmt |-> g, channel |-> p.channel,
                       ts |-> IF t > Extended THEN Extended ELSE t,
                       extension |-> IF t >= Extended THEN t ELSE 0]
      [] OTHER -> [header |-> TRUE, fmt |-> g, channel |-> p.channel,
                   ts |-> IF t > Extended THEN Extended ELSE t,
                   extension |-> IF t >= Extended THEN t ELSE 0,
                   size |-> p.size, type |-> p.type]

(* m_headerType is overwritten in the caller's packet; the chunk size is   *)
(* read once, here                                                         *)
SendPacket(t, p) ==
    LET f == HeaderTypeOf(p)
        prev == prevOut[p.channel]
        g == CompressedType(p, f, prev)
    IN  /\ current' = [current EXCEPT ![t] =
              [packet |-> p, chunk |-> outChunk, at |-> 0,
               header |-> Header(p, g, Delta(p, f, prev))]]
        /\ headerType' = [m \in Media |-> IF m = p THEN g ELSE headerType[m]]

ChunkEnd(s) == IF s.packet.size - s.at < s.chunk THEN s.packet.size
               ELSE s.at + s.chunk
ChunkUnits(s) == <<s.header>> \o SubSeq(BodyOf(s.packet), s.at + 1, ChunkEnd(s))

(* where the next chunk's header is written: header = buffer - 1 *)
OneTooFar(s) == ChunkEnd(s) + 1   \* mutant: header = buffer
HeaderPlace(s) == ChunkEnd(s)

(* what the stream thread does after a packet went out *)
PhaseAfter(p) == CASE phase = "connect" -> "announce"
                   [] phase = "announce" -> "media"
                   [] phase = "reconnect" -> "media"
                   [] OTHER -> phase

(***************************************************************************)
(* One turn of the loop: WriteN of a chunk.  When more chunks follow, the  *)
(* next chunk's header is written over the last byte just sent, in the     *)
(* packet's own body.                                                      *)
(***************************************************************************)
WriteChunk(t) ==
    LET s == current[t]
        p == s.packet
        last == ChunkEnd(s) = p.size
    IN  /\ s # NONE
        /\ wire' = wire \o ChunkUnits(s)
        /\ IF last
           THEN /\ current' = [current EXCEPT ![t] = NONE]
                /\ prevOut' = [prevOut EXCEPT ![p.channel] =
                                  [size |-> p.size, type |-> p.type, ts |-> p.ts]]
                /\ finished' = Append(finished, p)
                /\ popped' = popped \cup ({p} \cap Media)
                /\ front' = IF p \in Media THEN NONE ELSE front
                /\ hasSent' = hasSent \cup ({p} \cap {MetaPacket, SpsPacket})
                /\ phase' = IF t = "stream" THEN PhaseAfter(p) ELSE phase
                /\ UNCHANGED body
           ELSE /\ current' = [current EXCEPT ![t].at = ChunkEnd(s),
                                ![t].header = Continuation(p.channel)]
                /\ body' = [m \in Media |->
                     IF m = p THEN [body[m] EXCEPT ![HeaderPlace(s)] = Continuation(p.channel)]
                     ELSE body[m]]
                /\ UNCHANGED <<prevOut, finished, fifoVars, hasSent, phase>>
        /\ UNCHANGED <<outChunk, chunkSize, headerType, receiverVars, raced,
                       connections, apiCalls>>

(***************************************************************************)
(* WriteN fails, after part of the chunk.  In the stream thread, the front *)
(* packet stays in the FIFO.  If that was the packet being sent, a timeout *)
(* leads to connectSocket alone; any other failure, of this or of another  *)
(* packet, leads to RTMP_Close and connectStream.  changeChunkSize only    *)
(* logs the failure.                                                       *)
(***************************************************************************)
WriteFails(t) ==
    LET s == current[t] IN
    /\ s # NONE
    /\ connections < MaxConnections
    /\ \E k \in 0..(Len(ChunkUnits(s)) - 1) :
          wire' = wire \o SubSeq(ChunkUnits(s), 1, k)
    /\ current' = [current EXCEPT ![t] = NONE]
    /\ phase' \in (CASE t = "api" -> {phase}
                     [] s.packet \in Media -> Failures
                     [] OTHER -> {"failed"})
    /\ raced' = (raced \/ t = "api")
    /\ UNCHANGED <<fifoVars, hasSent, senderVars, receiverVars, finished,
                   connections, apiCalls>>
-----------------------------------------------------------------------------
(* The stream thread *)

Idle(t) == current[t] = NONE
NoteOverlap == raced' = (raced \/ ~Idle("api"))

(* SendConnectPacket, at the end of RTMP_Connect *)
SendConnectPacket ==
    /\ phase \in {"connect", "reconnect"} /\ Idle("stream")
    /\ SendPacket("stream", ConnectPacket)
    /\ NoteOverlap
    /\ UNCHANGED <<phase, fifoVars, hasSent, outChunk, chunkSize, prevOut, body,
                   wire, receiverVars, finished, connections, apiCalls>>

(* mutant: the size is announced and not used *)
AnnounceOnly(t, n) ==
    /\ current' = [current EXCEPT ![t] =
          [packet |-> ChunkSizePacket(n), chunk |-> n, at |-> 0,
           header |-> Header(ChunkSizePacket(n), LARGE, 0)]]
    /\ UNCHANGED <<phase, fifoVars, hasSent, outChunk, prevOut, body, headerType,
                   wire, receiverVars, finished, connections>>

(* sendChunkSize: the size counts before it is announced *)
SendChunkSize(t, n) ==
    /\ outChunk' = n
    /\ current' = [current EXCEPT ![t] =
          [packet |-> ChunkSizePacket(n), chunk |-> n, at |-> 0,
           header |-> Header(ChunkSizePacket(n), LARGE, 0)]]
    /\ UNCHANGED <<phase, fifoVars, hasSent, prevOut, body, headerType, wire,
                   receiverVars, finished, connections>>

(* in connectStream; RTMP_ConnectStream follows *)
AnnounceChunkSize ==
    /\ phase = "announce" /\ Idle("stream")
    /\ SendChunkSize("stream", chunkSize)
    /\ NoteOverlap
    /\ UNCHANGED <<chunkSize, apiCalls>>

(* what goes out next when m is at the front of the FIFO *)
ToSend(m) == IF MetaPacket \notin hasSent THEN MetaPacket
             ELSE IF m.type = "video" /\ SpsPacket \notin hasSent THEN SpsPacket
             ELSE m

(* frontFifo: the same packet again until it is popped *)
Front(m) == /\ phase = "media" /\ Idle("stream")
            /\ m \notin popped /\ front \in {NONE, m}
            /\ front' = m

(***************************************************************************)
(* clientStreamThread: the metadata and, before a video, the SPS and PPS   *)
(* if not sent since connectStream; then the front packet, again if it     *)
(* failed before.                                                          *)
(***************************************************************************)
SendFront ==
    /\ \E m \in Media : Front(m) /\ SendPacket("stream", ToSend(m))
    /\ NoteOverlap
    /\ UNCHANGED <<phase, popped, hasSent, outChunk, chunkSize, prevOut, body, wire,
                   receiverVars, finished, connections, apiCalls>>

(* getMetaDataPacket or getSpsAndPps has nothing: that counts as sent *)
NothingToSend ==
    /\ \E m \in Media : /\ Front(m) /\ ToSend(m) # m
                         /\ hasSent' = hasSent \cup {ToSend(m)}
    /\ UNCHANGED <<phase, popped, current, senderVars, wire, receiverVars, finished,
                   raced, connections, apiCalls>>

(* A new connection: the peer starts afresh, the RTMP does not. *)
NewConnection ==
    /\ connections < MaxConnections
    /\ connections' = connections + 1
    /\ wire' = <<>> /\ finished' = <<>>
    /\ FreshReceiver
    /\ NoteOverlap
    /\ UNCHANGED <<current, fifoVars, outChunk, chunkSize, body, headerType, apiCalls>>

(* RTMP_Close forgets the channels, not the chunk size; then connectStream, *)
(* after which the metadata and the SPS and PPS are due again               *)
CloseAndConnect == /\ phase \in {"failed", "timedout"}
                   /\ phase' = "connect"
                   /\ prevOut' = [c \in Channel |-> NONE]
                   /\ hasSent' = {}
                   /\ NewConnection

(***************************************************************************)
(* connectSocket after a timeout: RTMP_Close is not called, unless the     *)
(* connect fails, which the action above covers.                           *)
(***************************************************************************)
ReconnectSocket == /\ phase = "timedout"
                   /\ phase' = "reconnect"
                   /\ NewConnection
                   /\ UNCHANGED <<prevOut, hasSent>>
-----------------------------------------------------------------------------
(* changeChunkSize, called by another thread on the same RTMP *)

ChangeChunkSize(n) ==
    /\ apiCalls < MaxApiCalls /\ Idle("api")
    /\ apiCalls' = apiCalls + 1
    /\ chunkSize' = n
    /\ SendChunkSize("api", n)
    /\ raced' = (raced \/ ~Idle("stream") \/ phase \in {"failed", "timedout"})
-----------------------------------------------------------------------------
(* RTMP_ReadPacket, one chunk, and what ServePacket does with chunk sizes *)

Blank == [ts |-> 0, size |-> 0, type |-> "none", abs |-> FALSE, body |-> <<>>]

(* the packet the header h starts or goes on with *)
Resumed(h) ==
    LET old == IF h.fmt = LARGE \/ prevIn[h.channel] = NONE THEN Blank
               ELSE prevIn[h.channel]
    IN  [ts |-> IF h.fmt = MINIMUM THEN old.ts
                ELSE IF h.ts = Extended THEN h.extension ELSE h.ts,
         size |-> IF h.fmt <= MEDIUM THEN h.size ELSE old.size,
         type |-> IF h.fmt <= MEDIUM THEN h.type ELSE old.type,
         abs |-> h.fmt = LARGE \/ old.abs,
         body |-> IF h.fmt <= MEDIUM THEN <<>> ELSE old.body]

(* a size is inferred only from a packet the channel has had *)
Understood(u) == u.header /\ (u.fmt > MEDIUM => prevIn[u.channel] # NONE)

ToRead(p) == IF p.size - Len(p.body) < inChunk THEN p.size - Len(p.body) ELSE inChunk
CanRead == /\ wire # <<>> /\ Understood(Head(wire))
           /\ Len(wire) > ToRead(Resumed(Head(wire)))

(* the addition of uint32_t *)
Add32(a, b) == (a + b) % Modulus

(* ServePacket; a chunk size that is no such thing is as bad as no header *)
IsSize(b) == IF b.header THEN FALSE ELSE b.id = "chunksize"
Serve(p) ==
    LET announces == p.type = "chunksize" /\ IsSize(p.body[1]) IN
    /\ delivered' = Append(delivered, p)
    /\ inChunk' = IF announces THEN p.body[1].i ELSE inChunk
    /\ lostSync' = (p.type = "chunksize" /\ ~announces)

ReadPacket ==
    /\ ~lostSync /\ CanRead
    /\ LET c == Head(wire).channel
           p == Resumed(Head(wire))
           n == ToRead(p)
           b == p.body \o SubSeq(wire, 2, n + 1)
           ready == Len(b) = p.size
           ts == IF p.abs THEN p.ts ELSE Add32(p.ts, channelTs[c])
       IN  /\ wire' = SubSeq(wire, n + 2, Len(wire))
           /\ prevIn' = [prevIn EXCEPT ![c] =
                 IF ready THEN [p EXCEPT !.abs = FALSE, !.body = <<>>]
                 ELSE [p EXCEPT !.body = b]]
           /\ IF ready
              THEN /\ channelTs' = [channelTs EXCEPT ![c] = ts]
                   /\ Serve([channel |-> c, type |-> p.type, ts |-> ts, body |-> b])
              ELSE UNCHANGED <<channelTs, delivered, inChunk, lostSync>>
    /\ UNCHANGED <<phase, current, fifoVars, hasSent, senderVars, finished, raced,
                   connections, apiCalls>>

(* What is not a header is read as one; from here on anything may happen. *)
LoseSync ==
    /\ ~lostSync /\ wire # <<>> /\ ~Understood(Head(wire))
    /\ lostSync' = TRUE
    /\ UNCHANGED <<phase, current, fifoVars, hasSent, senderVars, wire, inChunk,
                   prevIn, channelTs, delivered, finished, raced, connections,
                   apiCalls>>

(* Every packet is sent and read: the client waits for more. *)
Quiet == /\ phase = "media" /\ popped = Media
         /\ \A t \in Thread : Idle(t)
         /\ UNCHANGED vars

Next == \/ SendConnectPacket \/ AnnounceChunkSize \/ SendFront \/ NothingToSend
        \/ \E t \in Thread : WriteChunk(t)
        \/ \E t \in Thread : WriteFails(t)
        \/ CloseAndConnect \/ ReconnectSocket
        \/ \E n \in ApiChunks : ChangeChunkSize(n)
        \/ ReadPacket \/ LoseSync \/ Quiet

Spec == Init /\ [][Next]_vars
-----------------------------------------------------------------------------
(***************************************************************************)
(* The receiver never takes a byte of a body for a chunk header.           *)
(***************************************************************************)
InSync == ~lostSync

(***************************************************************************)
(* What the peer is given is what was sent on its connection, in order:    *)
(* same channel, same type, same bytes.                                    *)
(***************************************************************************)
SamePacket(d, p) == d.channel = p.channel /\ d.type = p.type /\ d.body = Intact(p)
DeliveredAsSent ==
    /\ Len(delivered) <= Len(finished)
    /\ \A i \in 1..Len(delivered) : SamePacket(delivered[i], finished[i])

(***************************************************************************)
(* The peer never waits for bytes the sender believes it has sent: when no *)
(* send is in progress and nothing more can be read, every packet sent has *)
(* been delivered.                                                         *)
(***************************************************************************)
NothingStuck ==
    /\ \A t \in Thread : Idle(t)
    /\ phase \notin {"failed", "timedout"}
    /\ ~lostSync /\ ~CanRead
    => wire = <<>> /\ Len(delivered) = Len(finished)

(***************************************************************************)
(* On a new connection m_outChunkSize is still that of the old one until a *)
(* size is announced, which after a timeout it never is; so a packet that  *)
(* is not whole in every chunk size is cut where the peer does not expect  *)
(* it, if it is sent, or was tried, before.                                *)
(***************************************************************************)
Announced(n) == \E i \in 1..n : finished[i].type = "chunksize"
MayBeCut(p) == \E n \in {Default, ClientChunk} \cup ApiChunks : p.size > n
CutApart ==
    /\ connections > 1
    /\ \/ \E i \in 1..Len(finished) : ~Announced(i) /\ MayBeCut(finished[i])
       \/ /\ ~Announced(Len(finished))
          /\ \/ \E t \in Thread : ~Idle(t) /\ MayBeCut(current[t].packet)
             \/ /\ phase \in {"failed", "timedout"}
                /\ \/ MayBeCut(ConnectPacket)
                   \/ front # NONE /\ MayBeCut(ToSend(front))

(***************************************************************************)
(* What makes the two sides cut the stream differently: a changeChunkSize  *)
(* that overlaps a packet or a failure, since m_outChunkSize changes       *)
(* before the peer is told; on a new connection, the chunk size of the old *)
(* one; or a packet whose header was shortened for the old one, as         *)
(* m_headerType and, after a timeout, m_vecChannelsOut outlive it.  Such a *)
(* packet leaves out its size and type although nothing before it on its   *)
(* channel told them: before it there is at most the SPS packet that       *)
(* clientStreamThread sends first, with another size.                      *)
(***************************************************************************)
Untold(p, m) == p.channel = m.channel =>
                   p \notin Media /\ (p.size # m.size \/ p.type # m.type)
StaleHeader(m) ==
    /\ connections > 1 /\ ~m.large /\ headerType[m] > MEDIUM
    /\ m \notin popped \/ \E k \in 1..Len(finished) : finished[k] = m
    /\ \A i \in 1..Len(finished) : \/ Untold(finished[i], m)
                                   \/ \E k \in 1..i : finished[k] = m
OutOfStep == raced \/ CutApart \/ \E m \in Media : StaleHeader(m)

(***************************************************************************)
(* In step, timestamps only ever disagree because of a packet whose time-  *)
(* stamp repeats that of the packet before it on its channel, which RTMP_- *)
(* SendPacket sends with a bare header; or because of the first packet of  *)
(* the FIFO on its channel of a new connection, whose timestamp may be     *)
(* relative to one the new peer never had, and, behind the SPS packet, is  *)
(* left out if it was left out before.  A packet with a full header ends   *)
(* the disagreement.                                                       *)
(***************************************************************************)
Repeats(i) == \E h \in 1..(i - 1) :
                /\ finished[h].channel = finished[i].channel
                /\ finished[h].ts = finished[i].ts
                /\ \A k \in (h + 1)..(i - 1) : finished[k].channel # finished[i].channel
StartsLate(i) ==
    /\ connections > 1 /\ finished[i] \in Media
    /\ \A h \in 1..(i - 1) : finished[h].channel = finished[i].channel =>
          finished[h] \notin Media /\ headerType[finished[i]] = MINIMUM
DriftNeedsARepeat ==
    ~OutOfStep =>
      \A i \in 1..Len(delivered) : delivered[i].ts # finished[i].ts =>
        \E j \in 1..i : /\ finished[j].channel = finished[i].channel
                        /\ Repeats(j) \/ StartsLate(j)
                        /\ \A k \in j..i : finished[k].channel = finished[i].channel
                                               => ~finished[k].large

(***************************************************************************)
(* Only then does the receiver take a byte of a body for a chunk header.   *)
(***************************************************************************)
SyncUnlessRacedOrStale == OutOfStep \/ InSync

(***************************************************************************)
(* A failed send damages the packet that stays at the front of the FIFO:   *)
(* what is delivered of it later differs from what the application gave,   *)
(* but only in the bytes before which an attempt began a new chunk, so at  *)
(* multiples of a chunk size, and never in the last one.  (Out of step,    *)
(* the receiver may make a packet of any bytes without noticing.)          *)
(***************************************************************************)
DamagedAt(d, p) == {k \in 1..p.size : d.body[k] # Intact(p)[k]}
DamagedOnlyWhereCut ==
    OutOfStep \/ \A i \in 1..Len(delivered) :
        /\ Len(delivered[i].body) = finished[i].size
        /\ \A k \in DamagedAt(delivered[i], finished[i]) :
              /\ connections > 1 /\ finished[i] \in Media
              /\ \E n \in {ClientChunk} \cup ApiChunks : k % n = 0
              /\ k < finished[i].size
=============================================================================

-------------------------- MODULE ChunkStreamProofs --------------------------
(***************************************************************************)
(* Proofs about ChunkStream.tla: whatever the packets, their sizes and     *)
(* channels, the chunk sizes and the failures are, the two sides cut the   *)
(* stream in the same way on every connection, unless one of the things    *)
(* that OutOfStep names happened on it; and what is delivered is then what *)
(* was sent, up to the bytes a failed send wrote over.                     *)
(*                                                                         *)
(* Both sides remember, for each channel, the last packet that went by.    *)
(* What is written and not yet read separates the two memories.  So the    *)
(* invariant speaks of the line of packets sent on the connection and of   *)
(* the stream of units written on it, and cuts the stream at places, each  *)
(* with the packet of the line it belongs to: a chunk goes from one place  *)
(* to the next.  The sender is at the last place, the receiver at some     *)
(* place before.  A write adds a place; a read moves the receiver by one.  *)
(*                                                                         *)
(* The line L, the stream W and the places C are bound in the invariant    *)
(* and not part of the state, so the definitions about them are about      *)
(* constants: N counts the packets fully sent, S has the packets whose     *)
(* header is bare, and later says that this is not the first connection.   *)
(***************************************************************************)
EXTENDS ChunkStream, SequenceTheorems, TLAPS

MediaSizes == {ClientChunk} \cup ApiChunks
Sizes == {Default} \cup MediaSizes

Announcing == {ChunkSizePacket(n) : n \in MediaSizes}
Headers == {MetaPacket, SpsPacket}
SetUp == {ConnectPacket} \cup Headers \cup Announcing
Sendable == Media \cup SetUp

Id == {p.id : p \in Sendable}
Type == {p.type : p \in Sendable}

ByteUnit == [header : {FALSE}, id : Id, i : Nat]
HeaderUnit ==
         [header : {TRUE}, fmt : {MINIMUM}, channel : Channel]
    \cup [header : {TRUE}, fmt : {SMALL}, channel : Channel, ts : Int, extension : Int]
    \cup [header : {TRUE}, fmt : {LARGE, MEDIUM}, channel : Channel, ts : Int,
          extension : Int, size : Nat, type : Type]
Unit == ByteUnit \cup HeaderUnit

Send == [packet : Sendable, chunk : Nat, at : Nat, header : HeaderUnit]
Memory == [size : Nat, type : Type, ts : Int]
Reading == [ts : Int, size : Nat, type : Type, abs : BOOLEAN, body : Seq(Unit)]
Given == [channel : Channel, type : Type, ts : Int, body : Seq(Unit)]
Place == [pk : Nat \ {0}, at : Nat, off : Nat]
-----------------------------------------------------------------------------
(* The line of packets sent on a connection, the one being sent last. *)

First(L, n, c) == \A j \in 1..n : L[j].channel # c

(* packet j is the last of channel c among the first n of the line *)
LastOn(L, j, n, c) == /\ j \in 1..n
                      /\ L[j].channel = c
                      /\ \A k \in (j + 1)..n : L[k].channel # c

(* prev is what there is to know of channel c after n packets *)
Remembers(prev, L, n, c) ==
    IF prev = NONE THEN First(L, n, c)
    ELSE \E j \in 1..n : /\ LastOn(L, j, n, c)
                         /\ prev.size = L[j].size /\ prev.type = L[j].type

(* and of the time of the channel's last packet *)
RemembersTime(prev, L, n, c) ==
    prev # NONE => \A j \in 1..n : LastOn(L, j, n, c) => prev.ts = L[j].ts

(* has one of the first n packets announced a chunk size, and which? *)
Told(L, n) == \E j \in 1..n : L[j].type = "chunksize"
SizeAt(v, L, n) ==
    \/ v = Default /\ ~Told(L, n)
    \/ \E j \in 1..n : /\ L[j].type = "chunksize" /\ L[j].value = v
                       /\ \A k \in (j + 1)..n : L[k].type # "chunksize"

(* a packet that may be cut is sent, and nothing has been announced *)
Apart(L) == \E i \in 1..Len(L) : ~Told(L, i) /\ MayBeCut(L[i])

(* where the chunk of packet i that starts at a ends, for the receiver *)
EndIn(p, a, v) == IF p.size - a < v THEN p.size ELSE a + v
Ends(e, L, i, a) == \E v \in Sizes : SizeAt(v, L, i - 1) /\ e = EndIn(L[i], a, v)

(* Header h of packet p: what it leaves out, the packet before it tells. *)
Tells(h, p, L, n) ==
    /\ h \in HeaderUnit /\ h.channel = p.channel
    /\ h.fmt <= MEDIUM => h.size = p.size /\ h.type = p.type
    /\ h.fmt > MEDIUM =>
         \E j \in 1..n :
            LastOn(L, j, n, p.channel) /\ L[j].size = p.size /\ L[j].type = p.type

(***************************************************************************)
(* q may start its channel at a wrong time: it is the first of its channel *)
(* on a later connection, or its header was bare before, and there is at   *)
(* most an SPS packet in front of it.                                      *)
(***************************************************************************)
Newly(L, n, c) == \A j \in 1..n : L[j].channel = c => L[j] \notin Media
Late(q, L, n, S, later) == \/ First(L, n, q.channel) /\ later
                           \/ q \in S /\ Newly(L, n, q.channel)

(***************************************************************************)
(* v is a time for packet q after n packets: absolute with a full header   *)
(* and for the first packet of a channel; else the difference from the     *)
(* packet before it; or anything if that one had the same timestamp, and   *)
(* for a packet that starts late.                                          *)
(***************************************************************************)
Due(v, q, L, n, S, later) ==
    /\ q.large => v = q.ts
    /\ ~q.large =>
         \/ Late(q, L, n, S, later)
         \/ First(L, n, q.channel) /\ v = q.ts
         \/ \E j \in 1..n : /\ LastOn(L, j, n, q.channel)
                            /\ \/ v = (q.ts - L[j].ts) % Modulus
                               \/ q.ts = L[j].ts
Stamp(h) == IF h.ts = Extended THEN h.extension ELSE h.ts
Timed(h, q, L, n, S, later) ==
    /\ h.fmt = LARGE <=> q.large
    /\ h.fmt # MINIMUM => Due(Stamp(h), q, L, n, S, later)
    /\ h.fmt = MINIMUM =>
         \/ Late(q, L, n, S, later)
         \/ \E j \in 1..n : LastOn(L, j, n, q.channel) /\ q.ts = L[j].ts

Fits(h, p, L, n, S, later) == Tells(h, p, L, n) /\ Timed(h, p, L, n, S, later)

(* the header of the chunk that starts at byte a + 1 of packet i *)
HeadOf(h, L, i, a, S, later) ==
    IF a = 0 THEN Fits(h, L[i], L, i - 1, S, later)
    ELSE h = Continuation(L[i].channel)

(***************************************************************************)
(* u may be byte k of packet p: on a later connection, it may have been    *)
(* written over, by a send that failed, with the next chunk's header.      *)
(***************************************************************************)
Overwritten(u, p, k) == /\ p \in Media /\ k < p.size
                        /\ u = Continuation(p.channel)
                        /\ \E n \in MediaSizes : k % n = 0
MayBe(u, p, k, later) == u = Intact(p)[k] \/ (later /\ Overwritten(u, p, k))
-----------------------------------------------------------------------------
(* The stream of units written on a connection, and its places. *)

(* the stream has a chunk from place q to place r *)
Link(q, r, L, W, S, later) ==
    /\ q.pk \in 1..Len(L) /\ q.at < L[q.pk].size
    /\ HeadOf(W[q.off + 1], L, q.pk, q.at, S, later)
    /\ \E e \in Nat :
         /\ Ends(e, L, q.pk, q.at)
         /\ r.off = q.off + 1 + (e - q.at) /\ r.off <= Len(W)
         /\ \A j \in 1..(e - q.at) : MayBe(W[q.off + 1 + j], L[q.pk], q.at + j, later)
         /\ IF e = L[q.pk].size THEN r.pk = q.pk + 1 /\ r.at = 0
            ELSE r.pk = q.pk /\ r.at = e

Cuts(C, L, W, N, S, later) ==
    /\ C \in Seq(Place) /\ Len(C) > 0
    /\ \A k \in 1..Len(C) : C[k].pk <= N + 1
    /\ \A k \in 1..(Len(C) - 1) : Link(C[k], C[k + 1], L, W, S, later)

(* a send failed: after place q there is less than a chunk *)
Torn(q, L, W, S, later) ==
    /\ q.off <= Len(W)
    /\ q.off < Len(W) =>
         /\ q.pk \in 1..Len(L) /\ q.at < L[q.pk].size
         /\ HeadOf(W[q.off + 1], L, q.pk, q.at, S, later)
         /\ \E e \in Nat : /\ Ends(e, L, q.pk, q.at)
                           /\ Len(W) - q.off < 1 + (e - q.at)
-----------------------------------------------------------------------------
(* The sender, while no call of changeChunkSize got in its way. *)

Failed == {"failed", "timedout"}
Later == connections > 1

(* at most one thread is sending *)
Sending == IF Idle("stream") THEN current["api"] ELSE current["stream"]
Busy == Sending # NONE
SentOf == IF Busy THEN Sending.at ELSE 0

(* the packets whose header was shortened *)
Shortened == {m \in Media : Later /\ ~m.large /\ headerType[m] > MEDIUM}
Bare == {m \in Shortened : headerType[m] = MINIMUM}

(* one of them is sent, although the packets before it do not tell *)
Stale(p, L, n, S) == p \in S /\ \A k \in 1..n : Untold(L[k], p)
StaleOn(L) == \E i \in 1..Len(L) : Stale(L[i], L, i - 1, Shortened)

Turns ==
    /\ phase \in {"connect", "announce", "media", "reconnect"} \cup Failed
    /\ connections \in Nat \ {0}
    /\ current \in [Thread -> Send \cup {NONE}]
    /\ Idle("stream") \/ Idle("api")
    /\ phase \in Failed => ~Busy

(* the line is what is sent, with what is being sent or was lost *)
OnLine(L) ==
    /\ L \in Seq(Sendable) /\ finished \in Seq(Sendable)
    /\ Len(finished) <= Len(L) /\ Len(L) <= Len(finished) + 1
    /\ \A i \in 1..Len(finished) : L[i] = finished[i]
    /\ Busy => Len(L) = Len(finished) + 1 /\ L[Len(L)] = Sending.packet
    /\ ~Busy /\ phase \notin Failed => Len(L) = Len(finished)
    /\ phase \in Failed /\ Len(L) > Len(finished) =>
         \/ L[Len(L)] \in {ConnectPacket} \cup Announcing
         \/ front # NONE /\ L[Len(L)] = ToSend(front)

(***************************************************************************)
(* Only the front packet may have been tried, so only its header can have  *)
(* been shortened before; on the next connection, it is sent before any    *)
(* other packet of the FIFO.                                               *)
(***************************************************************************)
Fronts(L) ==
    /\ popped \subseteq Media /\ hasSent \subseteq Headers
    /\ front = NONE \/ front \in Media \ popped
    /\ headerType \in [Media -> 0..3]
    /\ \A m \in Media : /\ headerType[m] = LARGE <=> m.large
                        /\ m \notin popped /\ m # front => headerType[m] <= MEDIUM
    /\ front # NONE /\ phase \notin Failed
       /\ ~(~Idle("stream") /\ current["stream"].packet = front)
       /\ headerType[front] > MEDIUM =>
         Later /\ \A i \in 1..Len(L) : L[i] \notin Media

(***************************************************************************)
(* The sender's chunk size is the receiver's once it is announced.         *)
(***************************************************************************)
ChunkSizes(L) ==
    /\ outChunk \in Sizes /\ chunkSize \in MediaSizes
    /\ \/ phase \in {"media", "timedout", "reconnect"}
       \/ phase = "announce" /\ ~Idle("stream")
       => outChunk \in MediaSizes
    /\ ~Later \/ Told(L, Len(L)) => SizeAt(outChunk, L, Len(L))
    /\ \A n \in 0..Len(L) : \E v \in Sizes : SizeAt(v, L, n)

(***************************************************************************)
(* On the first connection only what is already written is written over.   *)
(***************************************************************************)
Bodies ==
    /\ body \in [Media -> Seq(Unit)]
    /\ \A m \in Media : Len(body[m]) = m.size
    /\ \A m \in Media : \A k \in 1..m.size :
         body[m][k] = Byte(m.id, k) \/ Overwritten(body[m][k], m, k)
    /\ ~Later /\ phase \notin Failed =>
         \A m \in Media \ popped : \A k \in 1..m.size :
            (Busy /\ Sending.packet = m => k > Sending.at) => body[m][k] = Byte(m.id, k)

InHand(L) ==
    /\ ~Idle("stream") =>
         /\ phase \in {"connect", "reconnect"} => Sending.packet = ConnectPacket
         /\ phase = "announce" => Sending.packet \in Announcing
         /\ phase = "media" => front # NONE /\ Sending.packet = ToSend(front)
    /\ ~Idle("api") => Sending.packet \in Announcing
    /\ Busy =>
         /\ Sending.chunk = outChunk
         /\ Sending.at < Sending.packet.size
         /\ Sending.packet \in Media => Sending.at % outChunk = 0
         /\ \/ StaleOn(L)
            \/ HeadOf(Sending.header, L, Len(L), Sending.at, Bare, Later)

(* on a later connection m_vecChannelsOut may still have an old packet *)
SenderMemory ==
    /\ prevOut \in [Channel -> Memory \cup {NONE}]
    /\ \A c \in Channel :
         \/ First(finished, Len(finished), c) /\ Later
         \/ /\ Remembers(prevOut[c], finished, Len(finished), c)
            /\ RemembersTime(prevOut[c], finished, Len(finished), c)

SenderOK(L) == /\ Turns /\ OnLine(L) /\ Fronts(L) /\ ChunkSizes(L)
               /\ Bodies /\ InHand(L) /\ SenderMemory

(* the last place is where the sender is *)
SentTo(q, L, W) ==
    /\ q.pk = Len(finished) + 1
    /\ IF phase \in Failed THEN Torn(q, L, W, Bare, Later)
       ELSE q.at = SentOf /\ q.off = Len(W)
-----------------------------------------------------------------------------
(***************************************************************************)
(* The receiver has the packets before its place whole, and the bytes      *)
(* before it of the one there.                                             *)
(***************************************************************************)
GivenAs(d, p, later) ==
    /\ d.channel = p.channel /\ d.type = p.type
    /\ Len(d.body) = p.size
    /\ \A k \in 1..p.size : MayBe(d.body[k], p, k, later)

Partly(in, q, r, later) ==
    /\ in \in Reading
    /\ in.size = q.size /\ in.type = q.type
    /\ Len(in.body) = r
    /\ \A j \in 1..r : MayBe(in.body[j], q, j, later)

Receives(q, L, later) ==
    /\ delivered \in Seq(Given)
    /\ q.pk = Len(delivered) + 1
    /\ q.at > 0 => q.pk <= Len(L)
    /\ \A i \in 1..Len(delivered) : GivenAs(delivered[i], L[i], later)
    /\ inChunk \in Sizes /\ SizeAt(inChunk, L, Len(delivered))
    /\ lostSync = FALSE
    /\ channelTs \in [Channel -> Int]
    /\ prevIn \in [Channel -> Reading \cup {NONE}]
    /\ \A c \in Channel :
         IF q.at > 0 /\ c = L[q.pk].channel
         THEN Partly(prevIn[c], L[q.pk], q.at, later)
         ELSE /\ Remembers(prevIn[c], L, Len(delivered), c)
              /\ prevIn[c] # NONE => prevIn[c].body = <<>>

(***************************************************************************)
(* The receiver's clocks: the clock of a channel shows the time of its     *)
(* last packet, as the receiver has it; a packet partly read has yet to    *)
(* move it.  A time that is wrong has its excuse.                          *)
(***************************************************************************)
Clocked(in, q, L, n, S, later) ==
    (in.abs <=> q.large) /\ Due(in.ts, q, L, n, S, later)
Repeated(L, i) == \E h \in 1..(i - 1) :
                    /\ L[h].channel = L[i].channel /\ L[h].ts = L[i].ts
                    /\ \A k \in (h + 1)..(i - 1) : L[k].channel # L[i].channel
Excused(L, i, S, later) ==
    \E j \in 1..i : /\ L[j].channel = L[i].channel
                    /\ Repeated(L, j) \/ Late(L[j], L, j - 1, S, later)
                    /\ \A k \in j..i : L[k].channel = L[i].channel => ~L[k].large

Times(q, L, S, later) ==
    /\ \A c \in Channel :
         IF q.at > 0 /\ c = L[q.pk].channel
         THEN Clocked(prevIn[c], L[q.pk], L, Len(delivered), S, later)
         ELSE prevIn[c] # NONE => prevIn[c].abs = FALSE
    /\ \A c \in Channel : First(L, Len(delivered), c) => channelTs[c] = 0
    /\ \A j \in 1..Len(delivered) : LastOn(L, j, Len(delivered), L[j].channel) =>
         channelTs[L[j].channel] = delivered[j].ts
    /\ \A i \in 1..Len(delivered) : delivered[i].ts # L[i].ts => Excused(L, i, S, later)

(* what is not yet read of the stream is what comes after the place *)
Unread(q, W) ==
    /\ wire \in Seq(Unit)
    /\ q.off + Len(wire) = Len(W)
    /\ \A j \in 1..Len(wire) : wire[j] = W[q.off + j]

ReadTo(q, L, W) == Unread(q, W) /\ Receives(q, L, Later) /\ Times(q, L, Bare, Later)

InStep(L) ==
    \E W \in Seq(Unit) : \E C :
        /\ Cuts(C, L, W, Len(finished), Bare, Later)
        /\ SentTo(C[Len(C)], L, W)
        /\ \E x \in 1..Len(C) : ReadTo(C[x], L, W)

(***************************************************************************)
(* The invariant.                                                          *)
(***************************************************************************)
StreamOK == \E L : /\ SenderOK(L)
                   /\ (Later /\ Apart(L)) \/ StaleOn(L) \/ InStep(L)
Invariant == raced \/ StreamOK
-----------------------------------------------------------------------------
(* The packets and their bytes. *)

LEMMA SizeFacts ==
  /\ Sizes \subseteq Nat \ {0} /\ MediaSizes \subseteq Sizes
  /\ Default \in Sizes /\ ClientChunk \in MediaSizes
  /\ ApiChunks \subseteq MediaSizes
BY ChunkAssumption DEF Sizes, MediaSizes

LEMMA MediaFacts ==
  ASSUME NEW m \in Media
  PROVE  /\ m.channel \in 6..7 /\ m.channel \in Channel
         /\ m.type \in {"audio", "video"}
         /\ m.size \in Nat \ {0} /\ m.ts \in Nat /\ m.large \in BOOLEAN
         /\ m \in Sendable
BY ChunkAssumption DEF MediaPacket, Channel, Sendable

LEMMA SetUpFacts ==
  /\ ConnectPacket \in Sendable /\ ConnectPacket \notin Media
  /\ ConnectPacket.channel = 3 /\ ConnectPacket.type = "invoke"
  /\ ConnectPacket.large = TRUE /\ ConnectPacket.ts = 0
  /\ ConnectPacket \notin Announcing
  /\ \A p \in Announcing : /\ p \in Sendable /\ p \notin Media
                           /\ p.channel = 2 /\ p.type = "chunksize" /\ p.size = 1
                           /\ p.large = TRUE /\ p.ts = 0
                           /\ p.value \in MediaSizes /\ p = ChunkSizePacket(p.value)
  /\ \A n \in MediaSizes : /\ ChunkSizePacket(n) \in Announcing
                           /\ ChunkSizePacket(n).value = n
<1>1. /\ ConnectPacket \in Sendable /\ ConnectPacket.channel = 3
      /\ ConnectPacket.type = "invoke" /\ ConnectPacket.large = TRUE
      /\ ConnectPacket.ts = 0
  BY DEF Sendable, SetUp, ConnectPacket
<1>2. ConnectPacket \notin Media
  BY <1>1, MediaFacts
<1>3. ASSUME NEW p \in Announcing
      PROVE  /\ p \in Sendable /\ p \notin Media
             /\ p.channel = 2 /\ p.type = "chunksize" /\ p.size = 1
             /\ p.large = TRUE /\ p.ts = 0
             /\ p.value \in MediaSizes /\ p = ChunkSizePacket(p.value)
  <2>1. PICK n \in MediaSizes : p = ChunkSizePacket(n)
    BY DEF Announcing
  <2>2. /\ p.channel = 2 /\ p.type = "chunksize" /\ p.size = 1
        /\ p.large = TRUE /\ p.ts = 0 /\ p.value = n
    BY <2>1 DEF ChunkSizePacket
  <2>3. p \notin Media
    BY <2>2, MediaFacts
  <2> QED  BY <2>1, <2>2, <2>3 DEF Sendable, SetUp
<1>4. ConnectPacket \notin Announcing
  BY <1>1, <1>3
<1>5. \A n \in MediaSizes : /\ ChunkSizePacket(n) \in Announcing
                            /\ ChunkSizePacket(n).value = n
  BY DEF Announcing, ChunkSizePacket
<1> QED  BY <1>1, <1>2, <1>3, <1>4, <1>5

LEMMA HeadersFacts ==
  /\ MetaPacket \in Headers /\ SpsPacket \in Headers
  /\ MetaPacket.channel = 4 /\ SpsPacket.channel = 6
  /\ \A p \in Headers : /\ p \in Sendable /\ p \notin Media /\ p \notin Announcing
                        /\ p # ConnectPacket
                        /\ p.channel \in {4, 6} /\ p.type \in {"info", "video"}
                        /\ p.size \in Nat \ {0} /\ p.ts = 0 /\ p.large = TRUE
                        /\ p.channel = 6 => p = SpsPacket
<1>1. MetaPacket \in Headers /\ SpsPacket \in Headers
  BY DEF Headers
<1>2. /\ MetaPacket.channel = 4 /\ MetaPacket.type = "info" /\ MetaPacket.size = MetaSize
      /\ MetaPacket.ts = 0 /\ MetaPacket.large = TRUE
  BY DEF MetaPacket
<1>3. /\ SpsPacket.channel = 6 /\ SpsPacket.type = "video" /\ SpsPacket.size = SpsSize
      /\ SpsPacket.ts = 0 /\ SpsPacket.large = TRUE /\ SpsPacket.id = "sps"
  BY DEF SpsPacket
<1>4. MetaPacket \notin Media
  <2>1. 4 \notin 6..7
    OBVIOUS
  <2> QED  BY <1>2, <2>1, MediaFacts
<1>5. SpsPacket \notin Media
  BY <1>3, ChunkAssumption
<1>6. ASSUME NEW p \in Headers
      PROVE  /\ p \in Sendable /\ p \notin Media
             /\ p.channel \in {4, 6} /\ p.type \in {"info", "video"}
             /\ p.size \in Nat \ {0} /\ p.ts = 0 /\ p.large = TRUE
             /\ p.channel = 6 => p = SpsPacket
  <2>1. CASE p = MetaPacket
    BY <2>1, <1>1, <1>2, <1>4, ChunkAssumption DEF Sendable, SetUp
  <2>2. CASE p = SpsPacket
    BY <2>2, <1>1, <1>3, <1>5, ChunkAssumption DEF Sendable, SetUp
  <2> QED  BY <2>1, <2>2 DEF Headers
<1>7. ASSUME NEW p \in Headers PROVE p \notin Announcing /\ p # ConnectPacket
  <2>1. p.type # "chunksize" /\ p.type # "invoke"
    BY <1>6
  <2> QED  BY <2>1, SetUpFacts
<1> QED  BY <1>1, <1>2, <1>3, <1>6, <1>7

LEMMA SetUpIs ==
  ASSUME NEW p \in SetUp
  PROVE  /\ p \in Sendable /\ p \notin Media
         /\ p.channel \in {2, 3, 4, 6} /\ p.ts = 0 /\ p.large = TRUE
         /\ p.channel = 6 => p = SpsPacket
<1>1. CASE p = ConnectPacket
  BY <1>1, SetUpFacts
<1>2. CASE p \in Headers
  BY <1>2, HeadersFacts
<1>3. CASE p \in Announcing
  BY <1>3, SetUpFacts
<1> QED  BY <1>1, <1>2, <1>3 DEF SetUp

LEMMA PacketFacts ==
  ASSUME NEW p \in Sendable
  PROVE  /\ p.channel \in Channel /\ p.type \in Type /\ p.id \in Id
         /\ p.size \in Nat \ {0} /\ p.large \in BOOLEAN
         /\ p.ts \in Nat /\ p.ts \in 0..(Modulus - 1)
         /\ p.type = "chunksize" <=> p \in Announcing
         /\ p \in Announcing => ~MayBeCut(p)
<1>1. p.type \in Type /\ p.id \in Id
  BY DEF Id, Type
<1>2. /\ p.channel \in Channel /\ p.size \in Nat \ {0} /\ p.large \in BOOLEAN
      /\ p.ts \in Nat /\ p.ts < Modulus
  <2>1. CASE p \in Media
    BY <2>1, ChunkAssumption, MediaFacts
  <2>2. CASE p = ConnectPacket
    BY <2>2, ChunkAssumption DEF ConnectPacket, Channel
  <2>3. CASE p \in Announcing
    <3>1. 2 \in Channel /\ 1 \in Nat \ {0} /\ 0 \in Nat /\ 0 < Modulus
      BY ChunkAssumption DEF Channel
    <3>2. p.channel = 2 /\ p.size = 1 /\ p.large = TRUE /\ p.ts = 0
      BY <2>3, SetUpFacts
    <3> QED  BY <3>1, <3>2
  <2>4. CASE p \in Headers
    <3>1. 4 \in Channel /\ 6 \in Channel /\ 0 \in Nat /\ 0 < Modulus
      BY ChunkAssumption DEF Channel
    <3> QED  BY <3>1, <2>4, HeadersFacts
  <2> QED  BY <2>1, <2>2, <2>3, <2>4 DEF Sendable, SetUp
<1>3. p.ts \in 0..(Modulus - 1)
  BY <1>2, ChunkAssumption
<1>4. p.type = "chunksize" <=> p \in Announcing
  BY SetUpFacts, MediaFacts, HeadersFacts DEF Sendable, SetUp
<1>5. p \in Announcing => ~MayBeCut(p)
  <2>1. SUFFICES ASSUME p \in Announcing PROVE ~MayBeCut(p)
    OBVIOUS
  <2>2. p.size = 1 /\ \A n \in {Default, ClientChunk} \cup ApiChunks : n \in Nat \ {0}
    BY <2>1, SetUpFacts, ChunkAssumption
  <2> QED  BY <2>2 DEF MayBeCut
<1> QED  BY <1>1, <1>2, <1>3, <1>4, <1>5

LEMMA PacketKinds ==
  ASSUME NEW p \in Sendable
  PROVE  /\ p \in Media => p.channel \in 6..7
         /\ p \notin Media => p \in SetUp /\ p.large = TRUE
BY MediaFacts, SetUpIs DEF Sendable

LEMMA ByteIsUnit ==
  \A id \in Id, k \in Nat : Byte(id, k) \in Unit
BY DEF Byte, Unit, ByteUnit

LEMMA ContinuationFacts ==
  ASSUME NEW c \in Channel
  PROVE  /\ Continuation(c) \in HeaderUnit /\ Continuation(c) \in Unit
         /\ Continuation(c).fmt = MINIMUM /\ Continuation(c).channel = c
         /\ Continuation(c).header = TRUE
BY DEF Continuation, HeaderUnit, Unit

LEMMA IntactFacts ==
  ASSUME NEW p \in Sendable
  PROVE  /\ Intact(p) \in Seq(Unit) /\ Len(Intact(p)) = p.size
         /\ p \in Announcing => Intact(p)[1] = Byte("chunksize", p.value)
         /\ p \notin Announcing => \A k \in 1..p.size : Intact(p)[k] = Byte(p.id, k)
<1>0. p.type = "chunksize" <=> p \in Announcing
  BY PacketFacts
<1>1. CASE p \in Announcing
  <2>1. p.id = "chunksize" /\ p.size = 1 /\ p.value \in Nat
    <3>1. p = ChunkSizePacket(p.value) /\ p.size = 1 /\ p.value \in MediaSizes
      BY <1>1, SetUpFacts
    <3>2. PICK n : n = p.value /\ p = ChunkSizePacket(n)
      BY <3>1
    <3>3. p.id = "chunksize"
      BY <3>2 DEF ChunkSizePacket
    <3> QED  BY <3>1, <3>3, SizeFacts
  <2>2. Byte("chunksize", p.value) \in Unit
    BY <2>1, PacketFacts, ByteIsUnit
  <2>3. Intact(p) = <<Byte("chunksize", p.value)>>
    BY <1>0, <1>1, <2>1 DEF Intact
  <2> QED  BY <1>1, <2>1, <2>2, <2>3
<1>2. CASE p \notin Announcing
  <2>1. Intact(p) = [k \in 1..p.size |-> Byte(p.id, k)]
    BY <1>0, <1>2 DEF Intact
  <2>2. p.size \in Nat /\ p.id \in Id
    BY PacketFacts
  <2>3. \A k \in 1..p.size : k \in Nat /\ Byte(p.id, k) \in Unit
    BY <2>2, ByteIsUnit
  <2>4. Intact(p) \in [1..p.size -> Unit]
    BY <2>1, <2>3
  <2>5. Intact(p) \in Seq(Unit)
    BY <2>2, <2>4
  <2>6. Len(Intact(p)) = p.size
    <3>1. Len([k \in 1..p.size |-> Byte(p.id, k)]) = p.size
      BY <2>2
    <3> QED  BY <3>1, <2>1
  <2> QED  BY <1>2, <2>1, <2>5, <2>6
<1> QED  BY <1>1, <1>2

LEMMA NotNone ==
  /\ \A s \in Send : s # NONE
  /\ \A s \in Reading : s # NONE
  /\ \A s \in Memory : s # NONE
  /\ \A p \in Sendable : p # NONE
<1>1. ASSUME NEW s \in Send PROVE s # NONE
  BY DEF Send, NONE
<1>2. ASSUME NEW s \in Reading PROVE s # NONE
  BY DEF Reading, NONE
<1>3. ASSUME NEW s \in Memory PROVE s # NONE
  BY DEF NONE, Memory
<1>4. ASSUME NEW p \in Sendable PROVE p # NONE
  <2>1. CASE p \in Media
    BY <2>1, ChunkAssumption DEF MediaPacket, NONE
  <2>2. CASE p = ConnectPacket
    BY <2>2 DEF ConnectPacket, NONE
  <2>3. CASE p \in Announcing
    BY <2>3 DEF Announcing, ChunkSizePacket, NONE
  <2>4. CASE p \in Headers
    BY <2>4 DEF Headers, MetaPacket, SpsPacket, NONE
  <2> QED  BY <2>1, <2>2, <2>3, <2>4 DEF Sendable, SetUp
<1> QED  BY <1>1, <1>2, <1>3, <1>4

(* the multiples of a chunk size *)
LEMMA NextMultiple ==
  ASSUME NEW a \in Nat, NEW c \in Nat \ {0}, a % c = 0
  PROVE  (a + c) % c = 0
<1>1. PICK q \in Nat : a = c * q
  <2>1. PICK q \in Nat : q = a \div c /\ a = c * q
    OBVIOUS
  <2> QED  BY <2>1
<1>2. PICK n \in Nat : n = q + 1
  OBVIOUS
<1>3. a + c = n * c
  BY <1>1, <1>2
<1>4. (n * c) % c = 0
  OBVIOUS
<1> QED  BY <1>3, <1>4
-----------------------------------------------------------------------------
(* The line only grows: what it says of its packets does not change. *)

Longer(s, s2) == /\ Len(s) \in Nat /\ Len(s2) \in Nat /\ Len(s) <= Len(s2)
                 /\ \A j \in 1..Len(s) : s2[j] = s[j]

LEMMA LongerSelf ==
  ASSUME NEW s, Len(s) \in Nat
  PROVE  Longer(s, s)
BY DEF Longer

LEMMA LongerAppend ==
  ASSUME NEW A, NEW s \in Seq(A), NEW p \in A
  PROVE  /\ Longer(s, Append(s, p)) /\ Append(s, p) \in Seq(A)
         /\ Len(Append(s, p)) = Len(s) + 1 /\ Append(s, p)[Len(s) + 1] = p
<1>1. /\ Append(s, p) \in Seq(A) /\ Len(Append(s, p)) = Len(s) + 1
      /\ \A i \in 1..Len(s) : Append(s, p)[i] = s[i]
      /\ Append(s, p)[Len(s) + 1] = p
  BY AppendProperties
<1> QED  BY <1>1 DEF Longer

LEMMA LongerConcat ==
  ASSUME NEW A, NEW s \in Seq(A), NEW u \in Seq(A)
  PROVE  /\ Longer(s, s \o u) /\ s \o u \in Seq(A) /\ Len(s \o u) = Len(s) + Len(u)
         /\ \A j \in 1..Len(u) : (s \o u)[Len(s) + j] = u[j]
<1>1. /\ s \o u \in Seq(A) /\ Len(s \o u) = Len(s) + Len(u)
      /\ \A j \in 1..(Len(s) + Len(u)) :
            (s \o u)[j] = IF j <= Len(s) THEN s[j] ELSE u[j - Len(s)]
  BY ConcatProperties
<1>2. PICK m \in Nat, n \in Nat : m = Len(s) /\ n = Len(u)
  OBVIOUS
<1>3. /\ \A j \in 1..m : j \in 1..(m + n) /\ j <= m
      /\ \A j \in 1..n : m + j \in 1..(m + n) /\ ~(m + j <= m) /\ (m + j) - m = j
  OBVIOUS
<1>4. \A j \in 1..n : (s \o u)[m + j] = u[j]
  BY <1>1, <1>2, <1>3
<1>5. Longer(s, s \o u)
  BY <1>1, <1>2, <1>3 DEF Longer
<1> QED  BY <1>1, <1>2, <1>4, <1>5

LEMMA LastStays ==
  ASSUME NEW L, NEW L2, Longer(L, L2), NEW n \in 0..Len(L), NEW c
  PROVE  /\ First(L2, n, c) <=> First(L, n, c)
         /\ \A j : LastOn(L2, j, n, c) <=> LastOn(L, j, n, c)
<1>1. \A j \in 1..n : L2[j] = L[j]
  BY DEF Longer
<1>2. First(L2, n, c) <=> First(L, n, c)
  BY <1>1 DEF First
<1>3. ASSUME NEW j PROVE LastOn(L2, j, n, c) <=> LastOn(L, j, n, c)
  <2>1. j \in 1..n => \A k \in (j + 1)..n : k \in 1..n
    OBVIOUS
  <2> QED  BY <1>1, <2>1 DEF LastOn
<1> QED  BY <1>2, <1>3

LEMMA MemoryStays ==
  ASSUME NEW L, NEW L2, Longer(L, L2), NEW n \in 0..Len(L), NEW c, NEW prev
  PROVE  /\ Remembers(prev, L, n, c) <=> Remembers(prev, L2, n, c)
         /\ RemembersTime(prev, L, n, c) <=> RemembersTime(prev, L2, n, c)
<1>1. \A j \in 1..n : L2[j] = L[j]
  BY DEF Longer
<1>2. /\ First(L2, n, c) <=> First(L, n, c)
      /\ \A j : LastOn(L2, j, n, c) <=> LastOn(L, j, n, c)
  BY LastStays
<1>3. Remembers(prev, L, n, c) <=> Remembers(prev, L2, n, c)
  BY <1>1, <1>2 DEF Remembers
<1>4. RemembersTime(prev, L, n, c) <=> RemembersTime(prev, L2, n, c)
  BY <1>1, <1>2 DEF RemembersTime
<1> QED  BY <1>3, <1>4

LEMMA SizeStays ==
  ASSUME NEW L, NEW L2, Longer(L, L2), NEW n \in 0..Len(L)
  PROVE  /\ Told(L, n) <=> Told(L2, n)
         /\ \A v : SizeAt(v, L, n) <=> SizeAt(v, L2, n)
<1>1. \A j \in 1..n : L2[j] = L[j]
  BY DEF Longer
<1>2. Told(L, n) <=> Told(L2, n)
  BY <1>1 DEF Told
<1>3. ASSUME NEW v PROVE SizeAt(v, L, n) <=> SizeAt(v, L2, n)
  <2>1. \A j \in 1..n : \A k \in (j + 1)..n : k \in 1..n
    OBVIOUS
  <2> QED  BY <1>1, <1>2, <2>1 DEF SizeAt
<1> QED  BY <1>2, <1>3

LEMMA LateStays ==
  ASSUME NEW L, NEW L2, Longer(L, L2), NEW n \in 0..Len(L), NEW q,
         NEW S, NEW S2, S \subseteq S2, NEW later, Late(q, L, n, S, later)
  PROVE  Late(q, L2, n, S2, later)
<1>1. \A j \in 1..n : L2[j] = L[j]
  BY DEF Longer
<1>2. First(L2, n, q.channel) <=> First(L, n, q.channel)
  BY LastStays
<1>3. Newly(L, n, q.channel) => Newly(L2, n, q.channel)
  BY <1>1 DEF Newly
<1> QED  BY <1>2, <1>3 DEF Late

LEMMA DueStays ==
  ASSUME NEW L, NEW L2, Longer(L, L2), NEW n \in 0..Len(L), NEW q, NEW v,
         NEW S, NEW S2, S \subseteq S2, NEW later, Due(v, q, L, n, S, later)
  PROVE  Due(v, q, L2, n, S2, later)
<1>1. \A j \in 1..n : L2[j] = L[j]
  BY DEF Longer
<1>2. /\ First(L2, n, q.channel) <=> First(L, n, q.channel)
      /\ \A j : LastOn(L2, j, n, q.channel) <=> LastOn(L, j, n, q.channel)
  BY LastStays
<1>3. Late(q, L, n, S, later) => Late(q, L2, n, S2, later)
  BY LateStays
<1> QED  BY <1>1, <1>2, <1>3 DEF Due

LEMMA FitsStays ==
  ASSUME NEW L, NEW L2, Longer(L, L2), NEW n \in 0..Len(L), NEW h, NEW p,
         NEW S, NEW S2, S \subseteq S2, NEW later, Fits(h, p, L, n, S, later)
  PROVE  Fits(h, p, L2, n, S2, later)
<1>1. \A j \in 1..n : L2[j] = L[j]
  BY DEF Longer
<1>2. \A j : LastOn(L2, j, n, p.channel) <=> LastOn(L, j, n, p.channel)
  BY LastStays
<1>3. Tells(h, p, L2, n)
  BY <1>1, <1>2 DEF Fits, Tells
<1>4. Timed(h, p, L2, n, S2, later)
  <2>1. Due(Stamp(h), p, L, n, S, later) => Due(Stamp(h), p, L2, n, S2, later)
    BY DueStays
  <2>2. Late(p, L, n, S, later) => Late(p, L2, n, S2, later)
    BY LateStays
  <2> QED  BY <1>1, <1>2, <2>1, <2>2 DEF Fits, Timed
<1> QED  BY <1>3, <1>4 DEF Fits

LEMMA HeadStays ==
  ASSUME NEW L, NEW L2, Longer(L, L2), NEW i \in 1..Len(L), NEW a, NEW h,
         NEW S, NEW S2, S \subseteq S2, NEW later, HeadOf(h, L, i, a, S, later)
  PROVE  HeadOf(h, L2, i, a, S2, later)
<1>1. L2[i] = L[i] /\ Len(L) \in Nat
  BY DEF Longer
<1>2. CASE a = 0
  <2>1. PICK n \in 0..Len(L) : n = i - 1
    BY <1>1
  <2>2. Fits(h, L[i], L, n, S, later)
    BY <1>2, <2>1 DEF HeadOf
  <2>3. Fits(h, L[i], L2, n, S2, later)
    BY <2>2, FitsStays
  <2> QED  BY <1>1, <1>2, <2>1, <2>3 DEF HeadOf
<1>3. CASE a # 0
  BY <1>1, <1>3 DEF HeadOf
<1> QED  BY <1>2, <1>3

LEMMA EndStays ==
  ASSUME NEW L, NEW L2, Longer(L, L2), NEW i \in 1..Len(L), NEW a, NEW e, Ends(e, L, i, a)
  PROVE  Ends(e, L2, i, a)
<1>1. L2[i] = L[i] /\ Len(L) \in Nat
  BY DEF Longer
<1>2. PICK n \in 0..Len(L) : n = i - 1
  BY <1>1
<1>3. PICK v \in Sizes : SizeAt(v, L, n) /\ e = EndIn(L[i], a, v)
  BY <1>2 DEF Ends
<1>4. SizeAt(v, L2, n)
  BY <1>3, SizeStays
<1> QED  BY <1>1, <1>2, <1>3, <1>4 DEF Ends

LEMMA ExcuseStays ==
  ASSUME NEW L, NEW L2, Longer(L, L2), NEW i \in 1..Len(L),
         NEW S, NEW S2, S \subseteq S2, NEW later, Excused(L, i, S, later)
  PROVE  Excused(L2, i, S2, later)
<1>1. Len(L) \in Nat /\ \A k \in 1..i : L2[k] = L[k]
  BY DEF Longer
<1>2. PICK j \in 1..i : /\ L[j].channel = L[i].channel
                        /\ Repeated(L, j) \/ Late(L[j], L, j - 1, S, later)
                        /\ \A k \in j..i : L[k].channel = L[i].channel => ~L[k].large
  BY DEF Excused
<1>3. /\ j \in 1..i /\ i \in 1..i /\ \A k \in j..i : k \in 1..i
      /\ j - 1 \in 0..Len(L)
  BY <1>1
<1>4. L2[j].channel = L2[i].channel
      /\ \A k \in j..i : L2[k].channel = L2[i].channel => ~L2[k].large
  BY <1>1, <1>2, <1>3
<1>5. CASE Repeated(L, j)
  <2>1. PICK h \in 1..(j - 1) : /\ L[h].channel = L[j].channel /\ L[h].ts = L[j].ts
                                /\ \A k \in (h + 1)..(j - 1) : L[k].channel # L[j].channel
    BY <1>5 DEF Repeated
  <2>2. h \in 1..i /\ \A k \in (h + 1)..(j - 1) : k \in 1..i
    OBVIOUS
  <2>3. Repeated(L2, j)
    BY <1>1, <1>3, <2>1, <2>2 DEF Repeated
  <2> QED  BY <1>4, <2>3 DEF Excused
<1>6. CASE Late(L[j], L, j - 1, S, later)
  <2>1. PICK n \in 0..Len(L) : n = j - 1
    BY <1>3
  <2>2. Late(L[j], L2, n, S2, later)
    BY <1>6, <2>1, LateStays
  <2> QED  BY <1>1, <1>3, <1>4, <1>6, <2>1, <2>2 DEF Excused
<1> QED  BY <1>2, <1>5, <1>6

LEMMA LinkStays ==
  ASSUME NEW L, NEW L2, Longer(L, L2), NEW W, NEW W2, Longer(W, W2),
         NEW S, NEW S2, S \subseteq S2, NEW later,
         NEW q \in Place, NEW r \in Place, Link(q, r, L, W, S, later)
  PROVE  Link(q, r, L2, W2, S2, later)
<1>1. PICK i \in Nat \ {0}, a \in Nat, o \in Nat : i = q.pk /\ a = q.at /\ o = q.off
  BY DEF Place
<1>2. r.off \in Nat /\ Len(L) \in Nat /\ Len(L2) \in Nat /\ Len(W) \in Nat
      /\ Len(W2) \in Nat /\ Len(L) <= Len(L2) /\ Len(W) <= Len(W2)
  BY DEF Place, Longer
<1>3. i \in 1..Len(L) /\ a < L[i].size /\ HeadOf(W[o + 1], L, i, a, S, later)
  BY <1>1 DEF Link
<1>4. PICK e \in Nat :
         /\ Ends(e, L, i, a)
         /\ r.off = o + 1 + (e - a) /\ r.off <= Len(W)
         /\ \A j \in 1..(e - a) : MayBe(W[o + 1 + j], L[i], a + j, later)
         /\ IF e = L[i].size THEN r.pk = i + 1 /\ r.at = 0
            ELSE r.pk = i /\ r.at = e
  BY <1>1 DEF Link
<1>5. L2[i] = L[i] /\ i \in 1..Len(L2)
  BY <1>2, <1>3 DEF Longer
<1>6. W2[o + 1] = W[o + 1]
  <2>1. o + 1 \in 1..Len(W)
    <3>1. CASE e >= a
      BY <1>2, <1>4, <3>1
    <3>2. CASE e < a
      <4>1. PICK v \in Sizes : e = EndIn(L[i], a, v)
        BY <1>4 DEF Ends
      <4>2. v \in Nat
        BY SizeFacts
      <4>3. e = IF L[i].size - a < v THEN L[i].size ELSE a + v
        BY <4>1 DEF EndIn
      <4> QED  BY <1>3, <3>2, <4>2, <4>3
    <3> QED  BY <3>1, <3>2
  <2> QED  BY <2>1 DEF Longer
<1>7. ASSUME NEW j \in 1..(e - a) PROVE W2[o + 1 + j] = W[o + 1 + j]
  <2>1. o + 1 + j \in 1..Len(W)
    BY <1>2, <1>4
  <2> QED  BY <2>1 DEF Longer
<1>8. HeadOf(W2[o + 1], L2, i, a, S2, later)
  BY <1>3, <1>6, HeadStays
<1>9. Ends(e, L2, i, a)
  BY <1>3, <1>4, EndStays
<1>10. r.off <= Len(W2)
  BY <1>2, <1>4
<1>11. \A j \in 1..(e - a) : MayBe(W2[o + 1 + j], L2[i], a + j, later)
  BY <1>4, <1>5, <1>7
<1> QED  BY <1>1, <1>3, <1>4, <1>5, <1>8, <1>9, <1>10, <1>11 DEF Link

LEMMA CutsStay ==
  ASSUME NEW L, NEW L2, Longer(L, L2), NEW W, NEW W2, Longer(W, W2),
         NEW S, NEW S2, S \subseteq S2, NEW later,
         NEW N \in Nat, NEW N2 \in Nat, N <= N2, NEW C, Cuts(C, L, W, N, S, later)
  PROVE  Cuts(C, L2, W2, N2, S2, later)
<1>1. /\ C \in Seq(Place) /\ Len(C) > 0 /\ Len(C) \in Nat
      /\ \A k \in 1..Len(C) : C[k] \in Place /\ C[k].pk <= N + 1
  BY ElementOfSeq DEF Cuts
<1>2. ASSUME NEW k \in 1..Len(C) PROVE C[k].pk <= N2 + 1
  <2>1. PICK v \in Nat : v = C[k].pk
    BY <1>1 DEF Place
  <2>2. v <= N + 1
    BY <1>1, <2>1
  <2>3. v <= N2 + 1
    BY <2>1, <2>2
  <2> QED  BY <2>1, <2>3
<1>3. ASSUME NEW k \in 1..(Len(C) - 1) PROVE Link(C[k], C[k + 1], L2, W2, S2, later)
  <2>1. k \in 1..Len(C) /\ k + 1 \in 1..Len(C)
    BY <1>1
  <2>2. PICK q \in Place, r \in Place : q = C[k] /\ r = C[k + 1]
    BY <1>1, <2>1
  <2>3. Link(q, r, L, W, S, later)
    BY <2>2 DEF Cuts
  <2> QED  BY <2>2, <2>3, LinkStays
<1> QED  BY <1>1, <1>2, <1>3 DEF Cuts
-----------------------------------------------------------------------------
(* One packet more. *)

LEMMA OneIsLast ==
  ASSUME NEW L, NEW n \in Nat, NEW c, NEW i, NEW j, LastOn(L, i, n, c), LastOn(L, j, n, c)
  PROVE  i = j
<1>1. i \in 1..n /\ j \in 1..n
  BY DEF LastOn
<1>2. i < j => j \in (i + 1)..n
  BY <1>1
<1>3. j < i => i \in (j + 1)..n
  BY <1>1
<1> QED  BY <1>1, <1>2, <1>3 DEF LastOn

LEMMA LastNext ==
  ASSUME NEW L, NEW n \in Nat, NEW c
  PROVE  /\ L[n + 1].channel = c => LastOn(L, n + 1, n + 1, c) /\ ~First(L, n + 1, c)
         /\ L[n + 1].channel # c =>
              /\ First(L, n + 1, c) <=> First(L, n, c)
              /\ \A j : LastOn(L, j, n + 1, c) <=> LastOn(L, j, n, c)
<1>1. /\ n + 1 \in 1..(n + 1) /\ (\A k \in ((n + 1) + 1)..(n + 1) : FALSE)
      /\ \A j \in 1..(n + 1) : j \in 1..n \/ j = n + 1
      /\ \A j \in 1..n : j \in 1..(n + 1)
  OBVIOUS
<1>2. L[n + 1].channel = c => LastOn(L, n + 1, n + 1, c) /\ ~First(L, n + 1, c)
  BY <1>1 DEF LastOn, First
<1>3. ASSUME L[n + 1].channel # c PROVE First(L, n + 1, c) <=> First(L, n, c)
  BY <1>1, <1>3 DEF First
<1>4. ASSUME L[n + 1].channel # c, NEW j PROVE LastOn(L, j, n + 1, c) <=> LastOn(L, j, n, c)
  <2>1. CASE j \in 1..n
    <3>1. /\ \A k \in (j + 1)..(n + 1) : k \in (j + 1)..n \/ k = n + 1
          /\ \A k \in (j + 1)..n : k \in (j + 1)..(n + 1)
      BY <2>1
    <3> QED  BY <1>1, <1>4, <2>1, <3>1 DEF LastOn
  <2>2. CASE j \notin 1..n
    BY <1>1, <1>4, <2>2 DEF LastOn
  <2> QED  BY <2>1, <2>2
<1> QED  BY <1>2, <1>3, <1>4

LEMMA RemembersMore ==
  ASSUME NEW L, NEW n \in Nat, NEW c, NEW prev, L[n + 1].channel # c
  PROVE  /\ Remembers(prev, L, n, c) => Remembers(prev, L, n + 1, c)
         /\ RemembersTime(prev, L, n, c) => RemembersTime(prev, L, n + 1, c)
<1>1. /\ First(L, n + 1, c) <=> First(L, n, c)
      /\ \A j : LastOn(L, j, n + 1, c) <=> LastOn(L, j, n, c)
      /\ \A j \in 1..n : j \in 1..(n + 1)
  BY LastNext
<1>2. \A j : LastOn(L, j, n + 1, c) => j \in 1..n
  BY <1>1 DEF LastOn
<1>3. Remembers(prev, L, n, c) => Remembers(prev, L, n + 1, c)
  BY <1>1 DEF Remembers
<1>4. RemembersTime(prev, L, n, c) => RemembersTime(prev, L, n + 1, c)
  BY <1>1, <1>2 DEF RemembersTime
<1> QED  BY <1>3, <1>4

LEMMA RemembersLast ==
  ASSUME NEW L, NEW n \in Nat, NEW c, NEW prev, L[n + 1].channel = c, prev # NONE,
         prev.size = L[n + 1].size, prev.type = L[n + 1].type
  PROVE  /\ Remembers(prev, L, n + 1, c)
         /\ prev.ts = L[n + 1].ts => RemembersTime(prev, L, n + 1, c)
<1>1. LastOn(L, n + 1, n + 1, c) /\ n + 1 \in 1..(n + 1)
  <2>1. n + 1 \in 1..(n + 1)
    OBVIOUS
  <2> QED  BY <2>1, LastNext
<1>2. Remembers(prev, L, n + 1, c)
  BY <1>1 DEF Remembers
<1>3. ASSUME prev.ts = L[n + 1].ts, NEW j \in 1..(n + 1), LastOn(L, j, n + 1, c)
      PROVE  prev.ts = L[j].ts
  <2>1. j = n + 1
    BY <1>1, <1>3, OneIsLast
  <2> QED  BY <1>3, <2>1
<1> QED  BY <1>2, <1>3 DEF RemembersTime

LEMMA SizeNext ==
  ASSUME NEW L, NEW n \in Nat
  PROVE  /\ L[n + 1].type = "chunksize" =>
              /\ Told(L, n + 1)
              /\ \A v : SizeAt(v, L, n + 1) <=> L[n + 1].value = v
         /\ L[n + 1].type # "chunksize" =>
              /\ Told(L, n + 1) <=> Told(L, n)
              /\ \A v : SizeAt(v, L, n + 1) <=> SizeAt(v, L, n)
<1>1. /\ n + 1 \in 1..(n + 1) /\ (\A k \in ((n + 1) + 1)..(n + 1) : FALSE)
      /\ \A j \in 1..(n + 1) : j \in 1..n \/ j = n + 1
      /\ \A j \in 1..n : j \in 1..(n + 1) /\ n + 1 \in (j + 1)..(n + 1)
  OBVIOUS
<1>2. ASSUME L[n + 1].type = "chunksize"
      PROVE  Told(L, n + 1) /\ \A v : SizeAt(v, L, n + 1) <=> L[n + 1].value = v
  BY <1>1, <1>2 DEF Told, SizeAt
<1>3. ASSUME L[n + 1].type # "chunksize"
      PROVE  Told(L, n + 1) <=> Told(L, n)
  BY <1>1, <1>3 DEF Told
<1>4. ASSUME L[n + 1].type # "chunksize", NEW v
      PROVE  SizeAt(v, L, n + 1) <=> SizeAt(v, L, n)
  <2>1. \A j \in 1..n : /\ \A k \in (j + 1)..(n + 1) : k \in (j + 1)..n \/ k = n + 1
                        /\ \A k \in (j + 1)..n : k \in (j + 1)..(n + 1)
    OBVIOUS
  <2> QED  BY <1>1, <1>3, <1>4, <2>1 DEF SizeAt
<1> QED  BY <1>2, <1>3, <1>4

LEMMA OneSize ==
  ASSUME NEW L, NEW n \in Nat, NEW v, NEW w, SizeAt(v, L, n), SizeAt(w, L, n)
  PROVE  v = w
<1>1. CASE ~Told(L, n)
  BY <1>1 DEF SizeAt, Told
<1>2. CASE Told(L, n)
  <2>1. PICK i \in 1..n : /\ L[i].type = "chunksize" /\ L[i].value = v
                          /\ \A k \in (i + 1)..n : L[k].type # "chunksize"
    BY <1>2 DEF SizeAt
  <2>2. PICK j \in 1..n : /\ L[j].type = "chunksize" /\ L[j].value = w
                          /\ \A k \in (j + 1)..n : L[k].type # "chunksize"
    BY <1>2 DEF SizeAt
  <2>3. ~(i < j) /\ ~(j < i)
    BY <2>1, <2>2
  <2> QED  BY <2>1, <2>2, <2>3
<1> QED  BY <1>1, <1>2
-----------------------------------------------------------------------------
(* The header of a packet: what is left out of it can be inferred. *)

LEMMA Types == LARGE = 0 /\ MEDIUM = 1 /\ SMALL = 2 /\ MINIMUM = 3
BY DEF LARGE, MEDIUM, SMALL, MINIMUM

LEMMA Compresses ==
  ASSUME NEW p, NEW f \in 0..3, NEW prev
  PROVE  LET g == CompressedType(p, f, prev)
         IN  /\ g \in 0..3 /\ (g = LARGE <=> f = LARGE)
             /\ f > MEDIUM => g > MEDIUM
             /\ f <= MEDIUM /\ g > MEDIUM =>
                  prev # NONE /\ prev.size = p.size /\ prev.type = p.type
             /\ f # MINIMUM /\ g = MINIMUM => prev # NONE /\ prev.ts = p.ts
             /\ f = MINIMUM => g = MINIMUM
BY Types DEF CompressedType, Follows

LEMMA DeltaIsInt ==
  ASSUME NEW p \in Sendable, NEW f, NEW prev \in Memory \cup {NONE}
  PROVE  Delta(p, f, prev) \in Int
<1> DEFINE d == p.ts - (IF Follows(f, prev) THEN prev.ts ELSE 0)
<1>1. d \in Int
  BY PacketFacts DEF Follows, Memory
<1>2. d % Modulus \in Int
  BY <1>1, ChunkAssumption
<1> QED  BY <1>2 DEF Delta

(* a timestamp from Extended on goes in the extension *)
LEMMA HeaderShape ==
  ASSUME NEW p \in Sendable, NEW t \in Int, NEW g \in 0..3
  PROVE  LET h == Header(p, g, t)
         IN  /\ h \in HeaderUnit /\ h.channel = p.channel /\ h.fmt = g
             /\ g <= MEDIUM => h.size = p.size /\ h.type = p.type
             /\ g # MINIMUM => Stamp(h) = t
<1>1. p.channel \in Channel /\ p.size \in Nat /\ p.type \in Type
  BY PacketFacts
<1>2. Extended \in Int
  BY ChunkAssumption
<1> DEFINE ts == IF t > Extended THEN Extended ELSE t
           extension == IF t >= Extended THEN t ELSE 0
<1>3. ts \in Int /\ extension \in Int /\ IF ts = Extended THEN extension = t ELSE ts = t
  BY <1>2
<1> HIDE DEF ts, extension
<1>4. CASE g \in {LARGE, MEDIUM}
  <2> DEFINE h == [header |-> TRUE, fmt |-> g, channel |-> p.channel, ts |-> ts,
                   extension |-> extension, size |-> p.size, type |-> p.type]
  <2>1. Header(p, g, t) = h
    BY <1>4, Types DEF Header, ts, extension
  <2>2. h \in [header : {TRUE}, fmt : {LARGE, MEDIUM}, channel : Channel, ts : Int,
                extension : Int, size : Nat, type : Type]
    BY <1>1, <1>3, <1>4
  <2>3. h \in HeaderUnit /\ Stamp(h) = t
    BY <1>3, <2>2 DEF HeaderUnit, Stamp
  <2>4. h.channel = p.channel /\ h.fmt = g /\ h.size = p.size /\ h.type = p.type
    OBVIOUS
  <2> HIDE DEF h
  <2> QED  BY <2>1, <2>3, <2>4
<1>5. CASE g = SMALL
  <2> DEFINE h == [header |-> TRUE, fmt |-> SMALL, channel |-> p.channel, ts |-> ts,
                   extension |-> extension]
  <2>1. Header(p, g, t) = h
    BY <1>5, Types DEF Header, ts, extension
  <2>2. h \in [header : {TRUE}, fmt : {SMALL}, channel : Channel, ts : Int,
                extension : Int]
    BY <1>1, <1>3
  <2>3. h \in HeaderUnit /\ Stamp(h) = t
    BY <1>3, <2>2 DEF HeaderUnit, Stamp
  <2>4. h.channel = p.channel /\ h.fmt = SMALL
    OBVIOUS
  <2> HIDE DEF h
  <2> QED  BY <1>5, <2>1, <2>3, <2>4, Types
<1>6. CASE g = MINIMUM
  <2>1. Header(p, g, t) = Continuation(p.channel)
    BY <1>6, Types DEF Header
  <2>2. /\ Continuation(p.channel) \in HeaderUnit
        /\ Continuation(p.channel).fmt = MINIMUM
        /\ Continuation(p.channel).channel = p.channel
    BY <1>1, ContinuationFacts
  <2> QED  BY <1>6, <2>1, <2>2, Types
<1> QED  BY <1>4, <1>5, <1>6, Types

LEMMA FullHeaderFits ==
  ASSUME NEW p \in Sendable, p.large, p.ts = 0, NEW L, NEW n, NEW S, NEW later
  PROVE  Fits(Header(p, LARGE, 0), p, L, n, S, later)
<1>1. PICK h : h = Header(p, LARGE, 0)
  OBVIOUS
<1>2. LARGE \in 0..3 /\ 0 \in Int
  BY Types
<1>3. /\ h \in HeaderUnit /\ h.channel = p.channel /\ h.fmt = 0
      /\ h.size = p.size /\ h.type = p.type /\ Stamp(h) = 0
  BY <1>1, <1>2, HeaderShape, Types
<1>4. Tells(h, p, L, n)
  BY <1>3, Types DEF Tells
<1>5. Timed(h, p, L, n, S, later)
  BY <1>3, Types DEF Timed, Due
<1> QED  BY <1>1, <1>4, <1>5 DEF Fits

(***************************************************************************)
(* What RTMP_SendPacket leaves out, the packets before tell: unless they   *)
(* do not, which is for the caller to see.                                 *)
(***************************************************************************)
LEMMA HeaderFits ==
  ASSUME NEW p \in Sendable, NEW f \in 0..3, f = LARGE <=> p.large,
         NEW prev \in Memory \cup {NONE}, NEW L, NEW n \in Nat, NEW S, NEW later,
         \/ First(L, n, p.channel) /\ later
         \/ /\ Remembers(prev, L, n, p.channel)
            /\ RemembersTime(prev, L, n, p.channel),
         f = MINIMUM => p \in S /\ Newly(L, n, p.channel),
         NEW g, g = CompressedType(p, f, prev),
         g > MEDIUM =>
            \E j \in 1..n :
               LastOn(L, j, n, p.channel) /\ L[j].size = p.size /\ L[j].type = p.type
  PROVE  Fits(Header(p, g, Delta(p, f, prev)), p, L, n, S, later)
<1>1. PICK c : c = p.channel
  OBVIOUS
<1>2. PICK d \in Int : d = Delta(p, f, prev)
  BY DeltaIsInt
<1>3. PICK h : h = Header(p, g, d)
  OBVIOUS
<1>4. /\ g \in 0..3 /\ (g = LARGE <=> f = LARGE)
      /\ f # MINIMUM /\ g = MINIMUM => prev # NONE /\ prev.ts = p.ts
  BY Compresses
<1>5. /\ h \in HeaderUnit /\ h.channel = p.channel /\ h.fmt = g
      /\ g <= MEDIUM => h.size = p.size /\ h.type = p.type
      /\ g # MINIMUM => Stamp(h) = d
  BY <1>3, <1>4, HeaderShape
<1>6. p.ts \in 0..(Modulus - 1) /\ Modulus \in Nat \ {0} /\ p.large \in BOOLEAN
  BY PacketFacts, ChunkAssumption
<1>7. ~Follows(f, prev) => d = p.ts
  <2>1. (p.ts - 0) % Modulus = p.ts
    BY <1>6
  <2> QED  BY <1>2, <2>1 DEF Delta
<1>8. Tells(h, p, L, n)
  BY <1>1, <1>4, <1>5, Types DEF Tells
<1>9. p.large => d = p.ts
  BY <1>7 DEF Follows
<1>10. CASE First(L, n, c) /\ later
  <2>1. Late(p, L, n, S, later)
    BY <1>1, <1>10 DEF Late
  <2>2. Timed(h, p, L, n, S, later)
    BY <1>4, <1>5, <1>9, <2>1, Types DEF Timed, Due
  <2> QED  BY <1>2, <1>3, <1>8, <2>2 DEF Fits
<1>11. CASE ~(First(L, n, c) /\ later)
  <2>1. Remembers(prev, L, n, c) /\ RemembersTime(prev, L, n, c)
    BY <1>1, <1>11
  <2>2. CASE prev = NONE
    <3>1. First(L, n, c) /\ d = p.ts
      BY <1>7, <2>1, <2>2 DEF Remembers, Follows
    <3>2. Due(d, p, L, n, S, later)
      BY <1>1, <3>1 DEF Due
    <3>3. g = MINIMUM => Late(p, L, n, S, later)
      BY <1>1, <1>4, <2>2 DEF Late
    <3>4. Timed(h, p, L, n, S, later)
      BY <1>4, <1>5, <3>2, <3>3, Types DEF Timed
    <3> QED  BY <1>2, <1>3, <1>8, <3>4 DEF Fits
  <2>3. CASE prev # NONE
    <3>1. PICK j \in 1..n : /\ LastOn(L, j, n, c)
                            /\ prev.size = L[j].size /\ prev.type = L[j].type
      BY <2>1, <2>3 DEF Remembers
    <3>2. prev.ts = L[j].ts
      BY <2>1, <2>3, <3>1 DEF RemembersTime
    <3>3. f # LARGE => d = (p.ts - L[j].ts) % Modulus
      BY <1>2, <2>3, <3>2 DEF Delta, Follows
    <3>4. Due(d, p, L, n, S, later)
      BY <1>1, <1>6, <1>9, <3>1, <3>3 DEF Due
    <3>5. g = MINIMUM => Late(p, L, n, S, later) \/ p.ts = L[j].ts
      BY <1>1, <1>4, <3>2 DEF Late
    <3>6. Timed(h, p, L, n, S, later)
      BY <1>1, <1>4, <1>5, <3>1, <3>4, <3>5, Types DEF Timed
    <3> QED  BY <1>2, <1>3, <1>8, <3>6 DEF Fits
  <2> QED  BY <2>2, <2>3
<1> QED  BY <1>10, <1>11
-----------------------------------------------------------------------------
(* The chunk that is sent next. *)

LEMMA SizesAreNat == \A v \in Sizes : v \in Nat /\ v > 0
BY SizeFacts

(* what goes out for the packet at the front *)
LEMMA ToSendFacts ==
  ASSUME NEW m \in Media
  PROVE  /\ ToSend(m) \in Media \cup Headers /\ ToSend(m) \in Sendable
         /\ ToSend(m) \notin Announcing
         /\ ToSend(m) \in Media => ToSend(m) = m
<1>1. ToSend(m) \in {MetaPacket, SpsPacket, m}
  BY DEF ToSend
<1>2. /\ \A p \in Headers : p \in Sendable /\ p \notin Media /\ p \notin Announcing
      /\ MetaPacket \in Headers /\ SpsPacket \in Headers
  BY HeadersFacts
<1>3. m \in Sendable /\ m \notin Announcing
  BY MediaFacts, SetUpFacts
<1> QED  BY <1>1, <1>2, <1>3

LEMMA BusyFacts ==
  ASSUME NEW L, SenderOK(L), Busy
  PROVE  LET s == Sending
             p == Sending.packet
         IN  /\ s \in Send /\ p \in Sendable /\ s.header \in HeaderUnit
             /\ s.at \in Nat /\ s.at < p.size /\ p.size \in Nat \ {0}
             /\ s.chunk = outChunk /\ outChunk \in Sizes
             /\ phase \notin Failed
             /\ p \in Media => /\ ~Idle("stream") /\ phase = "media"
                               /\ p = front /\ p \notin popped
             /\ L \in Seq(Sendable) /\ Len(finished) \in Nat
             /\ Len(L) = Len(finished) + 1 /\ L[Len(L)] = p
<1>1. current \in [Thread -> Send \cup {NONE}] /\ phase \notin Failed
      /\ phase \in {"connect", "announce", "media", "reconnect"} \cup Failed
  BY DEF SenderOK, Turns
<1>2. Sending \in Send
  BY <1>1 DEF Busy, Sending, Thread
<1>3. PICK s \in Send : s = Sending
  BY <1>2
<1>4. PICK p : p = s.packet
  OBVIOUS
<1>5. p \in Sendable /\ s.header \in HeaderUnit /\ s.at \in Nat
  BY <1>4 DEF Send
<1>6. p.size \in Nat \ {0}
  BY <1>5, PacketFacts
<1>7. s.at < p.size /\ s.chunk = outChunk
  BY <1>3, <1>4 DEF SenderOK, InHand
<1>8. outChunk \in Sizes
  BY DEF SenderOK, ChunkSizes
<1>9. p \in Media => ~Idle("stream") /\ phase = "media" /\ p = front
  <2>1. p \in Media => p \notin Announcing /\ p # ConnectPacket
    BY SetUpFacts
  <2>2. Idle("stream") => ~Idle("api")
    BY DEF Busy, Sending, Idle
  <2>3. /\ ~Idle("stream") =>
             /\ phase \in {"connect", "reconnect"} => p = ConnectPacket
             /\ phase = "announce" => p \in Announcing
             /\ phase = "media" => front # NONE /\ p = ToSend(front)
        /\ ~Idle("api") => p \in Announcing
    BY <1>3, <1>4 DEF SenderOK, InHand
  <2>4. front # NONE => front \in Media
    BY DEF SenderOK, Fronts
  <2>5. front # NONE /\ p = ToSend(front) /\ p \in Media => p = front
    BY <2>4, ToSendFacts
  <2> QED  BY <1>1, <2>1, <2>2, <2>3, <2>5
<1>10. p \in Media => p \notin popped
  <2>1. front = NONE \/ front \in Media \ popped
    BY DEF SenderOK, Fronts
  <2>2. p # NONE
    BY <1>5, NotNone
  <2> QED  BY <1>9, <2>1, <2>2
<1>11. /\ L \in Seq(Sendable) /\ Len(finished) \in Nat
       /\ Len(L) = Len(finished) + 1 /\ L[Len(L)] = p
  BY <1>3, <1>4, <1>5 DEF SenderOK, OnLine
<1> QED  BY <1>1, <1>3, <1>4, <1>5, <1>6, <1>7, <1>8, <1>9, <1>10, <1>11

LEMMA LineFacts ==
  ASSUME NEW L, SenderOK(L)
  PROVE  /\ L \in Seq(Sendable) /\ finished \in Seq(Sendable)
         /\ Len(L) \in Nat /\ Len(finished) \in Nat
         /\ Len(finished) <= Len(L) /\ Len(L) <= Len(finished) + 1
         /\ \A i \in 1..Len(L) : L[i] \in Sendable
         /\ \A i \in 1..Len(finished) : L[i] = finished[i] /\ finished[i] \in Sendable
         /\ Longer(finished, L)
         /\ ~Busy /\ phase \notin Failed => L = finished
<1>1. /\ L \in Seq(Sendable) /\ finished \in Seq(Sendable)
      /\ Len(L) \in Nat /\ Len(finished) \in Nat
      /\ Len(finished) <= Len(L) /\ Len(L) <= Len(finished) + 1
      /\ \A i \in 1..Len(finished) : L[i] = finished[i]
      /\ ~Busy /\ phase \notin Failed => Len(L) = Len(finished)
  BY DEF SenderOK, OnLine
<1>2. Longer(finished, L)
  BY <1>1 DEF Longer
<1>3. ~Busy /\ phase \notin Failed => L = finished
  BY <1>1, SeqEqual
<1> QED  BY <1>1, <1>2, <1>3, ElementOfSeq

(* where the receiver will see the end of the chunk that is sent *)
LEMMA SameEnd ==
  ASSUME NEW L, SenderOK(L), Busy, ~(Later /\ Apart(L))
  PROVE  Ends(ChunkEnd(Sending), L, Len(L), Sending.at)
<1>1. PICK s, p, a, n : s = Sending /\ p = s.packet /\ a = s.at /\ n = Len(finished)
  OBVIOUS
<1>2. /\ p \in Sendable /\ p.size \in Nat \ {0} /\ a \in Nat /\ a < p.size
      /\ s.chunk = outChunk /\ outChunk \in Sizes
      /\ n \in Nat /\ Len(L) = n + 1 /\ L[n + 1] = p
  BY <1>1, BusyFacts
<1>3. PICK z, e : z = p.size /\ e = ChunkEnd(s) /\ z \in Nat
  BY <1>2
<1>4. outChunk \in Nat /\ outChunk > 0
  BY <1>2, SizesAreNat
<1>5. e = IF z - a < outChunk THEN z ELSE a + outChunk
  BY <1>1, <1>2, <1>3 DEF ChunkEnd
<1>6. PICK v \in Sizes : SizeAt(v, L, n)
  <2>1. n \in 0..Len(L)
    BY <1>2
  <2> QED  BY <1>1, <2>1 DEF SenderOK, ChunkSizes
<1>7. v \in Nat /\ v > 0
  BY SizesAreNat
<1>8. (n + 1) - 1 = n
  BY <1>2
<1>9. CASE z - a = z /\ z <= v /\ z <= outChunk
  <2>1. e = z /\ EndIn(p, a, v) = z
    <3>1. a = 0
      BY <1>2, <1>3, <1>9
    <3>2. (IF z - a < v THEN z ELSE a + v) = z
      BY <1>3, <1>7, <1>9, <3>1
    <3> QED  BY <1>3, <1>4, <1>5, <1>9, <3>1, <3>2 DEF EndIn
  <2> QED  BY <1>1, <1>2, <1>3, <1>6, <1>8, <2>1 DEF Ends
<1>10. CASE z - a < outChunk /\ z - a < v
  <2>1. e = z /\ EndIn(p, a, v) = z
    BY <1>3, <1>5, <1>10 DEF EndIn
  <2> QED  BY <1>1, <1>2, <1>3, <1>6, <1>8, <2>1 DEF Ends
<1>11. CASE SizeAt(outChunk, L, n)
  <2>1. e = EndIn(p, a, outChunk)
    BY <1>3, <1>5 DEF EndIn
  <2> QED  BY <1>1, <1>2, <1>3, <1>8, <1>11, <2>1 DEF Ends
<1>12. CASE p.type = "chunksize"
  <2>1. z = 1 /\ a = 0
    <3>1. p \in Announcing
      BY <1>2, <1>12, PacketFacts
    <3>2. p.size = 1
      BY <3>1, SetUpFacts
    <3> QED  BY <1>2, <1>3, <3>2
  <2> QED  BY <1>4, <1>7, <1>9, <2>1
<1>13. CASE p.type # "chunksize"
  <2>1. /\ Told(L, n + 1) <=> Told(L, n)
        /\ SizeAt(outChunk, L, n + 1) <=> SizeAt(outChunk, L, n)
    BY <1>2, <1>13, SizeNext
  <2>2. CASE ~Later \/ Told(L, n + 1)
    BY <1>2, <1>11, <2>1, <2>2 DEF SenderOK, ChunkSizes
  <2>3. CASE Later /\ ~Told(L, n + 1)
    <3>1. n + 1 \in 1..Len(L)
      BY <1>2
    <3>2. ~MayBeCut(p)
      BY <1>2, <2>3, <3>1 DEF Apart
    <3>3. ~(z > v) /\ ~(z > outChunk)
      BY <1>2, <1>3, <3>2 DEF MayBeCut, Sizes, MediaSizes
    <3>4. z <= v /\ z <= outChunk
      BY <1>3, <1>4, <1>7, <3>3
    <3>5. (z - a = z) \/ (z - a < outChunk /\ z - a < v)
      BY <1>2, <1>3, <1>4, <1>7, <3>4
    <3> QED  BY <1>9, <1>10, <3>4, <3>5
  <2> QED  BY <2>2, <2>3
<1> QED  BY <1>12, <1>13

(***************************************************************************)
(* The units of the chunk: its header, and bytes of the packet, which on   *)
(* the first connection are as they were given, since only bytes already   *)
(* written have been written over.                                         *)
(***************************************************************************)
LEMMA NextBytes ==
  ASSUME NEW L, SenderOK(L), Busy,
         NEW k \in (Sending.at + 1)..Sending.packet.size
  PROVE  /\ BodyOf(Sending.packet)[k] \in Unit
         /\ MayBe(BodyOf(Sending.packet)[k], Sending.packet, k, Later)
<1>1. PICK p, a : p = Sending.packet /\ a = Sending.at
  OBVIOUS
<1>2. /\ p \in Sendable /\ a \in Nat /\ p.size \in Nat /\ phase \notin Failed
      /\ p \in Media => p \notin popped
  BY <1>1, BusyFacts
<1>3. k \in 1..p.size /\ k > a
  BY <1>1, <1>2
<1>4. Intact(p) \in Seq(Unit) /\ Len(Intact(p)) = p.size
  BY <1>2, IntactFacts
<1>5. CASE p \notin Media
  <2>1. BodyOf(p) = Intact(p)
    BY <1>5 DEF BodyOf
  <2> QED  BY <1>1, <1>3, <1>4, <2>1, ElementOfSeq DEF MayBe
<1>6. CASE p \in Media
  <2>1. BodyOf(p) = body[p] /\ body[p] \in Seq(Unit) /\ Len(body[p]) = p.size
    BY <1>6 DEF BodyOf, SenderOK, Bodies
  <2>2. Intact(p)[k] = Byte(p.id, k)
    <3>1. p \notin Announcing
      BY <1>6, SetUpFacts
    <3> QED  BY <1>2, <1>3, <3>1, IntactFacts
  <2>3. body[p][k] = Byte(p.id, k) \/ Overwritten(body[p][k], p, k)
    BY <1>3, <1>6 DEF SenderOK, Bodies
  <2>4. ~Later => body[p][k] = Byte(p.id, k)
    <3>1. p \in Media \ popped
      BY <1>2, <1>6
    <3>2. Busy /\ Sending.packet = p => k > Sending.at
      BY <1>1, <1>3
    <3> QED  BY <1>2, <1>3, <3>1, <3>2 DEF SenderOK, Bodies
  <2> QED  BY <1>1, <1>3, <2>1, <2>2, <2>3, <2>4, ElementOfSeq DEF MayBe
<1> QED  BY <1>5, <1>6

LEMMA NextChunk ==
  ASSUME NEW L, SenderOK(L), Busy
  PROVE  LET s == Sending
             u == ChunkUnits(Sending)
             e == ChunkEnd(Sending)
         IN  /\ e \in (s.at + 1)..s.packet.size
             /\ e # s.packet.size => e = s.at + outChunk
             /\ u \in Seq(Unit) /\ Len(u) = 1 + (e - s.at)
             /\ u[1] = s.header
             /\ \A j \in 1..(e - s.at) : MayBe(u[1 + j], s.packet, s.at + j, Later)
<1>1. PICK s : s = Sending
  OBVIOUS
<1>2. PICK p : p = s.packet
  OBVIOUS
<1>3. /\ s.at \in Nat /\ p.size \in Nat /\ s.at < p.size
      /\ s.header \in Unit /\ s.chunk = outChunk /\ outChunk \in Sizes
  <2>1. HeaderUnit \subseteq Unit
    BY DEF Unit
  <2> QED  BY <1>1, <1>2, <2>1, BusyFacts
<1>4. PICK a \in Nat, z \in Nat : a = s.at /\ z = p.size /\ a < z
  BY <1>3
<1>5. outChunk \in Nat /\ outChunk > 0
  BY <1>3, SizesAreNat
<1>6. PICK e : e = ChunkEnd(s)
  OBVIOUS
<1>7. e = IF z - a < outChunk THEN z ELSE a + outChunk
  BY <1>2, <1>3, <1>4, <1>6 DEF ChunkEnd
<1>8. e \in (a + 1)..z /\ e \in Nat /\ (e # z => e = a + outChunk)
  BY <1>4, <1>5, <1>7
<1>9. PICK b, rest : b = BodyOf(p) /\ rest = SubSeq(b, a + 1, e)
  OBVIOUS
<1>10. \A k \in (a + 1)..z : b[k] \in Unit /\ MayBe(b[k], p, k, Later)
  BY <1>1, <1>2, <1>4, <1>9, NextBytes
<1>11. \A k \in (a + 1)..e : k \in (a + 1)..z
  BY <1>4, <1>8
<1>12. /\ rest \in Seq(Unit) /\ Len(rest) = e - a
       /\ \A j \in 1..(e - a) : rest[j] = b[a + j]
  <2>1. a + 1 \in Int /\ e \in Int /\ a + 1 <= e
    BY <1>4, <1>8
  <2>2. /\ rest \in Seq(Unit) /\ Len(rest) = e - (a + 1) + 1
        /\ \A j \in 1..(e - (a + 1) + 1) : rest[j] = b[a + 1 + j - 1]
    <3>1. \A k \in (a + 1)..e : b[k] \in Unit
      BY <1>10, <1>11
    <3> QED  BY <1>9, <2>1, <3>1, SubSeqProperties
  <2>3. /\ e - (a + 1) + 1 = e - a
        /\ \A j \in 1..(e - a) : a + 1 + j - 1 = a + j
    BY <1>4, <1>8
  <2> QED  BY <2>2, <2>3
<1>13. <<s.header>> \in Seq(Unit) /\ Len(<<s.header>>) = 1 /\ <<s.header>>[1] = s.header
  BY <1>3
<1>14. PICK u : u = ChunkUnits(s)
  OBVIOUS
<1>15. u = <<s.header>> \o rest
  BY <1>2, <1>4, <1>6, <1>9, <1>14 DEF ChunkUnits
<1>16. /\ u \in Seq(Unit) /\ Len(u) = 1 + (e - a)
       /\ u[1] = s.header
       /\ \A j \in 1..(e - a) : u[1 + j] = rest[j]
  <2>1. PICK hd \in Seq(Unit) : hd = <<s.header>> /\ Len(hd) = 1 /\ hd[1] = s.header
    BY <1>13
  <2>2. /\ Longer(hd, hd \o rest) /\ hd \o rest \in Seq(Unit)
        /\ Len(hd \o rest) = Len(hd) + Len(rest)
        /\ \A j \in 1..Len(rest) : (hd \o rest)[Len(hd) + j] = rest[j]
    <3>1. rest \in Seq(Unit) /\ hd \in Seq(Unit)
      BY <1>12, <2>1
    <3> QED  BY <3>1, LongerConcat
  <2>3. (hd \o rest)[1] = hd[1]
    BY <2>1, <2>2 DEF Longer
  <2> QED  BY <1>12, <1>15, <2>1, <2>2, <2>3
<1>17. \A j \in 1..(e - a) : MayBe(u[1 + j], p, a + j, Later)
  <2>1. \A j \in 1..(e - a) : a + j \in (a + 1)..z
    BY <1>4, <1>8
  <2> QED  BY <1>10, <1>12, <1>16, <2>1
<1> QED  BY <1>1, <1>2, <1>4, <1>6, <1>8, <1>14, <1>16, <1>17
-----------------------------------------------------------------------------
(* A send begins. *)

LEMMA NotBusy == ~Busy <=> Idle("stream") /\ Idle("api")
BY DEF Busy, Sending, Idle

(***************************************************************************)
(* What the four actions that call RTMP_SendPacket or sendChunkSize have   *)
(* in common, if they do not race.                                         *)
(***************************************************************************)
Keeps(p) ==
    /\ headerType' \in [Media -> 0..3]
    /\ \A m \in Media : /\ headerType'[m] = LARGE <=> m.large
                        /\ headerType[m] > MEDIUM => headerType'[m] > MEDIUM
                        /\ headerType[m] = MINIMUM => headerType'[m] = MINIMUM
                        /\ m # p => headerType'[m] = headerType[m]
Begins(t, p, h) ==
    /\ t \in Thread /\ ~Busy /\ phase \notin Failed /\ p \in Sendable /\ h \in HeaderUnit
    /\ IF t = "api" THEN p \in Announcing
       ELSE /\ phase \in {"connect", "reconnect"} => p = ConnectPacket
            /\ phase = "announce" => p \in Announcing
            /\ phase = "media" => p \in Media \cup Headers
    /\ IF t = "stream" /\ phase = "media"
       THEN /\ front' \in Media \ popped /\ front \in {NONE, front'}
            /\ p = ToSend(front')
       ELSE front' = front
    /\ p \in Media => p = front'
    /\ outChunk' = IF p \in Announcing THEN p.value ELSE outChunk
    /\ current' = [current EXCEPT ![t] =
          [packet |-> p, chunk |-> outChunk', at |-> 0, header |-> h]]
    /\ chunkSize' \in MediaSizes
    /\ Keeps(p)
    /\ UNCHANGED <<phase, popped, hasSent, prevOut, body, wire, receiverVars, finished,
                   connections>>

(* the header of packet p after line L: it fits, or p is stale *)
Goes(h, p, L, S, Z, later) == Fits(h, p, L, Len(L), S, later) \/ Stale(p, L, Len(L), Z)

LEMMA SendPacketFits ==
  ASSUME NEW L, SenderOK(L), ~Busy, phase \notin Failed, NEW t \in Thread,
         NEW p \in Sendable, p \notin Announcing,
         p \in Media => p \notin popped /\ front \in {NONE, p},
         SendPacket(t, p), connections' = connections
  PROVE  \E h \in HeaderUnit :
            /\ Goes(h, p, L, Bare', Shortened', Later)
            /\ current' = [current EXCEPT ![t] =
                  [packet |-> p, chunk |-> outChunk, at |-> 0, header |-> h]]
            /\ Keeps(p)
<1>1. PICK f, prev : f = HeaderTypeOf(p) /\ prev = prevOut[p.channel]
  OBVIOUS
<1>2. PICK g : g = CompressedType(p, f, prev)
  OBVIOUS
<1>3. PICK h : h = Header(p, g, Delta(p, f, prev))
  OBVIOUS
<1>4. /\ current' = [current EXCEPT ![t] =
                       [packet |-> p, chunk |-> outChunk, at |-> 0, header |-> h]]
      /\ headerType' = [m \in Media |-> IF m = p THEN g ELSE headerType[m]]
  BY <1>1, <1>2, <1>3 DEF SendPacket
<1>5. p.channel \in Channel
  BY PacketFacts
<1>6. /\ headerType \in [Media -> 0..3]
      /\ \A m \in Media : /\ headerType[m] = LARGE <=> m.large
                          /\ m \notin popped /\ m # front => headerType[m] <= MEDIUM
  BY DEF SenderOK, Fronts
<1>7. f \in 0..3 /\ (f = LARGE <=> p.large) /\ (p \notin Media => f = LARGE)
  <2>1. CASE p \in Media
    BY <1>1, <1>6, <2>1 DEF HeaderTypeOf
  <2>2. CASE p \notin Media
    <3>1. f = LARGE /\ p.large = TRUE
      BY <1>1, <2>2, PacketKinds DEF HeaderTypeOf
    <3>2. f \in 0..3
      BY <3>1, Types
    <3> QED  BY <3>1, <3>2, Zenon
  <2> QED  BY <2>1, <2>2
<1>8. PICK n \in Nat : n = Len(finished) /\ n = Len(L) /\ L = finished
  BY LineFacts
<1>9. f > MEDIUM => Newly(L, n, p.channel) /\ Later
  <2>1. SUFFICES ASSUME f > MEDIUM PROVE Newly(L, n, p.channel) /\ Later
    OBVIOUS
  <2>2. p \in Media
    BY <1>7, <2>1, Types
  <2>3. f = headerType[p]
    BY <1>1, <2>2 DEF HeaderTypeOf
  <2>4. front = p
    <3>1. ~(headerType[p] <= MEDIUM)
      BY <1>7, <2>1, <2>3, Types
    <3> QED  BY <1>6, <2>2, <3>1
  <2>5. front # NONE /\ Idle("stream")
    BY <2>4, NotNone, NotBusy
  <2>6. Later /\ \A i \in 1..Len(L) : L[i] \notin Media
    BY <2>1, <2>3, <2>4, <2>5 DEF SenderOK, Fronts
  <2> QED  BY <1>8, <2>6 DEF Newly
<1>10. prev \in Memory \cup {NONE}
  BY <1>1, <1>5 DEF SenderOK, SenderMemory
<1>11. \/ First(L, n, p.channel) /\ Later
       \/ /\ Remembers(prev, L, n, p.channel)
          /\ RemembersTime(prev, L, n, p.channel)
  BY <1>1, <1>5, <1>8 DEF SenderOK, SenderMemory
<1>12. /\ g \in 0..3 /\ (g = LARGE <=> f = LARGE) /\ (f > MEDIUM => g > MEDIUM)
       /\ f <= MEDIUM /\ g > MEDIUM =>
            prev # NONE /\ prev.size = p.size /\ prev.type = p.type
       /\ f = MINIMUM => g = MINIMUM
  BY <1>2, <1>7, Compresses
<1>13. h \in HeaderUnit
  BY <1>2, <1>3, <1>10, <1>12, DeltaIsInt, HeaderShape
<1>14. PICK S, Z : S = Bare' /\ Z = Shortened'
  OBVIOUS
<1>15. g > MEDIUM => p \in Media /\ ~p.large /\ headerType'[p] = g
  <2>1. SUFFICES ASSUME g > MEDIUM PROVE p \in Media /\ ~p.large /\ headerType'[p] = g
    OBVIOUS
  <2>2. f # LARGE
    BY <1>12, <2>1, Types
  <2>3. p \in Media /\ ~p.large
    BY <1>7, <2>2
  <2> QED  BY <1>4, <2>3
<1>16. g > MEDIUM /\ Later => p \in Z
  BY <1>14, <1>15 DEF Shortened, Later
<1>17. g = MINIMUM /\ Later => p \in S
  BY <1>14, <1>15, <1>16, Types DEF Bare
<1>18. Goes(h, p, L, S, Z, Later)
  <2> DEFINE told == \E j \in 1..n : /\ LastOn(L, j, n, p.channel)
                                    /\ L[j].size = p.size /\ L[j].type = p.type
  <2>1. CASE g > MEDIUM => told
    <3>1. f = MINIMUM => p \in S /\ Newly(L, n, p.channel)
      BY <1>9, <1>12, <1>17, Types
    <3>2. PICK later : later = Later
      OBVIOUS
    <3>3. Fits(h, p, L, n, S, later)
      BY <1>2, <1>3, <1>7, <1>10, <1>11, <2>1, <3>1, <3>2, HeaderFits
    <3> QED  BY <1>8, <3>2, <3>3 DEF Goes
  <2>2. CASE g > MEDIUM /\ ~told
    <3>1. f > MEDIUM \/ First(L, n, p.channel)
      <4>1. SUFFICES ASSUME f <= MEDIUM, ~First(L, n, p.channel) PROVE FALSE
        BY <1>7, Types
      <4>2. prev # NONE /\ prev.size = p.size /\ prev.type = p.type
        BY <1>12, <2>2, <4>1
      <4>3. told
        BY <1>11, <4>1, <4>2 DEF Remembers
      <4> QED  BY <2>2, <4>3
    <3>2. Later
      <4>1. CASE f > MEDIUM
        BY <1>9, <4>1
      <4>2. CASE ~(f > MEDIUM)
        <5>1. f <= MEDIUM
          BY <1>7, <4>2, Types
        <5>2. prev # NONE /\ prev.size = p.size /\ prev.type = p.type
          BY <1>12, <2>2, <5>1
        <5>3. SUFFICES ASSUME ~Later PROVE told
          BY <2>2
        <5> QED  BY <1>11, <5>2, <5>3 DEF Remembers
      <4> QED  BY <4>1, <4>2
    <3>3. ASSUME NEW k \in 1..n PROVE Untold(L[k], p)
      <4>1. SUFFICES ASSUME L[k].channel = p.channel
                     PROVE  L[k] \notin Media /\ (L[k].size # p.size \/ L[k].type # p.type)
        BY DEF Untold
      <4>2. ~First(L, n, p.channel)
        BY <4>1 DEF First
      <4>3. Newly(L, n, p.channel)
        BY <1>9, <3>1, <4>2
      <4>4. ~(prev = NONE)
        BY <1>11, <4>2 DEF Remembers
      <4>5. PICK j \in 1..n : LastOn(L, j, n, p.channel)
        BY <1>11, <4>2, <4>4 DEF Remembers
      <4>6. \A i \in 1..n : L[i] \in Sendable
        BY <1>8, LineFacts
      <4>7. L[j].channel = p.channel
        BY <4>5 DEF LastOn
      <4>8. L[j] \notin Media /\ L[k] \notin Media
        BY <4>1, <4>3, <4>7 DEF Newly
      <4>9. p.channel \in 6..7
        BY <1>15, <2>2, PacketKinds
      <4>10. L[j] = SpsPacket
        <5>1. PICK s \in Sendable : s = L[j]
          BY <4>6
        <5>2. s \in SetUp
          BY <4>8, <5>1, PacketKinds
        <5>3. s.channel \in {2, 3, 4, 6} /\ (s.channel = 6 => s = SpsPacket)
          BY <5>2, SetUpIs
        <5> QED  BY <4>7, <4>9, <5>1, <5>3
      <4>11. L[k] = SpsPacket
        <5>1. PICK s \in Sendable : s = L[k]
          BY <4>6
        <5>2. s \in SetUp
          BY <4>8, <5>1, PacketKinds
        <5>3. s.channel \in {2, 3, 4, 6} /\ (s.channel = 6 => s = SpsPacket)
          BY <5>2, SetUpIs
        <5> QED  BY <4>1, <4>9, <5>1, <5>3
      <4>12. L[j].size # p.size \/ L[j].type # p.type
        BY <2>2, <4>5
      <4> QED  BY <4>8, <4>10, <4>11, <4>12
    <3> QED  BY <1>8, <1>16, <2>2, <3>2, <3>3 DEF Goes, Stale
  <2> QED  BY <2>1, <2>2
<1>19. headerType' \in [Media -> 0..3]
  BY <1>4, <1>6, <1>12
<1>20. ASSUME NEW m \in Media
       PROVE  /\ headerType'[m] = LARGE <=> m.large
              /\ headerType[m] > MEDIUM => headerType'[m] > MEDIUM
              /\ headerType[m] = MINIMUM => headerType'[m] = MINIMUM
              /\ m # p => headerType'[m] = headerType[m]
  <2>1. CASE m = p
    <3>1. headerType'[m] = g /\ headerType[m] = f
      BY <1>1, <1>4, <2>1 DEF HeaderTypeOf
    <3> QED  BY <1>7, <1>12, <2>1, <3>1
  <2>2. CASE m # p
    BY <1>4, <1>6, <2>2
  <2> QED  BY <2>1, <2>2
<1>21. Keeps(p)
  BY <1>19, <1>20 DEF Keeps
<1> QED  BY <1>4, <1>13, <1>14, <1>18, <1>21

LEMMA AnnounceBegins ==
  ASSUME NEW L, SenderOK(L), ~Busy, phase \notin Failed, NEW t \in Thread,
         t = "stream" => phase = "announce",
         NEW n \in MediaSizes, SendChunkSize(t, n), chunkSize' \in MediaSizes
  PROVE  \E h : /\ Begins(t, ChunkSizePacket(n), h)
                /\ Goes(h, ChunkSizePacket(n), L, Bare', Shortened', Later)
<1>1. PICK p : p = ChunkSizePacket(n)
  OBVIOUS
<1>2. p \in Announcing /\ p.value = n
  BY <1>1, SetUpFacts
<1>3. p \in Sendable /\ p \notin Media /\ p.large /\ p.ts = 0 /\ p # ConnectPacket
  BY <1>2, SetUpFacts
<1>4. PICK h : h = Header(p, LARGE, 0)
  OBVIOUS
<1>5. /\ outChunk' = n
      /\ current' = [current EXCEPT ![t] =
            [packet |-> p, chunk |-> n, at |-> 0, header |-> h]]
      /\ UNCHANGED <<phase, front, popped, hasSent, prevOut, body, headerType, wire,
                     receiverVars, finished, connections>>
  BY <1>1, <1>4 DEF SendChunkSize, fifoVars
<1>6. \A S, k, later : Fits(h, p, L, k, S, later)
  BY <1>3, <1>4, FullHeaderFits
<1>7. /\ headerType \in [Media -> 0..3]
      /\ \A m \in Media : headerType[m] = LARGE <=> m.large
  BY DEF SenderOK, Fronts
<1>8. IF t = "api" THEN p \in Announcing
      ELSE /\ phase \in {"connect", "reconnect"} => p = ConnectPacket
           /\ phase = "announce" => p \in Announcing
           /\ phase = "media" => p \in Media \cup Headers
  BY <1>2 DEF Thread
<1>9. h \in HeaderUnit
  BY <1>6 DEF Fits, Tells
<1>10. Keeps(p)
  BY <1>5, <1>7 DEF Keeps
<1>11. ~(t = "stream" /\ phase = "media")
  OBVIOUS
<1>12. Begins(t, p, h)
  BY <1>2, <1>3, <1>5, <1>8, <1>9, <1>10, <1>11 DEF Begins
<1> QED  BY <1>1, <1>6, <1>12 DEF Goes

LEMMA SendBegins ==
  ASSUME NEW L, SenderOK(L), ~raced',
         \/ SendConnectPacket \/ AnnounceChunkSize \/ SendFront
         \/ \E n \in ApiChunks : ChangeChunkSize(n)
  PROVE  \E t, p, h : /\ Begins(t, p, h)
                      /\ Goes(h, p, L, Bare', Shortened', Later)
<1>1. ~Busy /\ phase \notin Failed
  <2>1. CASE SendConnectPacket \/ AnnounceChunkSize \/ SendFront
    BY <2>1, NotBusy DEF SendConnectPacket, AnnounceChunkSize, SendFront, Front,
                         NoteOverlap, Failed
  <2>2. CASE \E n \in ApiChunks : ChangeChunkSize(n)
    BY <2>2, NotBusy DEF ChangeChunkSize, Failed
  <2> QED  BY <2>1, <2>2
<1>2. chunkSize \in MediaSizes /\ "stream" \in Thread /\ "api" \in Thread
  BY DEF SenderOK, ChunkSizes, Thread
<1>3. CASE SendConnectPacket
  <2>1. /\ phase \in {"connect", "reconnect"} /\ SendPacket("stream", ConnectPacket)
        /\ UNCHANGED <<phase, front, popped, hasSent, outChunk, chunkSize, prevOut, body,
                       wire, receiverVars, finished, connections>>
    BY <1>3 DEF SendConnectPacket, fifoVars
  <2>2. /\ ConnectPacket \in Sendable /\ ConnectPacket \notin Media
        /\ ConnectPacket \notin Announcing
    BY SetUpFacts
  <2>3. connections' = connections
    BY <2>1
  <2>4. PICK h \in HeaderUnit :
                 /\ Goes(h, ConnectPacket, L, Bare', Shortened', Later)
                 /\ current' = [current EXCEPT !["stream"] =
                       [packet |-> ConnectPacket, chunk |-> outChunk, at |-> 0, header |-> h]]
                 /\ Keeps(ConnectPacket)
    BY <1>1, <1>2, <2>1, <2>2, <2>3, SendPacketFits
  <2>5. Begins("stream", ConnectPacket, h)
    BY <1>1, <1>2, <2>1, <2>2, <2>4 DEF Begins
  <2> QED  BY <2>4, <2>5
<1>4. CASE SendFront
  <2>1. PICK m \in Media : Front(m) /\ SendPacket("stream", ToSend(m))
    BY <1>4 DEF SendFront
  <2>2. /\ phase = "media" /\ connections' = connections
        /\ UNCHANGED <<phase, popped, hasSent, outChunk, chunkSize, prevOut, body, wire,
                       receiverVars, finished, connections>>
    BY <1>4, <2>1 DEF SendFront, Front
  <2>3. m \notin popped /\ front \in {NONE, m} /\ front' = m
    BY <2>1 DEF Front
  <2>4. PICK p : p = ToSend(m)
    OBVIOUS
  <2>5. /\ p \in Sendable /\ p \notin Announcing /\ p \in Media \cup Headers
        /\ p \in Media => p = m
    BY <2>4, ToSendFacts
  <2>6. PICK h \in HeaderUnit :
                 /\ Goes(h, p, L, Bare', Shortened', Later)
                 /\ current' = [current EXCEPT !["stream"] =
                       [packet |-> p, chunk |-> outChunk, at |-> 0, header |-> h]]
                 /\ Keeps(p)
    <3>1. p \in Media => p \notin popped /\ front \in {NONE, p}
      BY <2>3, <2>5
    <3> QED  BY <1>1, <1>2, <2>1, <2>2, <2>4, <2>5, <3>1, SendPacketFits
  <2>7. Begins("stream", p, h)
    BY <1>1, <1>2, <2>2, <2>3, <2>4, <2>5, <2>6 DEF Begins
  <2> QED  BY <2>6, <2>7
<1>5. CASE AnnounceChunkSize
  BY <1>1, <1>2, <1>5, AnnounceBegins DEF AnnounceChunkSize
<1>6. CASE \E n \in ApiChunks : ChangeChunkSize(n)
  <2>1. PICK n \in ApiChunks : ChangeChunkSize(n)
    BY <1>6
  <2>2. n \in MediaSizes /\ SendChunkSize("api", n) /\ chunkSize' \in MediaSizes
    BY <2>1, SizeFacts DEF ChangeChunkSize
  <2>3. "api" = "stream" => phase = "announce"
    OBVIOUS
  <2> QED  BY <1>1, <1>2, <2>2, <2>3, AnnounceBegins
<1> QED  BY <1>3, <1>4, <1>5, <1>6

LEMMA BeginSends ==
  ASSUME NEW L, SenderOK(L), NEW t, NEW p, NEW h, Begins(t, p, h)
  PROVE  /\ Turns' /\ Busy' /\ Later' = Later /\ outChunk' \in Sizes
         /\ Sending' = [packet |-> p, chunk |-> outChunk', at |-> 0, header |-> h]
         /\ Idle("stream")' <=> t = "api"
         /\ Idle("api")' <=> t = "stream"
         /\ Shortened \subseteq Shortened' /\ Bare \subseteq Bare'
<1> DEFINE s == [packet |-> p, chunk |-> outChunk', at |-> 0, header |-> h]
<1>1. /\ t \in Thread /\ p \in Sendable /\ h \in HeaderUnit
      /\ current \in [Thread -> Send \cup {NONE}]
      /\ current' = [current EXCEPT ![t] = s]
      /\ phase' = phase /\ connections' = connections /\ phase \notin Failed
      /\ Idle("stream") /\ Idle("api")
  BY NotBusy DEF Begins, SenderOK, Turns
<1>2. outChunk' \in Sizes
  <2>1. outChunk \in Sizes
    BY DEF SenderOK, ChunkSizes
  <2>2. p \in Announcing => p.value \in Sizes
    BY SetUpFacts, SizeFacts
  <2> QED  BY <2>1, <2>2 DEF Begins
<1>3. s \in Send /\ s # NONE
  <2>1. s \in Send
    BY <1>1, <1>2, SizesAreNat DEF Send
  <2> QED  BY <2>1, NotNone
<1> HIDE DEF s
<1>4. current' \in [Thread -> Send \cup {NONE}]
      /\ \A u \in Thread : current'[u] = IF u = t THEN s ELSE NONE
  BY <1>1, <1>3 DEF Idle, Thread
<1>5. /\ Idle("stream")' <=> t = "api"
      /\ Idle("api")' <=> t = "stream"
  BY <1>1, <1>3, <1>4 DEF Idle, Thread
<1>6. Sending' = s
  BY <1>1, <1>4, <1>5 DEF Sending, Thread
<1>7. Busy' /\ Later' = Later
  BY <1>1, <1>3, <1>6 DEF Busy, Later
<1>8. Turns'
  <2>1. /\ phase \in {"connect", "announce", "media", "reconnect"} \cup Failed
        /\ connections \in Nat \ {0}
    BY DEF SenderOK, Turns
  <2> QED  BY <1>1, <1>4, <1>5, <2>1 DEF Turns, Thread
<1>9. Shortened \subseteq Shortened'
  BY <1>7 DEF Shortened, Begins, Keeps
<1>10. Bare \subseteq Bare'
  <2>1. \A m \in Bare : m \in Media /\ m \in Shortened /\ headerType[m] = MINIMUM
    BY DEF Bare, Shortened
  <2> QED  BY <1>9, <2>1 DEF Bare, Begins, Keeps
<1> QED  BY <1>2, <1>5, <1>6, <1>7, <1>8, <1>9, <1>10 DEF s

LEMMA BeginKeepsSender ==
  ASSUME NEW L, SenderOK(L), NEW t, NEW p, NEW h, Begins(t, p, h),
         Goes(h, p, L, Bare', Shortened', Later),
         NEW L2, L2 = Append(L, p)
  PROVE  SenderOK(L2)'
<1>1. PICK S, Z, later : S = Bare' /\ Z = Shortened' /\ later = Later
  OBVIOUS
<1>2. /\ Turns' /\ Busy' /\ Later' = Later /\ outChunk' \in Sizes
      /\ Sending' = [packet |-> p, chunk |-> outChunk', at |-> 0, header |-> h]
      /\ Idle("stream")' <=> t = "api"
      /\ Idle("api")' <=> t = "stream"
  BY BeginSends
<1>3. /\ t \in Thread /\ p \in Sendable /\ phase \notin Failed /\ ~Busy
      /\ UNCHANGED <<phase, popped, hasSent, prevOut, body, wire, finished, connections>>
  BY DEF Begins
<1>4. PICK n \in Nat : /\ n = Len(L) /\ n = Len(finished) /\ L = finished
                       /\ L \in Seq(Sendable)
  BY <1>3, LineFacts
<1>5. /\ Longer(L, L2) /\ L2 \in Seq(Sendable) /\ Len(L2) = n + 1 /\ L2[n + 1] = p
  BY <1>3, <1>4, LongerAppend
<1>6. \A i \in 1..n : L2[i] = L[i]
  BY <1>4, <1>5 DEF Longer
<1>7. OnLine(L2)'
  BY <1>2, <1>3, <1>4, <1>5, <1>6 DEF OnLine
<1>8. Fronts(L2)'
  <2>1. /\ popped' = popped /\ popped \subseteq Media
        /\ hasSent' = hasSent /\ hasSent \subseteq Headers
        /\ front' = front \/ (front' \in Media \ popped /\ front \in {NONE, front'})
        /\ p \in Media => p = front'
        /\ headerType' \in [Media -> 0..3]
        /\ \A m \in Media : /\ headerType'[m] = LARGE <=> m.large
                            /\ m # p => headerType'[m] = headerType[m]
        /\ front = NONE \/ front \in Media \ popped
        /\ \A m \in Media : m \notin popped /\ m # front => headerType[m] <= MEDIUM
    BY DEF Begins, Keeps, SenderOK, Fronts
  <2>2. ASSUME NEW m \in Media, m \notin popped, m # front'
        PROVE  headerType'[m] <= MEDIUM
    <3>1. m # p /\ m # front
      <4>1. m # NONE
        BY MediaFacts, NotNone
      <4> QED  BY <2>1, <2>2, <4>1
    <3> QED  BY <2>1, <2>2, <3>1
  <2>3. ASSUME front' # NONE, ~(~Idle("stream")' /\ current'["stream"].packet = front'),
               headerType'[front'] > MEDIUM
        PROVE  Later' /\ \A i \in 1..Len(L2) : L2[i] \notin Media
    <3>1. p \notin Media
      <4>1. SUFFICES ASSUME p \in Media PROVE FALSE
        OBVIOUS
      <4>2. t = "stream"
        BY <4>1, SetUpFacts, <1>3 DEF Begins, Thread
      <4>3. current'["stream"].packet = p
        BY <1>2, <4>2 DEF Sending
      <4> QED  BY <1>2, <2>1, <2>3, <4>1, <4>2, <4>3
    <3>2. front' \in Media /\ front' \notin popped
      BY <2>1, <2>3
    <3>3. headerType'[front'] = headerType[front'] /\ headerType'[front'] \in 0..3
      BY <2>1, <3>1, <3>2
    <3>4. front = front'
      <4>1. headerType[front'] \in 0..3 /\ ~(headerType[front'] <= MEDIUM)
        BY <2>3, <3>3, Types
      <4> QED  BY <2>1, <3>2, <4>1
    <3>5. front # NONE /\ Idle("stream")
      BY <1>3, <2>3, <3>4, NotBusy
    <3>6. Later /\ \A i \in 1..Len(L) : L[i] \notin Media
      BY <1>3, <2>3, <3>3, <3>4, <3>5 DEF SenderOK, Fronts
    <3>7. \A i \in 1..(n + 1) : i \in 1..n \/ i = n + 1
      BY <1>4
    <3> QED  BY <1>2, <1>4, <1>5, <1>6, <3>1, <3>6, <3>7
  <2>4. front' = NONE \/ front' \in Media \ popped
    BY <2>1
  <2> QED  BY <1>3, <2>1, <2>2, <2>3, <2>4 DEF Fronts
<1>9. ChunkSizes(L2)'
  <2>1. /\ outChunk \in Sizes
        /\ \/ phase \in {"media", "timedout", "reconnect"}
           \/ phase = "announce" /\ ~Idle("stream")
           => outChunk \in MediaSizes
        /\ ~Later \/ Told(L, n) => SizeAt(outChunk, L, n)
        /\ \A k \in 0..n : \E v \in Sizes : SizeAt(v, L, k)
    BY <1>4 DEF SenderOK, ChunkSizes
  <2>2. /\ outChunk' = IF p \in Announcing THEN p.value ELSE outChunk
        /\ chunkSize' \in MediaSizes
    BY DEF Begins
  <2>3. /\ p \in Announcing => p.value \in MediaSizes /\ p.value \in Sizes
        /\ p \in Announcing <=> p.type = "chunksize"
    BY <1>3, SetUpFacts, SizeFacts, PacketFacts
  <2>4. \/ phase' \in {"media", "timedout", "reconnect"}
        \/ phase' = "announce" /\ ~Idle("stream")'
        => outChunk' \in MediaSizes
    <3>1. CASE p \in Announcing
      BY <2>2, <2>3, <3>1
    <3>2. CASE p \notin Announcing
      <4>1. t = "stream" /\ phase # "announce"
        BY <1>3, <3>2 DEF Begins, Thread
      <4> QED  BY <1>3, <2>1, <2>2, <3>2, <4>1
    <3> QED  BY <3>1, <3>2
  <2>5. n \in 0..Len(L)
    BY <1>4
  <2>6. Told(L2, n) <=> Told(L, n)
    BY <1>5, <2>5, SizeStays
  <2>7. \A k \in 0..n : \A v : SizeAt(v, L, k) => SizeAt(v, L2, k)
    <3>1. ASSUME NEW k \in 0..n PROVE \A v : SizeAt(v, L, k) => SizeAt(v, L2, k)
      <4>1. k \in 0..Len(L)
        BY <1>4
      <4> QED  BY <1>5, <4>1, SizeStays
    <3> QED  BY <3>1
  <2>8. /\ p \in Announcing => Told(L2, n + 1) /\ \A v : SizeAt(v, L2, n + 1) <=> p.value = v
        /\ p \notin Announcing => /\ Told(L2, n + 1) <=> Told(L2, n)
                                  /\ \A v : SizeAt(v, L2, n + 1) <=> SizeAt(v, L2, n)
    <3>1. /\ L2[n + 1].type = "chunksize" =>
               /\ Told(L2, n + 1)
               /\ \A v : SizeAt(v, L2, n + 1) <=> L2[n + 1].value = v
          /\ L2[n + 1].type # "chunksize" =>
               /\ Told(L2, n + 1) <=> Told(L2, n)
               /\ \A v : SizeAt(v, L2, n + 1) <=> SizeAt(v, L2, n)
      BY SizeNext
    <3> QED  BY <1>5, <2>3, <3>1
  <2>9. ~Later \/ Told(L2, n + 1) => SizeAt(outChunk', L2, n + 1)
    <3>1. CASE p \in Announcing
      BY <2>2, <2>8, <3>1
    <3>2. CASE p \notin Announcing
      <4>1. n \in 0..n
        BY <1>4
      <4>2. ~Later \/ Told(L, n) => SizeAt(outChunk, L2, n)
        BY <2>1, <2>7, <4>1
      <4> QED  BY <2>2, <2>6, <2>8, <3>2, <4>2
    <3> QED  BY <3>1, <3>2
  <2>10. \A k \in 0..(n + 1) : \E v \in Sizes : SizeAt(v, L2, k)
    <3>1. ASSUME NEW k \in 0..(n + 1) PROVE \E v \in Sizes : SizeAt(v, L2, k)
      <4>1. CASE k \in 0..n
        BY <2>1, <2>7, <4>1
      <4>2. CASE k = n + 1
        <5>1. n \in 0..n
          BY <1>4
        <5>2. \E v \in Sizes : SizeAt(v, L2, n)
          BY <2>1, <2>7, <5>1
        <5> QED  BY <2>3, <2>8, <4>2, <5>2
      <4> QED  BY <1>4, <4>1, <4>2
    <3> QED  BY <3>1
  <2> QED  BY <1>2, <1>5, <2>2, <2>4, <2>9, <2>10 DEF ChunkSizes
<1>10. Bodies'
  <2>1. /\ body \in [Media -> Seq(Unit)]
        /\ \A m \in Media : Len(body[m]) = m.size
        /\ \A m \in Media : \A k \in 1..m.size :
             body[m][k] = Byte(m.id, k) \/ Overwritten(body[m][k], m, k)
        /\ ~Later =>
             \A m \in Media \ popped : \A k \in 1..m.size : body[m][k] = Byte(m.id, k)
    BY <1>3 DEF SenderOK, Bodies
  <2> QED  BY <1>2, <1>3, <2>1 DEF Bodies
<1>11. InHand(L2)'
  <2>1. ASSUME Fits(h, p, L, n, S, later) PROVE HeadOf(h, L2, n + 1, 0, Bare', Later')
    <3>1. n \in 0..Len(L)
      BY <1>4
    <3>2. S \subseteq S
      OBVIOUS
    <3>3. Fits(h, p, L2, n, S, later)
      BY <1>5, <2>1, <3>1, <3>2, FitsStays
    <3>4. (n + 1) - 1 = n
      BY <1>4
    <3>5. HeadOf(h, L2, n + 1, 0, Bare', Later')
      BY <1>1, <1>2, <1>5, <3>3, <3>4 DEF HeadOf
    <3> QED  BY <3>5
  <2>8. ASSUME Stale(p, L, n, Z) PROVE StaleOn(L2)'
    <3>1. p \in Z /\ \A k \in 1..n : Untold(L2[k], p)
      BY <1>6, <2>8 DEF Stale
    <3>2. (n + 1) - 1 = n /\ n + 1 \in 1..(n + 1)
      BY <1>4
    <3>3. Stale(L2[n + 1], L2, (n + 1) - 1, Z)
      BY <1>5, <3>1, <3>2 DEF Stale
    <3>4. StaleOn(L2)'
      BY <1>1, <1>5, <3>2, <3>3 DEF StaleOn
    <3> QED  BY <3>4
  <2>2. p.size \in Nat \ {0}
    BY <1>3, PacketFacts
  <2>3. 0 < p.size /\ 0 % outChunk' = 0
    BY <1>2, <2>2, SizesAreNat
  <2>4. t = "stream" => /\ phase' \in {"connect", "reconnect"} => p = ConnectPacket
                        /\ phase' = "announce" => p \in Announcing
                        /\ phase' = "media" => front' # NONE /\ p = ToSend(front)'
    <3>1. \A m \in Media : m # NONE
      BY MediaFacts, NotNone
    <3>2. ASSUME t = "stream", phase' = "media" PROVE front' # NONE /\ p = ToSend(front)'
      <4>1. front' \in Media /\ p = ToSend(front')
        BY <1>3, <3>2 DEF Begins
      <4> QED  BY <1>3, <3>1, <4>1 DEF ToSend
    <3> QED  BY <1>3, <3>2 DEF Begins
  <2>5. t = "api" => p \in Announcing
    BY DEF Begins
  <2>6. t \in {"stream", "api"}
    BY <1>3 DEF Thread
  <2>7. StaleOn(L2)' \/ HeadOf(h, L2, n + 1, 0, Bare', Later')
    BY <1>1, <1>4, <2>1, <2>8 DEF Goes
  <2> QED  BY <1>2, <1>5, <2>3, <2>4, <2>5, <2>6, <2>7 DEF InHand
<1>12. SenderMemory'
  BY <1>2, <1>3 DEF SenderOK, SenderMemory
<1> QED  BY <1>2, <1>7, <1>8, <1>9, <1>10, <1>11, <1>12 DEF SenderOK
-----------------------------------------------------------------------------
(* A chunk is written. *)

LEMMA WhoSends ==
  ASSUME NEW L, SenderOK(L), NEW t \in Thread, ~Idle(t)
  PROVE  /\ Busy /\ Sending = current[t] /\ \A u \in Thread : u # t => Idle(u)
         /\ t = "stream" \/ t = "api"
BY DEF SenderOK, Turns, Busy, Sending, Idle, Thread

(* the last chunk of a packet *)
LEMMA OutKeepsSender ==
  ASSUME NEW L, SenderOK(L), NEW t \in Thread, WriteChunk(t),
         ChunkEnd(Sending) = Sending.packet.size
  PROVE  /\ SenderOK(L)' /\ ~Busy' /\ phase' \notin Failed
         /\ Len(finished') = Len(finished) + 1
         /\ Later' = Later /\ Shortened' = Shortened /\ Bare' = Bare
<1>1. ~Idle(t)
  BY DEF WriteChunk, Idle
<1>2. Busy /\ Sending = current[t] /\ (\A u \in Thread : u # t => Idle(u))
      /\ (t = "stream" \/ t = "api")
  BY <1>1, WhoSends
<1>3. PICK p : p = Sending.packet
  OBVIOUS
<1>4. PICK n \in Nat :
         /\ n = Len(finished) /\ L \in Seq(Sendable) /\ Len(L) = n + 1 /\ L[n + 1] = p
         /\ p \in Sendable /\ phase \notin Failed
         /\ p \in Media => ~Idle("stream") /\ phase = "media" /\ p = front /\ p \notin popped
  BY <1>2, <1>3, BusyFacts
<1>5. /\ current' = [current EXCEPT ![t] = NONE]
      /\ prevOut' = [prevOut EXCEPT ![p.channel] =
                        [size |-> p.size, type |-> p.type, ts |-> p.ts]]
      /\ finished' = Append(finished, p)
      /\ popped' = popped \cup ({p} \cap Media)
      /\ front' = IF p \in Media THEN NONE ELSE front
      /\ hasSent' = hasSent \cup ({p} \cap {MetaPacket, SpsPacket})
      /\ phase' = IF t = "stream" THEN PhaseAfter(p) ELSE phase
      /\ UNCHANGED <<body, outChunk, chunkSize, headerType, receiverVars, raced,
                     connections, apiCalls>>
  BY <1>2, <1>3 DEF WriteChunk
<1>6. /\ current \in [Thread -> Send \cup {NONE}]
      /\ phase \in {"connect", "announce", "media", "reconnect"}
      /\ connections \in Nat \ {0}
  BY <1>4 DEF SenderOK, Turns
<1>7. /\ phase' \in {"connect", "announce", "media", "reconnect"}
      /\ phase' = "media" => t = "stream" \/ phase = "media"
      /\ phase' = "reconnect" => phase = "reconnect"
      /\ t = "stream" /\ phase' = "media" => phase \in {"announce", "reconnect", "media"}
      /\ phase' \notin Failed
  <2>1. CASE t = "stream"
    BY <1>5, <1>6, <2>1 DEF PhaseAfter, Failed
  <2>2. CASE t # "stream"
    BY <1>4, <1>5, <1>6, <2>2
  <2> QED  BY <2>1, <2>2
<1>8. /\ current' \in [Thread -> Send \cup {NONE}]
      /\ \A u \in Thread : current'[u] = NONE
  BY <1>2, <1>5, <1>6 DEF Idle
<1>9. Idle("stream")' /\ Idle("api")' /\ ~Busy'
  BY <1>8 DEF Idle, Busy, Sending, Thread
<1>10. Later' = Later /\ Shortened' = Shortened /\ Bare' = Bare
  BY <1>5 DEF Later, Shortened, Bare
<1>11. /\ finished \in Seq(Sendable) /\ (\A i \in 1..n : L[i] = finished[i])
       /\ Longer(finished, finished') /\ finished' \in Seq(Sendable)
       /\ Len(finished') = n + 1 /\ finished'[n + 1] = p
  BY <1>4, <1>5, LineFacts, LongerAppend
<1>12. \A i \in 1..n : finished'[i] = finished[i]
  BY <1>4, <1>11 DEF Longer
<1>13. Turns'
  BY <1>5, <1>6, <1>7, <1>8, <1>9 DEF Turns
<1>14. OnLine(L)'
  <2>1. \A i \in 1..(n + 1) : L[i] = finished'[i]
    <3>1. \A i \in 1..(n + 1) : i \in 1..n \/ i = n + 1
      BY <1>4
    <3> QED  BY <1>4, <1>11, <1>12, <3>1
  <2> QED  BY <1>4, <1>7, <1>9, <1>11, <2>1 DEF OnLine
<1>15. Fronts(L)'
  <2>1. /\ popped \subseteq Media /\ hasSent \subseteq Headers
        /\ front = NONE \/ front \in Media \ popped
        /\ headerType \in [Media -> 0..3]
        /\ \A m \in Media : /\ headerType[m] = LARGE <=> m.large
                            /\ m \notin popped /\ m # front => headerType[m] <= MEDIUM
    BY DEF SenderOK, Fronts
  <2>2. \A m \in Media : m \notin popped' /\ m # front' => headerType'[m] <= MEDIUM
    <3>1. CASE p \in Media
      BY <1>4, <1>5, <2>1, <3>1
    <3>2. CASE p \notin Media
      BY <1>5, <2>1, <3>2
    <3> QED  BY <3>1, <3>2
  <2>3. popped' \subseteq Media /\ (front' = NONE \/ front' \in Media \ popped')
    <3>1. CASE p \in Media
      BY <1>4, <1>5, <2>1, <3>1
    <3>2. CASE p \notin Media
      BY <1>5, <2>1, <3>2
    <3> QED  BY <3>1, <3>2
  <2>4. ASSUME front' # NONE, headerType'[front'] > MEDIUM
        PROVE  Later' /\ \A i \in 1..Len(L) : L[i] \notin Media
    <3>1. p \notin Media /\ front # NONE /\ headerType[front] > MEDIUM
      BY <1>5, <2>4
    <3>2. ~(~Idle("stream") /\ current["stream"].packet = front)
      <4>1. front \in Media
        BY <2>1, <3>1
      <4>2. ~Idle("stream") => current["stream"].packet = p
        BY <1>3 DEF Sending
      <4> QED  BY <3>1, <4>1, <4>2
    <3> QED  BY <1>4, <1>10, <3>1, <3>2 DEF SenderOK, Fronts
  <2>5. hasSent' \subseteq Headers
    BY <1>5, <2>1 DEF Headers
  <2> QED  BY <1>5, <2>1, <2>2, <2>3, <2>4, <2>5 DEF Fronts
<1>16. ChunkSizes(L)'
  <2>1. phase' = "media" => outChunk \in MediaSizes
    <3>1. t = "stream" => ~Idle("stream")
      BY <1>1
    <3> QED  BY <1>7, <3>1 DEF SenderOK, ChunkSizes
  <2>2. phase' = "reconnect" => outChunk \in MediaSizes
    BY <1>7 DEF SenderOK, ChunkSizes
  <2>3. phase' # "timedout"
    BY <1>7
  <2> QED  BY <1>5, <1>9, <1>10, <2>1, <2>2, <2>3 DEF SenderOK, ChunkSizes
<1>17. Bodies'
  <2>1. \A m \in Media \ popped' : m # p /\ m \in Media \ popped
    BY <1>5
  <2> QED  BY <1>3, <1>4, <1>5, <1>9, <1>10, <2>1 DEF SenderOK, Bodies
<1>18. InHand(L)'
  BY <1>9 DEF InHand
<1>19. SenderMemory'
  <2>1. p.channel \in Channel /\ p.size \in Nat /\ p.type \in Type /\ p.ts \in Int
    BY <1>4, PacketFacts
  <2>2. PICK prev : prev = [size |-> p.size, type |-> p.type, ts |-> p.ts]
    OBVIOUS
  <2>3. prev \in Memory /\ prev.size = p.size /\ prev.type = p.type /\ prev.ts = p.ts
    BY <2>1, <2>2 DEF Memory
  <2>4. prevOut \in [Channel -> Memory \cup {NONE}]
    BY DEF SenderOK, SenderMemory
  <2>5. prevOut' \in [Channel -> Memory \cup {NONE}]
    BY <1>5, <2>1, <2>2, <2>3, <2>4
  <2>6. PICK F, G : F = finished /\ G = finished'
    OBVIOUS
  <2>7. n \in 0..Len(F) /\ Longer(F, G) /\ G[n + 1] = p
    BY <1>4, <1>11, <2>6
  <2>8. ASSUME NEW c \in Channel
        PROVE  \/ First(G, n + 1, c) /\ Later
               \/ Remembers(prevOut'[c], G, n + 1, c) /\ RemembersTime(prevOut'[c], G, n + 1, c)
    <3>1. CASE c = p.channel
      <4>1. prevOut'[c] = prev
        BY <1>5, <2>1, <2>2, <2>4, <3>1
      <4>2. prev # NONE
        BY <2>3, NotNone
      <4>3. Remembers(prev, G, n + 1, c) /\ RemembersTime(prev, G, n + 1, c)
        BY <2>3, <2>7, <3>1, <4>2, RemembersLast
      <4> QED  BY <4>1, <4>3
    <3>2. CASE c # p.channel
      <4>1. prevOut'[c] = prevOut[c]
        BY <1>5, <2>4, <3>2
      <4>2. PICK v : v = prevOut[c]
        OBVIOUS
      <4>3. \/ First(F, n, c) /\ Later
            \/ Remembers(v, F, n, c) /\ RemembersTime(v, F, n, c)
        BY <1>4, <2>6, <4>2 DEF SenderOK, SenderMemory
      <4>4. /\ First(G, n, c) <=> First(F, n, c)
            /\ Remembers(v, F, n, c) <=> Remembers(v, G, n, c)
            /\ RemembersTime(v, F, n, c) <=> RemembersTime(v, G, n, c)
        BY <2>7, LastStays, MemoryStays
      <4>5. G[n + 1].channel # c
        BY <2>7, <3>2
      <4>6. /\ First(G, n + 1, c) <=> First(G, n, c)
            /\ Remembers(v, G, n, c) => Remembers(v, G, n + 1, c)
            /\ RemembersTime(v, G, n, c) => RemembersTime(v, G, n + 1, c)
        BY <4>5, LastNext, RemembersMore
      <4> QED  BY <4>1, <4>2, <4>3, <4>4, <4>6
    <3> QED  BY <3>1, <3>2
  <2> QED  BY <1>10, <1>11, <2>5, <2>6, <2>8 DEF SenderMemory
<1> QED  BY <1>4, <1>7, <1>9, <1>10, <1>11, <1>13, <1>14, <1>15, <1>16, <1>17, <1>18, <1>19
         DEF SenderOK

(* not the last: the next header is written over the byte before it *)
LEMMA OnKeepsSender ==
  ASSUME NEW L, SenderOK(L), NEW t \in Thread, WriteChunk(t),
         ChunkEnd(Sending) # Sending.packet.size
  PROVE  /\ SenderOK(L)' /\ Busy' /\ phase' = phase /\ phase \notin Failed
         /\ finished' = finished
         /\ Sending'.at = ChunkEnd(Sending)
         /\ Later' = Later /\ Shortened' = Shortened /\ Bare' = Bare
<1>1. ~Idle(t)
  BY DEF WriteChunk, Idle
<1>2. Busy /\ Sending = current[t] /\ (\A u \in Thread : u # t => Idle(u))
      /\ (t = "stream" \/ t = "api")
  BY <1>1, WhoSends
<1>3. PICK s : s = Sending
  OBVIOUS
<1>4. PICK p : p = s.packet
  OBVIOUS
<1>5. /\ s \in Send /\ p \in Sendable /\ s.at \in Nat /\ p.size \in Nat
      /\ s.chunk = outChunk /\ outChunk \in Sizes /\ phase \notin Failed
      /\ p \in Media => ~Idle("stream") /\ phase = "media" /\ p = front /\ p \notin popped
      /\ Len(L) \in Nat \ {0} /\ L[Len(L)] = p
  BY <1>2, <1>3, <1>4, BusyFacts
<1>6. PICK e \in Nat, a \in Nat : /\ e = ChunkEnd(s) /\ a = s.at /\ e = a + outChunk
                                  /\ e \in (a + 1)..p.size /\ e < p.size /\ e > a
  <2>1. PICK e : e = ChunkEnd(s)
    OBVIOUS
  <2>2. e \in (s.at + 1)..p.size /\ e # p.size /\ e = s.at + outChunk
    BY <1>2, <1>3, <1>4, <2>1, NextChunk
  <2> QED  BY <1>5, <2>1, <2>2
<1>7. p.channel \in Channel
  BY <1>5, PacketFacts
<1>8. PICK h : h = Continuation(p.channel)
  OBVIOUS
<1>9. h \in HeaderUnit /\ h \in Unit
  BY <1>7, <1>8, ContinuationFacts
<1>10. /\ current' = [current EXCEPT ![t].at = e, ![t].header = h]
       /\ body' = [m \in Media |-> IF m = p THEN [body[m] EXCEPT ![e] = h] ELSE body[m]]
       /\ UNCHANGED <<prevOut, finished, popped, front, hasSent, phase, outChunk, chunkSize,
                      headerType, receiverVars, raced, connections, apiCalls>>
  BY <1>2, <1>3, <1>4, <1>6, <1>8 DEF WriteChunk, HeaderPlace, fifoVars
<1>11. PICK s2 : s2 = [s EXCEPT !.at = e, !.header = h]
  OBVIOUS
<1>12. /\ s2 \in Send /\ s2.packet = p /\ s2.chunk = outChunk /\ s2.at = e /\ s2.header = h
       /\ s2 # NONE
  <2>1. s2 \in Send /\ s2.packet = p /\ s2.chunk = outChunk /\ s2.at = e /\ s2.header = h
    BY <1>4, <1>5, <1>6, <1>9, <1>11 DEF Send
  <2> QED  BY <2>1, NotNone
<1>13. /\ current \in [Thread -> Send \cup {NONE}] /\ connections \in Nat \ {0}
       /\ phase \in {"connect", "announce", "media", "reconnect"} \cup Failed
  BY DEF SenderOK, Turns
<1>14. current' \in [Thread -> Send \cup {NONE}]
       /\ \A u \in Thread : current'[u] = IF u = t THEN s2 ELSE NONE
  <2>1. current' = [current EXCEPT ![t] = s2]
    BY <1>2, <1>3, <1>10, <1>11, <1>13
  <2> QED  BY <1>2, <1>12, <1>13, <2>1 DEF Idle
<1>15. /\ Idle("stream")' <=> Idle("stream")
       /\ Idle("api")' <=> Idle("api")
       /\ Sending' = s2 /\ Busy'
  BY <1>1, <1>2, <1>12, <1>14 DEF Idle, Busy, Sending, Thread
<1>16. Later' = Later /\ Shortened' = Shortened /\ Bare' = Bare
  BY <1>10 DEF Later, Shortened, Bare
<1>17. Turns'
  BY <1>5, <1>10, <1>13, <1>14, <1>15 DEF SenderOK, Turns
<1>18. OnLine(L)'
  <2>1. /\ L \in Seq(Sendable) /\ finished \in Seq(Sendable)
        /\ Len(finished) <= Len(L) /\ Len(L) <= Len(finished) + 1
        /\ \A i \in 1..Len(finished) : L[i] = finished[i]
        /\ Len(L) = Len(finished) + 1
    BY <1>2 DEF SenderOK, OnLine
  <2>2. Busy' /\ Sending'.packet = L[Len(L)] /\ phase' \notin Failed
    BY <1>5, <1>10, <1>12, <1>15
  <2> QED  BY <1>10, <2>1, <2>2 DEF OnLine
<1>19. Fronts(L)'
  <2>1. ~Idle("stream") => current["stream"].packet = p /\ current'["stream"].packet = p
    <3>1. ~Idle("stream") => Sending = current["stream"] /\ Sending' = current'["stream"]
      BY <1>15 DEF Sending
    <3> QED  BY <1>3, <1>4, <1>12, <1>15, <3>1
  <2> QED  BY <1>10, <1>15, <1>16, <2>1 DEF SenderOK, Fronts
<1>20. ChunkSizes(L)'
  BY <1>10, <1>15, <1>16 DEF SenderOK, ChunkSizes
<1>21. Bodies'
  <2>1. /\ body \in [Media -> Seq(Unit)]
        /\ \A m \in Media : Len(body[m]) = m.size
        /\ \A m \in Media : \A k \in 1..m.size :
             body[m][k] = Byte(m.id, k) \/ Overwritten(body[m][k], m, k)
        /\ ~Later =>
             \A m \in Media \ popped : \A k \in 1..m.size :
                (p = m => k > a) => body[m][k] = Byte(m.id, k)
    BY <1>2, <1>3, <1>4, <1>5, <1>6 DEF SenderOK, Bodies
  <2>2. CASE p \notin Media
    <3>1. body' = body
      BY <1>10, <2>1, <2>2
    <3>2. \A m \in Media : m # p
      BY <2>2
    <3> QED  BY <1>10, <1>16, <2>1, <3>1, <3>2 DEF Bodies
  <2>3. CASE p \in Media
    <3>1. PICK b : b = [body[p] EXCEPT ![e] = h]
      OBVIOUS
    <3>2. body[p] \in Seq(Unit) /\ Len(body[p]) = p.size /\ e \in 1..p.size
      BY <1>6, <2>1, <2>3
    <3>3. /\ b \in Seq(Unit) /\ Len(b) = p.size
          /\ \A k \in 1..p.size : b[k] = IF k = e THEN h ELSE body[p][k]
      BY <1>9, <3>1, <3>2
    <3>4. \A m \in Media : body'[m] = IF m = p THEN b ELSE body[m]
      BY <1>10, <3>1
    <3>5. body' \in [Media -> Seq(Unit)] /\ \A m \in Media : Len(body'[m]) = m.size
      BY <1>10, <2>1, <3>1, <3>3
    <3>6. Overwritten(h, p, e)
      <4>1. outChunk \in MediaSizes
        BY <1>5, <2>3 DEF SenderOK, ChunkSizes
      <4>2. a % outChunk = 0
        BY <1>2, <1>3, <1>4, <1>6, <2>3 DEF SenderOK, InHand
      <4>3. e % outChunk = 0
        <5>1. PICK c \in Nat \ {0} : c = outChunk
          BY <4>1, SizeFacts
        <5> QED  BY <1>6, <4>2, <5>1, NextMultiple
      <4> QED  BY <1>6, <1>8, <2>3, <4>1, <4>3 DEF Overwritten
    <3>7. \A m \in Media : \A k \in 1..m.size :
             body'[m][k] = Byte(m.id, k) \/ Overwritten(body'[m][k], m, k)
      BY <2>1, <3>3, <3>4, <3>6
    <3>8. ~Later =>
             \A m \in Media \ popped : \A k \in 1..m.size :
                (p = m => k > e) => body'[m][k] = Byte(m.id, k)
      <4>1. \A k \in 1..p.size : k > e => k > a /\ k # e
        BY <1>5, <1>6
      <4> QED  BY <2>1, <3>3, <3>4, <4>1
    <3> QED  BY <1>10, <1>12, <1>15, <1>16, <3>5, <3>7, <3>8 DEF Bodies
  <2> QED  BY <2>2, <2>3
<1>22. InHand(L)'
  <2>1. HeadOf(h, L, Len(L), e, Bare', Later')
    BY <1>5, <1>6, <1>8 DEF HeadOf
  <2>2. p \in Media => e % outChunk = 0
    <3>1. p \in Media => a % outChunk = 0
      BY <1>2, <1>3, <1>4, <1>6 DEF SenderOK, InHand
    <3>2. PICK c \in Nat \ {0} : c = outChunk
      BY <1>5, SizesAreNat
    <3> QED  BY <1>6, <3>1, <3>2, NextMultiple
  <2>3. /\ ~Idle("stream") =>
             /\ phase \in {"connect", "reconnect"} => p = ConnectPacket
             /\ phase = "announce" => p \in Announcing
             /\ phase = "media" => front # NONE /\ p = ToSend(front)
        /\ ~Idle("api") => p \in Announcing
    BY <1>3, <1>4 DEF SenderOK, InHand
  <2>4. ToSend(front)' = ToSend(front)
    BY <1>10 DEF ToSend
  <2> QED  BY <1>6, <1>10, <1>12, <1>15, <2>1, <2>2, <2>3, <2>4 DEF InHand
<1>23. SenderMemory'
  BY <1>10, <1>16 DEF SenderOK, SenderMemory
<1> QED  BY <1>3, <1>5, <1>6, <1>10, <1>12, <1>15, <1>16, <1>17, <1>18, <1>19, <1>20,
            <1>21, <1>22, <1>23 DEF SenderOK
-----------------------------------------------------------------------------
(* A send fails; a new connection; the receiver's steps. *)

LEMMA FailKeepsSender ==
  ASSUME NEW L, SenderOK(L), NEW t \in Thread, WriteFails(t), ~raced'
  PROVE  /\ SenderOK(L)' /\ Busy /\ phase' \in Failed
         /\ Sending = current[t]
         /\ Later' = Later /\ Shortened' = Shortened /\ Bare' = Bare
<1>1. t = "stream" /\ ~Idle("stream")
  BY DEF WriteFails, Thread, Idle
<1>2. Busy /\ Sending = current[t] /\ Idle("api")
  BY <1>1, WhoSends DEF Thread
<1>3. PICK p : p = Sending.packet
  OBVIOUS
<1>4. /\ p \in Sendable /\ phase \notin Failed
      /\ p \in Media => phase = "media"
      /\ Len(L) = Len(finished) + 1 /\ L[Len(L)] = p
  BY <1>2, <1>3, BusyFacts
<1>5. /\ current' = [current EXCEPT !["stream"] = NONE]
      /\ phase' \in IF p \in Media THEN Failures ELSE {"failed"}
      /\ UNCHANGED <<front, popped, hasSent, senderVars, receiverVars, finished, connections>>
  BY <1>1, <1>2, <1>3 DEF WriteFails, fifoVars
<1>6. phase' \in Failed /\ (phase' = "timedout" => phase = "media")
  BY <1>4, <1>5, ChunkAssumption DEF Failed
<1>7. /\ current' \in [Thread -> Send \cup {NONE}]
      /\ Idle("stream")' /\ Idle("api")' /\ ~Busy'
  <2>1. current \in [Thread -> Send \cup {NONE}]
    BY DEF SenderOK, Turns
  <2>2. current' \in [Thread -> Send \cup {NONE}]
        /\ current'["stream"] = NONE /\ current'["api"] = NONE
    BY <1>2, <1>5, <2>1 DEF Idle, Thread
  <2> QED  BY <2>2 DEF Idle, Busy, Sending
<1>8. Later' = Later /\ Shortened' = Shortened /\ Bare' = Bare
  BY <1>5 DEF Later, Shortened, Bare, senderVars
<1>9. Turns'
  BY <1>5, <1>6, <1>7 DEF SenderOK, Turns, Failed
<1>10. OnLine(L)'
  <2>1. \/ p \in {ConnectPacket} \cup Announcing
        \/ front # NONE /\ p = ToSend(front)
    BY <1>1, <1>3, <1>4 DEF SenderOK, Turns, InHand
  <2>2. ToSend(front)' = ToSend(front) /\ front' = front
    BY <1>5 DEF ToSend
  <2> QED  BY <1>4, <1>5, <1>6, <1>7, <2>1, <2>2 DEF SenderOK, OnLine
<1>11. Fronts(L)'
  BY <1>5, <1>6 DEF SenderOK, Fronts, senderVars
<1>12. ChunkSizes(L)'
  <2>1. phase' = "failed" \/ phase' = "timedout"
    BY <1>6 DEF Failed
  <2> QED  BY <1>5, <1>6, <1>8, <2>1 DEF SenderOK, ChunkSizes, senderVars
<1>13. Bodies'
  BY <1>5, <1>6 DEF SenderOK, Bodies, senderVars
<1>14. InHand(L)'
  BY <1>7 DEF InHand
<1>15. SenderMemory'
  BY <1>5, <1>8 DEF SenderOK, SenderMemory, senderVars
<1> QED  BY <1>2, <1>6, <1>8, <1>9, <1>10, <1>11, <1>12, <1>13, <1>14, <1>15 DEF SenderOK

LEMMA NothingOnEmpty ==
  ASSUME NEW L, L = <<>>
  PROVE  /\ Len(L) = 0 /\ L \in Seq(Sendable) /\ ~Told(L, 0) /\ SizeAt(Default, L, 0)
         /\ \A c : First(L, 0, c)
         /\ 1..0 = {}
<1>1. Len(L) = 0 /\ L \in Seq(Sendable) /\ 1..0 = {}
  BY EmptySeq
<1> QED  BY <1>1 DEF Told, SizeAt, First

LEMMA ConnectStartsSender ==
  ASSUME NEW L, SenderOK(L), CloseAndConnect \/ ReconnectSocket
  PROVE  /\ SenderOK(<<>>)' /\ finished' = <<>> /\ phase' \notin Failed /\ ~Busy'
         /\ wire' = <<>> /\ FreshReceiver
<1>1. /\ phase \in Failed /\ phase' \in {"connect", "reconnect"}
      /\ phase' = "reconnect" => phase = "timedout"
      /\ prevOut' = prevOut \/ prevOut' = [c \in Channel |-> NONE]
      /\ hasSent' = hasSent \/ hasSent' = {}
      /\ connections' = connections + 1
      /\ wire' = <<>> /\ finished' = <<>> /\ FreshReceiver
      /\ UNCHANGED <<current, front, popped, outChunk, chunkSize, body, headerType>>
  BY DEF CloseAndConnect, ReconnectSocket, NewConnection, Failed, fifoVars
<1>2. /\ current \in [Thread -> Send \cup {NONE}] /\ connections \in Nat \ {0}
      /\ Idle("stream") /\ Idle("api") /\ ~Busy
  BY <1>1, NotBusy DEF SenderOK, Turns
<1>3. Idle("stream")' /\ Idle("api")' /\ ~Busy' /\ phase' \notin Failed /\ Later'
  BY <1>1, <1>2 DEF Idle, Busy, Sending, Later, Failed
<1>4. PICK E : E = <<>>
  OBVIOUS
<1>5. /\ Len(E) = 0 /\ E \in Seq(Sendable) /\ ~Told(E, 0) /\ SizeAt(Default, E, 0)
      /\ \A c : First(E, 0, c)
      /\ 1..0 = {}
  BY <1>4, NothingOnEmpty
<1>6. Turns'
  BY <1>1, <1>2, <1>3 DEF Turns
<1>7. OnLine(E)'
  BY <1>1, <1>3, <1>4, <1>5 DEF OnLine
<1>8. Fronts(E)'
  BY <1>1, <1>3, <1>5 DEF SenderOK, Fronts
<1>9. ChunkSizes(E)'
  <2>1. \A n \in 0..0 : \E v \in Sizes : SizeAt(v, E, n)
    BY <1>5, SizeFacts
  <2> QED  BY <1>1, <1>3, <1>5, <2>1 DEF SenderOK, ChunkSizes
<1>10. Bodies'
  BY <1>1, <1>3 DEF SenderOK, Bodies
<1>11. InHand(E)'
  BY <1>3 DEF InHand
<1>12. SenderMemory'
  <2>1. prevOut \in [Channel -> Memory \cup {NONE}]
    BY DEF SenderOK, SenderMemory
  <2>2. prevOut' \in [Channel -> Memory \cup {NONE}]
    BY <1>1, <2>1
  <2> QED  BY <1>1, <1>3, <1>4, <1>5, <2>2 DEF SenderMemory
<1>13. SenderOK(E)'
  BY <1>6, <1>7, <1>8, <1>9, <1>10, <1>11, <1>12 DEF SenderOK
<1> QED  BY <1>1, <1>3, <1>4, <1>13

LEMMA SenderStays ==
  ASSUME NEW L, SenderOK(L),
         UNCHANGED <<phase, current, front, popped, hasSent, senderVars, finished, connections>>
  PROVE  /\ SenderOK(L)' /\ (Busy' <=> Busy) /\ SentOf' = SentOf
         /\ Later' = Later /\ Shortened' = Shortened /\ Bare' = Bare
<1>1. /\ Idle("stream")' <=> Idle("stream")
      /\ Idle("api")' <=> Idle("api")
      /\ Sending' = Sending /\ (Busy' <=> Busy) /\ SentOf' = SentOf
      /\ Later' = Later /\ Shortened' = Shortened /\ Bare' = Bare
  BY DEF Idle, Sending, Busy, SentOf, Later, Shortened, Bare, senderVars
<1>2. Turns'
  BY <1>1 DEF SenderOK, Turns
<1>3. OnLine(L)'
  BY <1>1 DEF SenderOK, OnLine, ToSend
<1>4. Fronts(L)'
  BY <1>1 DEF SenderOK, Fronts, senderVars
<1>5. ChunkSizes(L)'
  BY <1>1 DEF SenderOK, ChunkSizes, senderVars
<1>6. Bodies'
  BY <1>1 DEF SenderOK, Bodies, senderVars
<1>7. InHand(L)'
  BY <1>1 DEF SenderOK, InHand, StaleOn, ToSend, senderVars
<1>8. SenderMemory'
  BY <1>1 DEF SenderOK, SenderMemory, senderVars
<1> QED  BY <1>1, <1>2, <1>3, <1>4, <1>5, <1>6, <1>7, <1>8 DEF SenderOK

LEMMA SenderStarts ==
  ASSUME Init
  PROVE  SenderOK(<<>>) /\ ~Busy /\ phase \notin Failed
<1>1. /\ phase = "connect" /\ connections = 1 /\ finished = <<>>
      /\ outChunk = Default /\ chunkSize = ClientChunk /\ front = NONE
      /\ popped = {} /\ hasSent = {}
      /\ current = [t \in Thread |-> NONE] /\ prevOut = [c \in Channel |-> NONE]
      /\ body = [m \in Media |-> Intact(m)]
      /\ headerType = [m \in Media |-> IF m.large THEN LARGE ELSE MEDIUM]
  BY DEF Init
<1>2. Idle("stream") /\ Idle("api") /\ ~Busy /\ ~Later
  BY <1>1 DEF Idle, Busy, Sending, Later, Thread
<1>3. PICK E : E = <<>>
  OBVIOUS
<1>4. /\ Len(E) = 0 /\ E \in Seq(Sendable) /\ ~Told(E, 0) /\ SizeAt(Default, E, 0)
      /\ \A c : First(E, 0, c)
      /\ 1..0 = {}
  BY <1>3, NothingOnEmpty
<1>5. Turns
  BY <1>1, <1>2 DEF Turns, Failed
<1>6. OnLine(E)
  BY <1>1, <1>2, <1>3, <1>4 DEF OnLine, Failed
<1>7. Fronts(E)
  <2>1. ASSUME NEW m \in Media
        PROVE  /\ headerType[m] \in 0..3 /\ (headerType[m] = LARGE <=> m.large)
               /\ headerType[m] <= MEDIUM
    <3>1. m.large \in BOOLEAN
      BY MediaFacts
    <3> QED  BY <1>1, <3>1, Types
  <2> QED  BY <1>1, <2>1 DEF Fronts
<1>8. ChunkSizes(E)
  <2>1. \A n \in 0..0 : \E v \in Sizes : SizeAt(v, E, n)
    BY <1>4, SizeFacts
  <2> QED  BY <1>1, <1>2, <1>4, <2>1, SizeFacts DEF ChunkSizes
<1>9. Bodies
  <2>1. ASSUME NEW m \in Media
        PROVE  /\ body[m] \in Seq(Unit) /\ Len(body[m]) = m.size
               /\ \A k \in 1..m.size : body[m][k] = Byte(m.id, k)
    <3>1. m \in Sendable /\ m \notin Announcing
      BY MediaFacts, SetUpFacts
    <3> QED  BY <1>1, <3>1, IntactFacts
  <2> QED  BY <1>1, <1>2, <2>1 DEF Bodies
<1>10. InHand(E)
  BY <1>2 DEF InHand
<1>11. SenderMemory
  BY <1>1, <1>3, <1>4 DEF SenderMemory, Remembers, RemembersTime
<1> QED  BY <1>1, <1>2, <1>3, <1>5, <1>6, <1>7, <1>8, <1>9, <1>10, <1>11
         DEF SenderOK, Failed
-----------------------------------------------------------------------------
(* What the sender does leaves the receiver where it is. *)

LEMMA ReceiverStays ==
  ASSUME NEW L, NEW L2, Longer(L, L2), NEW q, NEW S, NEW S2, S \subseteq S2, NEW later,
         Receives(q, L, later), Times(q, L, S, later), Len(delivered) <= Len(L),
         UNCHANGED receiverVars
  PROVE  Receives(q, L2, later)' /\ Times(q, L2, S2, later)'
<1>1. PICK d \in Nat : d = Len(delivered)
  BY DEF Receives
<1>2. /\ d \in 0..Len(L) /\ (\A i \in 1..d : L2[i] = L[i])
      /\ Len(L) \in Nat /\ Len(L2) \in Nat /\ Len(L) <= Len(L2)
  BY <1>1 DEF Longer
<1>3. q.pk = d + 1 /\ (q.at > 0 => q.pk \in 1..Len(L) /\ L2[q.pk] = L[q.pk])
  BY <1>1 DEF Receives, Longer
<1>4. UNCHANGED <<inChunk, prevIn, channelTs, delivered, lostSync>>
  BY DEF receiverVars
<1>5. \A v : SizeAt(v, L, d) => SizeAt(v, L2, d)
  BY <1>2, SizeStays
<1>6. \A c, prev : Remembers(prev, L, d, c) => Remembers(prev, L2, d, c)
  BY <1>2, MemoryStays
<1>7. ASSUME NEW c \in Channel
      PROVE  IF q.at > 0 /\ c = L2[q.pk].channel
             THEN Partly(prevIn[c], L2[q.pk], q.at, later)
             ELSE /\ Remembers(prevIn[c], L2, d, c)
                  /\ prevIn[c] # NONE => prevIn[c].body = <<>>
  BY <1>1, <1>3, <1>6 DEF Receives
<1>8. Receives(q, L2, later)'
  <2>1. \A i \in 1..d : GivenAs(delivered[i], L2[i], later)
    BY <1>1, <1>2 DEF Receives
  <2>2. SizeAt(inChunk, L2, d)
    BY <1>1, <1>5 DEF Receives
  <2>3. q.at > 0 => q.pk <= Len(L2)
    BY <1>2, <1>3
  <2> QED  BY <1>1, <1>4, <1>7, <2>1, <2>2, <2>3 DEF Receives
<1>9. \A c : First(L2, d, c) <=> First(L, d, c)
  BY <1>2, LastStays
<1>10. \A j, c : LastOn(L2, j, d, c) <=> LastOn(L, j, d, c)
  BY <1>2, LastStays
<1>11. ASSUME NEW c \in Channel
       PROVE  IF q.at > 0 /\ c = L2[q.pk].channel
              THEN Clocked(prevIn[c], L2[q.pk], L2, d, S2, later)
              ELSE prevIn[c] # NONE => prevIn[c].abs = FALSE
  <2>1. CASE q.at > 0 /\ c = L[q.pk].channel
    <3>1. Clocked(prevIn[c], L[q.pk], L, d, S, later)
      BY <1>1, <2>1 DEF Times
    <3>2. PICK in, p : in = prevIn[c] /\ p = L[q.pk]
      OBVIOUS
    <3>3. Clocked(in, p, L2, d, S2, later)
      BY <1>2, <3>1, <3>2, DueStays DEF Clocked
    <3> QED  BY <1>3, <2>1, <3>2, <3>3
  <2>2. CASE ~(q.at > 0 /\ c = L[q.pk].channel)
    BY <1>3, <2>2 DEF Times
  <2> QED  BY <2>1, <2>2
<1>12. ASSUME NEW j \in 1..d, LastOn(L2, j, d, L2[j].channel)
       PROVE  channelTs[L2[j].channel] = delivered[j].ts
  BY <1>1, <1>2, <1>10, <1>12 DEF Times
<1>13. ASSUME NEW i \in 1..d, delivered[i].ts # L2[i].ts
       PROVE  Excused(L2, i, S2, later)
  <2>1. i \in 1..Len(L) /\ L2[i] = L[i]
    BY <1>2
  <2>2. Excused(L, i, S, later)
    BY <1>1, <1>13, <2>1 DEF Times
  <2> QED  BY <2>1, <2>2, ExcuseStays
<1>14. \A c \in Channel : First(L2, d, c) => channelTs[c] = 0
  BY <1>1, <1>9 DEF Times
<1>15. Times(q, L2, S2, later)'
  BY <1>1, <1>4, <1>11, <1>12, <1>13, <1>14 DEF Times
<1> QED  BY <1>8, <1>15

LEMMA Beyond ==
  ASSUME NEW a \in Int, NEW x \in Int, NEW y \in Int, NEW z \in Int, a + x = y
  PROVE  a + (x + z) = y + z
OBVIOUS

LEMMA UnreadMore ==
  ASSUME NEW q \in Place, NEW W \in Seq(Unit), Unread(q, W), NEW u \in Seq(Unit),
         wire' = wire \o u, NEW W2, W2 = W \o u
  PROVE  Unread(q, W2)'
<1>1. PICK b \in Nat : b = q.off
  BY DEF Place
<1>2. PICK w \in Seq(Unit) : w = wire
  BY DEF Unread
<1>3. /\ b + Len(w) = Len(W) /\ Len(w) \in Nat /\ Len(W) \in Nat /\ Len(u) \in Nat
      /\ \A j \in 1..Len(w) : w[j] = W[b + j]
  BY <1>1, <1>2 DEF Unread
<1>4. PICK w2 : w2 = w \o u
  OBVIOUS
<1>5. /\ w2 \in Seq(Unit) /\ Len(w2) = Len(w) + Len(u)
      /\ \A j \in 1..Len(w) : w2[j] = w[j]
      /\ \A j \in 1..Len(u) : w2[Len(w) + j] = u[j]
  BY <1>4, LongerConcat DEF Longer
<1>6. /\ Len(W2) = Len(W) + Len(u)
      /\ \A j \in 1..Len(W) : W2[j] = W[j]
      /\ \A j \in 1..Len(u) : W2[Len(W) + j] = u[j]
  BY LongerConcat DEF Longer
<1>7. ASSUME NEW j \in 1..Len(w2) PROVE w2[j] = W2[b + j]
  <2>1. CASE j \in 1..Len(w)
    <3>1. b + j \in 1..Len(W)
      BY <1>3, <2>1
    <3> QED  BY <1>3, <1>5, <1>6, <2>1, <3>1
  <2>2. CASE j \notin 1..Len(w)
    <3>1. PICK i \in 1..Len(u) : j = Len(w) + i
      <4>1. j - Len(w) \in 1..Len(u) /\ j = Len(w) + (j - Len(w))
        BY <1>3, <1>5, <2>2
      <4> QED  BY <4>1
    <3>2. b + j = Len(W) + i
      <4>1. PICK x \in Nat, y \in Nat : x = Len(w) /\ y = Len(W) /\ b + x = y
        BY <1>1, <1>3
      <4>2. i \in Int
        BY <1>3, <3>1
      <4>3. b + (x + i) = y + i
        <5>1. b \in Int
          BY <1>1
        <5>2. x \in Int /\ y \in Int
          BY <4>1
        <5>3. b + x = y
          BY <4>1
        <5> QED  BY <4>2, <5>1, <5>2, <5>3, Beyond
      <4>4. b + j = b + (x + i)
        BY <3>1, <4>1
      <4> QED  BY <4>1, <4>3, <4>4
    <3> QED  BY <1>5, <1>6, <3>1, <3>2
  <2> QED  BY <2>1, <2>2
<1>8. b + Len(w2) = Len(W2)
  <2>1. PICK x \in Nat, y \in Nat, z \in Nat : /\ x = Len(w) /\ y = Len(W) /\ z = Len(u)
                                               /\ b + x = y
    BY <1>3
  <2>2. b + (x + z) = y + z
    <3>1. b \in Int
      BY <1>1
    <3>2. x \in Int /\ y \in Int /\ z \in Int
      BY <2>1
    <3>3. b + x = y
      BY <2>1
    <3> QED  BY <3>1, <3>2, <3>3, Beyond
  <2> QED  BY <1>5, <1>6, <2>1, <2>2
<1>9. wire' = w2
  BY <1>2, <1>4
<1> QED  BY <1>1, <1>5, <1>7, <1>8, <1>9 DEF Unread

(* the places of the stream *)
LEMMA CutFacts ==
  ASSUME NEW C, NEW L, NEW W, NEW N \in Nat, NEW S, NEW later, Cuts(C, L, W, N, S, later)
  PROVE  /\ C \in Seq(Place) /\ Len(C) \in Nat \ {0} /\ Len(C) \in 1..Len(C)
         /\ \A k \in 1..Len(C) : /\ C[k] \in Place /\ C[k].pk \in 1..(N + 1)
                                 /\ C[k].at \in Nat /\ C[k].off \in Nat
<1>1. /\ C \in Seq(Place) /\ Len(C) \in Nat \ {0} /\ Len(C) \in 1..Len(C)
      /\ \A k \in 1..Len(C) : C[k].pk <= N + 1
  BY DEF Cuts
<1>2. \A k \in 1..Len(C) : C[k] \in Place
  BY <1>1, ElementOfSeq
<1>3. \A q \in Place : /\ q.pk \in Nat \ {0} /\ q.at \in Nat /\ q.off \in Nat
                       /\ q.pk <= N + 1 => q.pk \in 1..(N + 1)
  BY DEF Place
<1> QED  BY <1>1, <1>2, <1>3

LEMMA CutsMore ==
  ASSUME NEW C, NEW L, NEW W, NEW N \in Nat, NEW S, NEW later, Cuts(C, L, W, N, S, later),
         NEW r \in Place, r.pk <= N + 1, Link(C[Len(C)], r, L, W, S, later)
  PROVE  /\ Cuts(Append(C, r), L, W, N, S, later)
         /\ Len(Append(C, r)) = Len(C) + 1 /\ Append(C, r)[Len(C) + 1] = r
         /\ \A k \in 1..Len(C) : k \in 1..(Len(C) + 1) /\ Append(C, r)[k] = C[k]
<1>1. PICK n, D : n \in Nat \ {0} /\ n = Len(C) /\ D = Append(C, r)
  BY CutFacts
<1>2. /\ C \in Seq(Place)
      /\ \A k \in 1..n : C[k].pk <= N + 1
      /\ \A k \in 1..(n - 1) : Link(C[k], C[k + 1], L, W, S, later)
  BY <1>1 DEF Cuts
<1>3. /\ D \in Seq(Place) /\ Len(D) = n + 1 /\ D[n + 1] = r
      /\ \A k \in 1..n : D[k] = C[k]
  BY <1>1, <1>2, LongerAppend DEF Longer
<1>4. ASSUME NEW k \in 1..(n + 1) PROVE D[k].pk <= N + 1
  <2>1. k \in 1..n \/ k = n + 1
    BY <1>1
  <2> QED  BY <1>2, <1>3, <2>1
<1>5. ASSUME NEW k \in 1..((n + 1) - 1) PROVE Link(D[k], D[k + 1], L, W, S, later)
  <2>1. CASE k = n
    BY <1>1, <1>3, <2>1
  <2>2. CASE k # n
    <3>1. k \in 1..(n - 1) /\ k \in 1..n /\ k + 1 \in 1..n
      BY <1>1, <2>2
    <3> QED  BY <1>2, <1>3, <3>1
  <2> QED  BY <2>1, <2>2
<1>6. Cuts(D, L, W, N, S, later)
  BY <1>1, <1>3, <1>4, <1>5 DEF Cuts
<1>7. \A k \in 1..n : k \in 1..(n + 1)
  BY <1>1
<1> QED  BY <1>1, <1>3, <1>6, <1>7

LEMMA BeginInStep ==
  ASSUME NEW L, SenderOK(L), InStep(L), NEW t, NEW p, NEW h, Begins(t, p, h),
         Fits(h, p, L, Len(L), Bare', Later),
         NEW L2, L2 = Append(L, p)
  PROVE  InStep(L2)'
<1>1. PICK S, S2, later, N : /\ S = Bare /\ S2 = Bare' /\ later = Later
                             /\ N = Len(finished)
  OBVIOUS
<1>2. /\ Busy' /\ Later' = later /\ S \subseteq S2 /\ Sending'.at = 0
  <2>1. Sending' = [packet |-> p, chunk |-> outChunk', at |-> 0, header |-> h]
        /\ Busy' /\ Later' = Later /\ Bare \subseteq Bare'
    BY <1>1, BeginSends
  <2> QED  BY <1>1, <2>1
<1>3. /\ p \in Sendable /\ phase \notin Failed /\ ~Busy
      /\ UNCHANGED <<phase, wire, receiverVars, finished>>
  BY DEF Begins
<1>4. N \in Nat /\ N = Len(L) /\ L \in Seq(Sendable)
  BY <1>1, <1>3, LineFacts
<1>5. Longer(L, L2)
  BY <1>3, <1>4, LongerAppend
<1>6. PICK W, C : /\ W \in Seq(Unit) /\ Cuts(C, L, W, N, S, later)
                  /\ SentTo(C[Len(C)], L, W)
                  /\ \E x \in 1..Len(C) : ReadTo(C[x], L, W)
  BY <1>1 DEF InStep
<1>7. PICK x \in 1..Len(C) : ReadTo(C[x], L, W)
  BY <1>6
<1>8. Cuts(C, L2, W, N, S2, later)
  <2>1. Longer(W, W) /\ N <= N
    BY <1>4, LongerSelf
  <2> QED  BY <1>2, <1>4, <1>5, <1>6, <2>1, CutsStay
<1>9. SentTo(C[Len(C)], L2, W)'
  <2>1. SentOf = 0 /\ SentOf' = 0
    BY <1>2, <1>3 DEF SentOf
  <2>2. PICK q : q = C[Len(C)]
    OBVIOUS
  <2>3. SentTo(q, L2, W)'
    BY <1>3, <1>6, <2>1, <2>2 DEF SentTo
  <2> QED  BY <2>2, <2>3
<1>10. ReadTo(C[x], L2, W)'
  <2>1. PICK q : q = C[x]
    OBVIOUS
  <2>2. q.pk \in 1..(N + 1)
    BY <1>4, <1>6, <2>1, CutFacts
  <2>3. Receives(q, L, later) /\ Times(q, L, S, later) /\ Unread(q, W)
    BY <1>1, <1>7, <2>1 DEF ReadTo
  <2>4. Len(delivered) <= Len(L)
    BY <1>4, <2>2, <2>3 DEF Receives
  <2>5. Receives(q, L2, later)' /\ Times(q, L2, S2, later)'
    BY <1>2, <1>3, <1>5, <2>3, <2>4, ReceiverStays
  <2>6. Unread(q, W)'
    BY <1>3, <2>3 DEF Unread
  <2>7. ReadTo(q, L2, W)'
    BY <1>1, <1>2, <2>5, <2>6 DEF ReadTo
  <2> QED  BY <2>1, <2>7
<1>11. Len(finished') = N /\ Bare' = S2
  BY <1>1, <1>3
<1> QED  BY <1>2, <1>6, <1>7, <1>8, <1>9, <1>10, <1>11 DEF InStep

(* the chunk written goes from where the sender was to where it is now *)
LEMMA NextLink ==
  ASSUME NEW L, SenderOK(L), Busy, ~(Later /\ Apart(L)), ~StaleOn(L),
         NEW q \in Place, q.pk = Len(finished) + 1, q.at = Sending.at,
         NEW W \in Seq(Unit), q.off = Len(W),
         NEW W2, W2 = W \o ChunkUnits(Sending),
         NEW r \in Place, r.off = Len(W2),
         IF ChunkEnd(Sending) = Sending.packet.size THEN r.pk = q.pk + 1 /\ r.at = 0
         ELSE r.pk = q.pk /\ r.at = ChunkEnd(Sending)
  PROVE  Link(q, r, L, W2, Bare, Later)
<1>1. PICK s : s = Sending
  OBVIOUS
<1>2. PICK p, e, u : p = s.packet /\ e = ChunkEnd(s) /\ u = ChunkUnits(s)
  OBVIOUS
<1>3. PICK i \in Nat : /\ i = q.pk /\ i = Len(L) /\ i \in 1..Len(L) /\ L[i] = p
                       /\ s.at \in Nat /\ s.at < p.size
  BY <1>1, <1>2, BusyFacts
<1>4. PICK a \in Nat : a = q.at /\ a = s.at
  BY <1>1, <1>3
<1>5. /\ e \in (a + 1)..p.size /\ p.size \in Nat
      /\ u \in Seq(Unit) /\ Len(u) = 1 + (e - a) /\ u[1] = s.header
      /\ \A j \in 1..(e - a) : MayBe(u[1 + j], p, a + j, Later)
  BY <1>1, <1>2, <1>4, NextChunk, BusyFacts
<1>6. e \in Nat /\ e > a
  <2>1. PICK z \in Nat : z = p.size
    BY <1>5
  <2>2. e \in (a + 1)..z
    BY <1>5, <2>1
  <2> QED  BY <1>4, <2>1, <2>2
<1>7. PICK b \in Nat : b = q.off /\ b = Len(W)
  OBVIOUS
<1>8. /\ Len(W2) = b + Len(u)
      /\ \A j \in 1..Len(u) : W2[b + j] = u[j]
  <2>1. u \in Seq(Unit) /\ W2 = W \o u
    BY <1>1, <1>2, <1>5
  <2>2. /\ Len(W \o u) = Len(W) + Len(u)
        /\ \A j \in 1..Len(u) : (W \o u)[Len(W) + j] = u[j]
    BY <2>1, LongerConcat
  <2> QED  BY <1>7, <2>1, <2>2
<1>9. W2[b + 1] = s.header
  <2>1. 1 \in 1..Len(u)
    BY <1>4, <1>5, <1>6
  <2> QED  BY <1>5, <1>8, <2>1
<1>10. ASSUME NEW j \in 1..(e - a) PROVE MayBe(W2[b + 1 + j], L[i], a + j, Later)
  <2>1. 1 + j \in 1..Len(u) /\ b + (1 + j) = b + 1 + j
    BY <1>4, <1>5, <1>6, <1>7
  <2>2. W2[b + 1 + j] = u[1 + j]
    BY <1>8, <2>1
  <2> QED  BY <1>3, <1>5, <2>2
<1>11. HeadOf(W2[b + 1], L, i, a, Bare, Later)
  BY <1>1, <1>3, <1>4, <1>9 DEF SenderOK, InHand
<1>12. Ends(e, L, i, a)
  BY <1>1, <1>2, <1>3, <1>4, SameEnd
<1>13. r.off = b + 1 + (e - a) /\ r.off <= Len(W2)
  <2>1. Len(W2) = b + (1 + (e - a))
    BY <1>5, <1>8
  <2>2. b + (1 + (e - a)) = b + 1 + (e - a)
    <3>1. b \in Int
      BY <1>7
    <3>2. e - a \in Int
      BY <1>4, <1>6
    <3> QED  BY <3>1, <3>2
  <2>3. r.off \in Nat
    BY DEF Place
  <2> QED  BY <2>1, <2>2, <2>3
<1>14. IF e = L[i].size THEN r.pk = i + 1 /\ r.at = 0 ELSE r.pk = i /\ r.at = e
  BY <1>1, <1>2, <1>3
<1>15. i \in 1..Len(L) /\ a < L[i].size
  BY <1>3, <1>4
<1> QED  BY <1>3, <1>4, <1>6, <1>7, <1>10, <1>11, <1>12, <1>13, <1>14, <1>15 DEF Link

(* the receiver's part of InStep, when units are added to the stream *)
LEMMA ReadToStays ==
  ASSUME NEW L, SenderOK(L), NEW q \in Place, q.pk <= Len(finished) + 1,
         NEW W \in Seq(Unit), ReadTo(q, L, W), NEW u \in Seq(Unit), wire' = wire \o u,
         NEW W2, W2 = W \o u, UNCHANGED receiverVars,
         Later' = Later, Bare' = Bare
  PROVE  ReadTo(q, L, W2)'
<1>1. PICK S, later : S = Bare /\ later = Later
  OBVIOUS
<1>2. Receives(q, L, later) /\ Times(q, L, S, later) /\ Unread(q, W)
  BY <1>1 DEF ReadTo
<1>3. Len(delivered) <= Len(L) /\ Longer(L, L)
  BY <1>2, LineFacts, LongerSelf DEF Receives
<1>4. Receives(q, L, later)' /\ Times(q, L, S, later)'
  BY <1>2, <1>3, ReceiverStays
<1>5. Unread(q, W2)'
  BY <1>2, UnreadMore
<1> QED  BY <1>1, <1>4, <1>5 DEF ReadTo

LEMMA WriteInStep ==
  ASSUME NEW L, SenderOK(L), ~(Later /\ Apart(L)), ~StaleOn(L), InStep(L),
         NEW t \in Thread, WriteChunk(t)
  PROVE  InStep(L)'
<1>1. PICK s : s = Sending
  OBVIOUS
<1>2. Busy /\ s = current[t] /\ phase \notin Failed
  <2>1. ~Idle(t)
    BY DEF WriteChunk, Idle
  <2>2. Busy /\ Sending = current[t]
    BY <2>1, WhoSends
  <2> QED  BY <1>1, <2>2, BusyFacts
<1>3. PICK e, u : e = ChunkEnd(s) /\ u = ChunkUnits(s)
  OBVIOUS
<1>4. PICK N \in Nat : N = Len(finished)
  BY LineFacts
<1>5. PICK S, later : S = Bare /\ later = Later
  OBVIOUS
<1>6. PICK W, C : /\ W \in Seq(Unit) /\ Cuts(C, L, W, N, S, later)
                  /\ SentTo(C[Len(C)], L, W)
                  /\ \E x \in 1..Len(C) : ReadTo(C[x], L, W)
  BY <1>4, <1>5 DEF InStep
<1>7. PICK x \in 1..Len(C) : ReadTo(C[x], L, W)
  BY <1>6
<1>8. PICK q, n : q = C[Len(C)] /\ n = Len(C)
  OBVIOUS
<1>9. q \in Place /\ n \in Nat \ {0} /\ x \in 1..n /\ C[x] \in Place /\ C[x].pk <= N + 1
  BY <1>4, <1>6, <1>7, <1>8, CutFacts
<1>10. q.pk = N + 1 /\ q.at = s.at /\ q.off = Len(W)
  BY <1>1, <1>2, <1>4, <1>6, <1>8 DEF SentTo, SentOf
<1>11. /\ u \in Seq(Unit) /\ wire' = wire \o u /\ UNCHANGED receiverVars
       /\ e \in (s.at + 1)..s.packet.size /\ s.at \in Nat /\ s.packet.size \in Nat
  BY <1>1, <1>2, <1>3, NextChunk, BusyFacts DEF WriteChunk
<1>12. PICK W2 : W2 = W \o u
  OBVIOUS
<1>13. W2 \in Seq(Unit) /\ Longer(W, W2) /\ Len(W2) \in Nat /\ e \in Nat
  BY <1>6, <1>11, <1>12, LongerConcat
<1>14. PICK r : r = [pk |-> IF e = s.packet.size THEN N + 2 ELSE N + 1,
                     at |-> IF e = s.packet.size THEN 0 ELSE e, off |-> Len(W2)]
  OBVIOUS
<1>15. /\ r \in Place /\ r.off = Len(W2)
       /\ IF e = s.packet.size THEN r.pk = N + 2 /\ r.at = 0
          ELSE r.pk = N + 1 /\ r.at = e
  BY <1>4, <1>13, <1>14 DEF Place
<1>16. (N + 1) + 1 = N + 2
  BY <1>4
<1>17. Link(q, r, L, W2, S, later)
  BY <1>1, <1>2, <1>3, <1>4, <1>5, <1>6, <1>9, <1>10, <1>12, <1>15, <1>16, NextLink
<1>18. PICK N2 \in Nat : /\ N2 = Len(finished') /\ N <= N2 /\ r.pk = N2 + 1
                         /\ r.at = SentOf' /\ phase' \notin Failed
                         /\ Later' = later /\ Bare' = S
  <2>1. CASE e = s.packet.size
    <3>1. /\ ~Busy' /\ phase' \notin Failed /\ Len(finished') = Len(finished) + 1
          /\ Later' = Later /\ Shortened' = Shortened /\ Bare' = Bare
      BY <1>1, <1>3, <2>1, OutKeepsSender
    <3>2. SentOf' = 0
      BY <3>1 DEF SentOf
    <3>3. Len(finished') = N + 1 /\ N + 1 \in Nat /\ N <= N + 1
      BY <1>4, <3>1
    <3> QED  BY <1>5, <1>15, <1>16, <2>1, <3>1, <3>2, <3>3
  <2>2. CASE e # s.packet.size
    <3>1. /\ Busy' /\ phase' = phase /\ finished' = finished
          /\ Sending'.at = ChunkEnd(Sending)
          /\ Later' = Later /\ Shortened' = Shortened /\ Bare' = Bare
      BY <1>1, <1>3, <2>2, OnKeepsSender
    <3>2. SentOf' = e
      BY <1>1, <1>3, <3>1 DEF SentOf
    <3> QED  BY <1>2, <1>4, <1>5, <1>15, <2>2, <3>1, <3>2
  <2> QED  BY <2>1, <2>2
<1>19. Cuts(C, L, W2, N2, S, later)
  <2>1. Longer(L, L) /\ S \subseteq S
    BY LineFacts, LongerSelf
  <2> QED  BY <1>6, <1>13, <1>18, <2>1, CutsStay
<1>20. PICK D : D = Append(C, r)
  OBVIOUS
<1>21. /\ Cuts(D, L, W2, N2, S, later) /\ Len(D) = n + 1 /\ D[n + 1] = r
       /\ x \in 1..(n + 1) /\ D[x] = C[x]
  <2>1. r.pk <= N2 + 1
    BY <1>18
  <2>2. Link(C[Len(C)], r, L, W2, S, later)
    BY <1>8, <1>9, <1>17
  <2>3. /\ Cuts(Append(C, r), L, W2, N2, S, later)
        /\ Len(Append(C, r)) = Len(C) + 1 /\ Append(C, r)[Len(C) + 1] = r
        /\ \A k \in 1..Len(C) : k \in 1..(Len(C) + 1) /\ Append(C, r)[k] = C[k]
    BY <1>15, <1>18, <1>19, <2>1, <2>2, CutsMore
  <2> QED  BY <1>8, <1>9, <1>20, <2>3
<1>22. SentTo(r, L, W2)'
  BY <1>15, <1>18 DEF SentTo
<1>23. ReadTo(D[x], L, W2)'
  <2>1. PICK y : y = C[x]
    OBVIOUS
  <2>2. ReadTo(y, L, W2)'
    BY <1>4, <1>5, <1>6, <1>7, <1>9, <1>11, <1>12, <1>18, <2>1, ReadToStays
  <2> QED  BY <1>21, <2>1, <2>2
<1> QED  BY <1>13, <1>18, <1>21, <1>22, <1>23 DEF InStep

LEMMA FailInStep ==
  ASSUME NEW L, SenderOK(L), ~(Later /\ Apart(L)), ~StaleOn(L), InStep(L),
         NEW t \in Thread, WriteFails(t), ~raced'
  PROVE  InStep(L)'
<1>1. PICK s : s = Sending
  OBVIOUS
<1>2. /\ Busy /\ s = current[t] /\ phase \notin Failed /\ phase' \in Failed
      /\ Later' = Later /\ Shortened' = Shortened /\ Bare' = Bare
  BY <1>1, FailKeepsSender, BusyFacts
<1>3. PICK e, u : e = ChunkEnd(s) /\ u = ChunkUnits(s)
  OBVIOUS
<1>4. PICK N \in Nat : N = Len(finished)
  BY LineFacts
<1>5. PICK S, later : S = Bare /\ later = Later
  OBVIOUS
<1>6. PICK W, C : /\ W \in Seq(Unit) /\ Cuts(C, L, W, N, S, later)
                  /\ SentTo(C[Len(C)], L, W)
                  /\ \E x \in 1..Len(C) : ReadTo(C[x], L, W)
  BY <1>4, <1>5 DEF InStep
<1>7. PICK x \in 1..Len(C) : ReadTo(C[x], L, W)
  BY <1>6
<1>8. PICK q : q = C[Len(C)]
  OBVIOUS
<1>9. q \in Place /\ C[x] \in Place /\ C[x].pk <= N + 1
  BY <1>4, <1>6, <1>7, <1>8, CutFacts
<1>10. q.pk = N + 1 /\ q.at = s.at /\ q.off = Len(W)
  BY <1>1, <1>2, <1>4, <1>6, <1>8 DEF SentTo, SentOf
<1>11. /\ s.at \in Nat /\ s.at < s.packet.size /\ s.packet.size \in Nat
       /\ Len(L) = N + 1 /\ L[Len(L)] = s.packet
  BY <1>1, <1>2, <1>4, BusyFacts
<1>12. PICK a \in Nat, z \in Nat : a = s.at /\ z = s.packet.size /\ a < z
  BY <1>11
<1>13. /\ u \in Seq(Unit) /\ Len(u) = 1 + (e - a) /\ u[1] = s.header
       /\ e \in (a + 1)..z /\ e \in Nat
  BY <1>1, <1>2, <1>3, <1>12, NextChunk
<1>14. PICK k \in 0..(Len(u) - 1) : wire' = wire \o SubSeq(u, 1, k)
  BY <1>2, <1>3 DEF WriteFails
<1>15. k \in Nat /\ k < 1 + (e - a)
  BY <1>12, <1>13
<1>16. PICK v : v = SubSeq(u, 1, k)
  OBVIOUS
<1>17. v \in Seq(Unit) /\ Len(v) = k /\ \A j \in 1..k : v[j] = u[j]
  <2>1. \A j \in 1..k : j \in 1..Len(u)
    BY <1>12, <1>13, <1>15
  <2>2. \A j \in 1..k : u[j] \in Unit
    BY <1>13, <2>1, ElementOfSeq
  <2>3. /\ v \in Seq(Unit) /\ Len(v) = (IF 1 <= k THEN k - 1 + 1 ELSE 0)
        /\ \A j \in 1..(k - 1 + 1) : v[j] = u[1 + j - 1]
    BY <1>15, <1>16, <2>2, SubSeqProperties
  <2>4. (IF 1 <= k THEN k - 1 + 1 ELSE 0) = k /\ k - 1 + 1 = k
    BY <1>15
  <2>5. \A j \in 1..k : 1 + j - 1 = j
    OBVIOUS
  <2> QED  BY <2>3, <2>4, <2>5
<1>18. PICK W2 : W2 = W \o v
  OBVIOUS
<1>19. /\ W2 \in Seq(Unit) /\ Longer(W, W2) /\ Len(W2) = Len(W) + k /\ Len(W) \in Nat
       /\ \A j \in 1..k : W2[Len(W) + j] = v[j]
  <2>1. W \in Seq(Unit) /\ v \in Seq(Unit)
    BY <1>6, <1>17
  <2>2. /\ W \o v \in Seq(Unit) /\ Longer(W, W \o v) /\ Len(W \o v) = Len(W) + Len(v)
        /\ \A j \in 1..Len(v) : (W \o v)[Len(W) + j] = v[j]
    BY <2>1, LongerConcat
  <2>3. Len(W) \in Nat
    BY <2>1
  <2> QED  BY <1>17, <1>18, <2>2, <2>3
<1>20. UNCHANGED receiverVars /\ finished' = finished
  BY DEF WriteFails
<1>21. Cuts(C, L, W2, N, S, later)
  <2>1. Longer(L, L) /\ S \subseteq S /\ N <= N
    BY <1>4, LineFacts, LongerSelf
  <2> QED  BY <1>4, <1>6, <1>19, <2>1, CutsStay
<1>22. Torn(q, L, W2, S, later)
  <2>1. q.off <= Len(W2) /\ (q.off < Len(W2) => k >= 1) /\ Len(W2) - q.off = k
    BY <1>10, <1>15, <1>19
  <2>2. q.pk \in 1..Len(L) /\ L[q.pk] = s.packet /\ q.at < L[q.pk].size
    BY <1>4, <1>10, <1>11
  <2>3. ASSUME k >= 1 PROVE HeadOf(W2[q.off + 1], L, q.pk, q.at, S, later)
    <3>1. 1 \in 1..k
      BY <1>15, <2>3
    <3>2. W2[q.off + 1] = s.header
      BY <1>10, <1>13, <1>17, <1>19, <3>1
    <3>3. HeadOf(s.header, L, Len(L), s.at, Bare, Later)
      BY <1>1, <1>2 DEF SenderOK, InHand
    <3> QED  BY <1>5, <1>10, <1>11, <3>2, <3>3
  <2>4. Ends(e, L, q.pk, q.at)
    <3>1. Ends(e, L, Len(L), s.at)
      BY <1>1, <1>2, <1>3, SameEnd
    <3> QED  BY <1>10, <1>11, <3>1
  <2>5. Len(W2) - q.off < 1 + (e - q.at)
    BY <1>10, <1>12, <1>15, <2>1
  <2> QED  BY <1>13, <2>1, <2>2, <2>3, <2>4, <2>5 DEF Torn
<1>23. SentTo(q, L, W2)'
  BY <1>2, <1>4, <1>5, <1>10, <1>20, <1>22 DEF SentTo
<1>24. ReadTo(C[x], L, W2)'
  <2>1. PICK y : y = C[x]
    OBVIOUS
  <2>2. ReadTo(y, L, W2)'
    BY <1>2, <1>4, <1>6, <1>7, <1>9, <1>14, <1>16, <1>17, <1>18, <1>20, <2>1, ReadToStays
  <2> QED  BY <2>1, <2>2
<1> QED  BY <1>2, <1>4, <1>5, <1>7, <1>8, <1>19, <1>20, <1>21, <1>23, <1>24 DEF InStep

(* a connection on which nothing was sent yet *)
Fresh == /\ wire = <<>> /\ finished = <<>> /\ phase \notin Failed /\ ~Busy
         /\ inChunk = Default /\ prevIn = [c \in Channel |-> NONE]
         /\ channelTs = [c \in Channel |-> 0]
         /\ delivered = <<>> /\ lostSync = FALSE

LEMMA FreshInStep == Fresh => InStep(<<>>)
<1>1. SUFFICES ASSUME Fresh PROVE InStep(<<>>)
  OBVIOUS
<1>2. PICK E, S, later : E = <<>> /\ S = Bare /\ later = Later
  OBVIOUS
<1>3. /\ Len(E) = 0 /\ E \in Seq(Sendable) /\ ~Told(E, 0) /\ SizeAt(Default, E, 0)
      /\ \A c : First(E, 0, c)
      /\ 1..0 = {}
  BY <1>2, NothingOnEmpty
<1>4. E \in Seq(Unit) /\ E \in Seq(Given)
  BY <1>2, EmptySeq
<1>5. /\ wire = E /\ finished = E /\ phase \notin Failed /\ ~Busy
      /\ inChunk = Default /\ prevIn = [c \in Channel |-> NONE]
      /\ channelTs = [c \in Channel |-> 0]
      /\ delivered = E /\ lostSync = FALSE
  BY <1>1, <1>2 DEF Fresh
<1>6. PICK q : q = [pk |-> 1, at |-> 0, off |-> 0]
  OBVIOUS
<1>7. q \in Place /\ q.pk = 1 /\ q.at = 0 /\ q.off = 0
  BY <1>6 DEF Place
<1>8. PICK C : C = <<q>>
  OBVIOUS
<1>9. C \in Seq(Place) /\ Len(C) = 1 /\ C[1] = q
  BY <1>7, <1>8
<1>10. Cuts(C, E, E, 0, S, later)
  <2>1. /\ \A k \in 1..1 : k = 1
        /\ 1..(1 - 1) = {}
    OBVIOUS
  <2> QED  BY <1>7, <1>9, <2>1 DEF Cuts
<1>11. SentTo(q, E, E)
  BY <1>3, <1>5, <1>7 DEF SentTo, SentOf
<1>12. Receives(q, E, later)
  BY <1>3, <1>4, <1>5, <1>7, SizeFacts DEF Receives, Remembers
<1>13. Times(q, E, S, later)
  BY <1>3, <1>5, <1>7 DEF Times
<1>14. Unread(q, E)
  BY <1>3, <1>4, <1>5, <1>7 DEF Unread
<1>15. ReadTo(q, E, E)
  BY <1>2, <1>12, <1>13, <1>14 DEF ReadTo
<1>16. 1 \in 1..Len(C) /\ Len(finished) = 0
  BY <1>3, <1>5, <1>9
<1> QED  BY <1>2, <1>4, <1>9, <1>10, <1>11, <1>15, <1>16 DEF InStep

LEMMA FreshNext == (Fresh => InStep(<<>>))'
BY FreshInStep, PTL

LEMMA ConnectInStep ==
  ASSUME NEW L, SenderOK(L), CloseAndConnect \/ ReconnectSocket
  PROVE  InStep(<<>>)'
<1>1. /\ finished' = <<>> /\ phase' \notin Failed /\ ~Busy' /\ wire' = <<>>
      /\ FreshReceiver
  BY ConnectStartsSender
<1>2. Fresh'
  BY <1>1 DEF Fresh, FreshReceiver
<1> QED  BY <1>2, FreshNext

LEMMA StartsInStep ==
  ASSUME Init
  PROVE  InStep(<<>>)
<1>1. ~Busy /\ phase \notin Failed
  BY SenderStarts
<1>2. Fresh
  BY <1>1 DEF Init, Fresh
<1> QED  BY <1>2, FreshInStep
-----------------------------------------------------------------------------
(* The chunk that is read next. *)

LEMMA HeaderFields ==
  ASSUME NEW h \in HeaderUnit
  PROVE  /\ h.header = TRUE /\ h.channel \in Channel
         /\ h.fmt \in {LARGE, MEDIUM, SMALL, MINIMUM}
         /\ h.fmt # MINIMUM => h.ts \in Int /\ h.extension \in Int
         /\ h.fmt <= MEDIUM => h.size \in Nat /\ h.type \in Type
<1> USE DEF LARGE, MEDIUM, SMALL, MINIMUM
<1>1. CASE h \in [header : {TRUE}, fmt : {MINIMUM}, channel : Channel]
  <2>1. h.header = TRUE /\ h.fmt = 3 /\ h.channel \in Channel
    BY <1>1
  <2> QED  BY <2>1
<1>2. CASE h \in [header : {TRUE}, fmt : {SMALL}, channel : Channel, ts : Int,
                  extension : Int]
  <2>1. /\ h.header = TRUE /\ h.fmt = 2 /\ h.channel \in Channel
        /\ h.ts \in Int /\ h.extension \in Int
    BY <1>2
  <2> QED  BY <2>1
<1>3. CASE h \in [header : {TRUE}, fmt : {LARGE, MEDIUM}, channel : Channel, ts : Int,
                  extension : Int, size : Nat, type : Type]
  BY <1>3
<1> QED  BY <1>1, <1>2, <1>3 DEF HeaderUnit

(***************************************************************************)
(* At a chunk's header the receiver knows the packet it belongs to, and    *)
(* how much of it there is.                                                *)
(***************************************************************************)
LEMMA HeadKnown ==
  ASSUME NEW L \in Seq(Sendable), NEW q, NEW later, Receives(q, L, later),
         NEW d \in Nat, d = Len(delivered), d + 1 \in 1..Len(L),
         NEW a \in Nat, a = q.at, NEW p, p = L[d + 1],
         NEW S, NEW h, HeadOf(h, L, d + 1, a, S, later)
  PROVE  /\ h \in HeaderUnit /\ h.channel = p.channel
         /\ a # 0 => h.fmt = MINIMUM
         /\ Understood(h) /\ Partly(Resumed(h), p, a, later)
<1>1. (d + 1) - 1 = d /\ q.pk = d + 1
  BY DEF Receives
<1>2. p \in Sendable /\ p.channel \in Channel /\ p.size \in Nat /\ p.type \in Type
  <2>1. p \in Sendable
    BY ElementOfSeq
  <2> QED  BY <2>1, PacketFacts
<1>3. PICK c \in Channel : c = p.channel
  BY <1>2
<1> DEFINE old == IF h.fmt = LARGE \/ prevIn[c] = NONE THEN Blank ELSE prevIn[c]
           r == Resumed(h)
<1>4. prevIn[c] \in Reading \cup {NONE}
  BY DEF Receives
<1>5. a = 0 => Tells(h, p, L, d)
  BY <1>1 DEF HeadOf, Fits
<1>6. a # 0 => h = Continuation(c)
  BY <1>3 DEF HeadOf
<1>7. h \in HeaderUnit /\ h.channel = c /\ (a # 0 => h.fmt = MINIMUM)
  BY <1>3, <1>5, <1>6, ContinuationFacts DEF Tells
<1>8. /\ h.header = TRUE /\ h.fmt \in {LARGE, MEDIUM, SMALL, MINIMUM}
      /\ h.fmt # MINIMUM => h.ts \in Int /\ h.extension \in Int
      /\ h.fmt <= MEDIUM => h.size \in Nat /\ h.type \in Type
  BY <1>7, HeaderFields
<1>9. r = [ts |-> IF h.fmt = MINIMUM THEN old.ts
                  ELSE IF h.ts = Extended THEN h.extension ELSE h.ts,
           size |-> IF h.fmt <= MEDIUM THEN h.size ELSE old.size,
           type |-> IF h.fmt <= MEDIUM THEN h.type ELSE old.type,
           abs |-> h.fmt = LARGE \/ old.abs,
           body |-> IF h.fmt <= MEDIUM THEN <<>> ELSE old.body]
  BY <1>7 DEF Resumed
<1>10. CASE h.fmt <= MEDIUM
  <2>1. h.fmt # MINIMUM
    BY <1>10, Types
  <2>2. a = 0 /\ h.size = p.size /\ h.type = p.type
    BY <1>5, <1>7, <1>10, <2>1 DEF Tells
  <2>3. old.abs \in BOOLEAN
    <3>1. Blank.abs \in BOOLEAN
      BY DEF Blank
    <3>2. \A z \in Reading : z.abs \in BOOLEAN
      BY DEF Reading
    <3> QED  BY <1>4, <3>1, <3>2
  <2>4. r.size = p.size /\ r.type = p.type /\ r.body = <<>>
    BY <1>9, <1>10, <2>2
  <2>5. r \in Reading
    BY <1>2, <1>8, <1>9, <1>10, <2>1, <2>2, <2>3 DEF Reading
  <2>6. Understood(h)
    <3>1. ~(h.fmt > MEDIUM)
      BY <1>8, <1>10, Types
    <3> QED  BY <1>8, <3>1 DEF Understood
  <2>7. Partly(r, p, a, later)
    BY <2>2, <2>4, <2>5 DEF Partly
  <2> HIDE DEF r
  <2> QED  BY <1>3, <1>7, <2>6, <2>7 DEF r
<1>11. CASE h.fmt > MEDIUM
  <2>0. Understood(h) <=> prevIn[c] # NONE
    BY <1>7, <1>8, <1>11 DEF Understood
  <2>1. CASE prevIn[c] = NONE
    <3>1. a = 0
      <4>1. a > 0 => Partly(prevIn[c], p, a, later)
        BY <1>1, <1>3 DEF Receives
      <4> QED  BY <2>1, <4>1, NotNone DEF Partly
    <3>2. First(L, d, c)
      <4>1. Remembers(prevIn[c], L, d, c)
        BY <3>1 DEF Receives
      <4> QED  BY <2>1, <4>1 DEF Remembers
    <3> QED  BY <1>3, <1>5, <1>11, <3>1, <3>2 DEF Tells, First, LastOn
  <2>2. CASE prevIn[c] # NONE
    <3>1. /\ prevIn[c] \in Reading /\ prevIn[c].size = p.size /\ prevIn[c].type = p.type
          /\ Partly(prevIn[c], p, a, later)
      <4>1. CASE a = 0
        <5>1. /\ Remembers(prevIn[c], L, d, c) /\ prevIn[c].body = <<>>
          BY <2>2, <4>1 DEF Receives
        <5>2. PICK k \in 1..d : /\ LastOn(L, k, d, c)
                               /\ prevIn[c].size = L[k].size /\ prevIn[c].type = L[k].type
          BY <2>2, <5>1 DEF Remembers
        <5>4. PICK j \in 1..d : LastOn(L, j, d, c) /\ L[j].size = p.size /\ L[j].type = p.type
          BY <1>3, <1>5, <1>11, <4>1 DEF Tells
        <5>5. k = j
          BY <5>2, <5>4, OneIsLast
        <5>6. prevIn[c] \in Reading
          BY <1>4, <2>2
        <5> QED  BY <4>1, <5>1, <5>2, <5>4, <5>5, <5>6 DEF Partly
      <4>2. CASE a # 0
        <5>1. Partly(prevIn[c], p, a, later)
          BY <1>1, <1>3, <4>2 DEF Receives
        <5> QED  BY <5>1 DEF Partly
      <4> QED  BY <4>1, <4>2
    <3>2. h.fmt # LARGE /\ ~(h.fmt <= MEDIUM)
      BY <1>8, <1>11, Types
    <3>3. old = prevIn[c]
      BY <2>2, <3>2
    <3>4. PICK z : z = prevIn[c]
      OBVIOUS
    <3>5. r = [ts |-> IF h.fmt = MINIMUM THEN z.ts
                      ELSE IF h.ts = Extended THEN h.extension ELSE h.ts,
               size |-> z.size, type |-> z.type, abs |-> h.fmt = LARGE \/ z.abs,
               body |-> z.body]
      BY <1>9, <3>2, <3>3, <3>4
    <3>6. z \in Reading /\ z.ts \in Int /\ z.abs \in BOOLEAN /\ z.size \in Nat
          /\ z.type \in Type /\ z.body \in Seq(Unit)
      BY <3>1, <3>4 DEF Reading
    <3>7. r.size = z.size /\ r.type = z.type /\ r.body = z.body
      BY <3>5
    <3>8. r \in Reading
      BY <1>8, <3>5, <3>6 DEF Reading
    <3> HIDE DEF r
    <3>9. Partly(r, p, a, later)
      BY <3>1, <3>4, <3>7, <3>8 DEF Partly
    <3> QED  BY <1>3, <1>7, <2>0, <2>2, <3>9 DEF r
  <2> QED  BY <2>1, <2>2
<1> QED  BY <1>8, <1>10, <1>11, Types

(* it knows the packet's time too, as well as the header tells it *)
LEMMA HeadTimes ==
  ASSUME NEW L \in Seq(Sendable), NEW q, NEW S, NEW later, Receives(q, L, later),
         Times(q, L, S, later),
         NEW d \in Nat, d = Len(delivered), d + 1 \in 1..Len(L),
         NEW a \in Nat, a = q.at, NEW p, p = L[d + 1],
         NEW h, HeadOf(h, L, d + 1, a, S, later)
  PROVE  Clocked(Resumed(h), p, L, d, S, later)
<1>1. (d + 1) - 1 = d /\ q.pk = d + 1
  BY DEF Receives
<1>2. PICK c, r : c = p.channel /\ r = Resumed(h)
  OBVIOUS
<1>3. /\ h \in HeaderUnit /\ h.channel = c /\ c \in Channel
      /\ p.large \in BOOLEAN /\ prevIn[c] \in Reading \cup {NONE}
      /\ a # 0 => h.fmt = MINIMUM
  <2>1. p \in Sendable
    BY ElementOfSeq
  <2>2. /\ h \in HeaderUnit /\ h.channel = p.channel
        /\ a # 0 => h.fmt = MINIMUM
        /\ Understood(h) /\ Partly(Resumed(h), p, a, later)
    BY <2>1, HeadKnown
  <2>3. c \in Channel /\ p.large \in BOOLEAN
    BY <1>2, <2>1, PacketFacts
  <2>4. prevIn[c] \in Reading \cup {NONE}
    BY <2>3 DEF Receives
  <2> QED  BY <1>2, <2>2, <2>3, <2>4
<1> DEFINE old == IF h.fmt = LARGE \/ prevIn[c] = NONE THEN Blank ELSE prevIn[c]
<1>4. /\ r.ts = IF h.fmt = MINIMUM THEN old.ts ELSE Stamp(h)
      /\ r.abs = (h.fmt = LARGE \/ old.abs)
  BY <1>2, <1>3 DEF Resumed, Stamp
<1>6. CASE a = 0
  <2>1. Timed(h, p, L, d, S, later)
    BY <1>1, <1>6 DEF HeadOf, Fits
  <2>2. old.abs = FALSE
    BY <1>3, <1>6 DEF Times, Blank
  <2>3. r.abs <=> p.large
    BY <1>3, <1>4, <2>1, <2>2 DEF Timed
  <2>4. Due(r.ts, p, L, d, S, later)
    <3>1. CASE h.fmt = MINIMUM
      <4>1. ~p.large
        BY <2>1, <3>1, Types DEF Timed
      <4>2. CASE Late(p, L, d, S, later)
        BY <4>1, <4>2 DEF Due
      <4>3. CASE \E j \in 1..d : LastOn(L, j, d, p.channel) /\ p.ts = L[j].ts
        BY <4>1, <4>3 DEF Due
      <4> QED  BY <2>1, <3>1, <4>2, <4>3 DEF Timed
    <3>2. CASE h.fmt # MINIMUM
      BY <1>4, <2>1, <3>2 DEF Timed
    <3> QED  BY <3>1, <3>2
  <2> QED  BY <1>2, <2>3, <2>4 DEF Clocked
<1>7. CASE a # 0
  <2>1. h.fmt = MINIMUM
    BY <1>3, <1>7
  <2>2. Clocked(prevIn[c], p, L, d, S, later) /\ Partly(prevIn[c], p, a, later)
    BY <1>1, <1>2, <1>3, <1>7 DEF Times, Receives
  <2>3. prevIn[c] \in Reading /\ prevIn[c] # NONE /\ prevIn[c].abs \in BOOLEAN
    BY <2>2, NotNone DEF Partly, Reading
  <2>4. PICK z : z = prevIn[c]
    OBVIOUS
  <2>5. old = z
    BY <2>1, <2>3, <2>4, Types
  <2>6. r.ts = z.ts /\ r.abs = z.abs
    BY <1>4, <2>1, <2>3, <2>4, <2>5, Types
  <2> QED  BY <1>2, <2>2, <2>4, <2>6 DEF Clocked
<1> QED  BY <1>6, <1>7

(* and where the chunk ends *)
LEMMA HowMuch ==
  ASSUME NEW L \in Seq(Sendable), NEW q, NEW later, Receives(q, L, later),
         NEW d \in Nat, d = Len(delivered), d + 1 \in 1..Len(L),
         NEW p, p = L[d + 1], NEW a \in Nat, a < p.size,
         NEW e, Ends(e, L, d + 1, a)
  PROVE  /\ e \in (a + 1)..p.size /\ e \in Nat
         /\ \A r : Partly(r, p, a, later) => ToRead(r) = e - a
<1>1. (d + 1) - 1 = d
  OBVIOUS
<1>2. PICK z \in Nat : z = p.size
  <2>1. p \in Sendable
    BY ElementOfSeq
  <2> QED  BY <2>1, PacketFacts
<1>3. PICK v \in Sizes : SizeAt(v, L, d) /\ e = EndIn(p, a, v)
  BY <1>1 DEF Ends
<1>4. v = inChunk
  <2>1. SizeAt(inChunk, L, d)
    BY DEF Receives
  <2> QED  BY <1>3, <2>1, OneSize
<1>5. v \in Nat /\ v > 0
  BY SizesAreNat
<1>6. e = IF z - a < v THEN z ELSE a + v
  BY <1>2, <1>3 DEF EndIn
<1>7. e \in (a + 1)..z /\ e \in Nat
  BY <1>2, <1>5, <1>6
<1>8. ASSUME NEW r, Partly(r, p, a, later) PROVE ToRead(r) = e - a
  <2>1. r.size - Len(r.body) = z - a
    BY <1>2, <1>8 DEF Partly
  <2>2. ToRead(r) = IF z - a < v THEN z - a ELSE v
    BY <1>4, <2>1 DEF ToRead
  <2> QED  BY <1>2, <1>5, <1>6, <2>2
<1> QED  BY <1>2, <1>7, <1>8

(* a difference of timestamps, added where it was taken from *)
LEMMA TimesAdd ==
  ASSUME NEW a \in 0..(Modulus - 1), NEW b \in 0..(Modulus - 1)
  PROVE  Add32(a, 0) = a /\ Add32((a - b) % Modulus, b) = a
<1>1. Modulus \in Nat \ {0}
  BY ChunkAssumption
<1>2. a + 0 = a /\ a % Modulus = a
  BY <1>1
<1>3. (((a - b) % Modulus) + b) % Modulus = a
  <2>1. CASE a >= b
    <3>1. PICK x \in 0..(Modulus - 1) : x = a - b
      BY <1>1, <2>1
    <3>2. x % Modulus = x
      BY <1>1
    <3> QED  BY <1>2, <3>1, <3>2
  <2>2. CASE a < b
    <3>1. (a - b) % Modulus = a - b + Modulus
      BY <1>1, <2>2
    <3>2. a - b + Modulus + b = a + Modulus
      BY <1>1
    <3>3. (a + Modulus) % Modulus = a
      BY <1>1
    <3> QED  BY <3>1, <3>2, <3>3
  <2> QED  BY <2>1, <2>2
<1> QED  BY <1>2, <1>3 DEF Add32

(***************************************************************************)
(* The time of the next packet: the difference is taken from, and added    *)
(* to, the time of the same packet, so only an excused one is passed on.   *)
(***************************************************************************)
LEMMA NextTime ==
  ASSUME NEW L \in Seq(Sendable), NEW q, NEW S, NEW later, Times(q, L, S, later),
         NEW d \in Nat, d = Len(delivered), d + 1 \in 1..Len(L),
         NEW p, p = L[d + 1],
         NEW r, r.abs \in BOOLEAN, Clocked(r, p, L, d, S, later),
         NEW v, v = (IF r.abs THEN r.ts ELSE Add32(r.ts, channelTs[p.channel])),
         v # p.ts
  PROVE  Excused(L, d + 1, S, later)
<1>1. \A j \in 1..(d + 1) : j \in 1..Len(L) /\ L[j] \in Sendable
  <2>1. \A j \in 1..(d + 1) : j \in 1..Len(L)
    OBVIOUS
  <2> QED  BY <2>1, ElementOfSeq
<1>2. p \in Sendable /\ p.channel \in Channel /\ p.ts \in 0..(Modulus - 1)
      /\ p.large \in BOOLEAN
  <2>1. p \in Sendable
    BY ElementOfSeq
  <2> QED  BY <2>1, PacketFacts
<1>3. PICK c : c = p.channel
  OBVIOUS
<1>4. ~p.large
  BY DEF Clocked, Due
<1>5. ~r.abs /\ v = Add32(r.ts, channelTs[c])
  BY <1>3, <1>4 DEF Clocked
<1>6. CASE Late(p, L, d, S, later)
  <2>1. /\ d + 1 \in 1..(d + 1) /\ (d + 1) - 1 = d
        /\ \A k \in (d + 1)..(d + 1) : k = d + 1
    OBVIOUS
  <2> QED  BY <1>3, <1>4, <1>6, <2>1 DEF Excused
<1>7. CASE First(L, d, c) /\ r.ts = p.ts
  <2>1. channelTs[c] = 0
    BY <1>2, <1>3, <1>7 DEF Times
  <2>2. Add32(p.ts, 0) = p.ts
    BY <1>2, TimesAdd
  <2> QED  BY <1>5, <1>7, <2>1, <2>2
<1>8. CASE \E j \in 1..d : /\ LastOn(L, j, d, c)
                           /\ r.ts = (p.ts - L[j].ts) % Modulus \/ p.ts = L[j].ts
  <2>1. PICK j \in 1..d :
           /\ LastOn(L, j, d, c)
           /\ r.ts = (p.ts - L[j].ts) % Modulus \/ p.ts = L[j].ts
    BY <1>8
  <2>2. /\ j \in 1..(d + 1) /\ L[j].channel = c /\ L[j].ts \in 0..(Modulus - 1)
        /\ \A k \in (j + 1)..d : L[k].channel # c
    <3>1. j \in 1..(d + 1)
      OBVIOUS
    <3>2. L[j].ts \in 0..(Modulus - 1)
      BY <1>1, <3>1, PacketFacts
    <3> QED  BY <2>1, <3>1, <3>2 DEF LastOn
  <2>3. CASE p.ts = L[j].ts
    <3>1. /\ j \in 1..((d + 1) - 1) /\ d + 1 \in 1..(d + 1)
          /\ \A k \in (j + 1)..((d + 1) - 1) : k \in (j + 1)..d
          /\ \A k \in (d + 1)..(d + 1) : k = d + 1
      OBVIOUS
    <3>2. Repeated(L, d + 1)
      BY <1>3, <2>2, <2>3, <3>1 DEF Repeated
    <3> QED  BY <1>4, <3>1, <3>2 DEF Excused
  <2>4. CASE p.ts # L[j].ts
    <3>1. channelTs[c] = delivered[j].ts
      BY <2>1, <2>2 DEF Times
    <3>2. delivered[j].ts # L[j].ts
      <4>1. SUFFICES ASSUME delivered[j].ts = L[j].ts PROVE FALSE
        OBVIOUS
      <4>2. r.ts = (p.ts - L[j].ts) % Modulus
        BY <2>1, <2>4
      <4>3. Add32((p.ts - L[j].ts) % Modulus, L[j].ts) = p.ts
        BY <1>2, <2>2, TimesAdd
      <4> QED  BY <1>5, <3>1, <4>1, <4>2, <4>3
    <3>3. Excused(L, j, S, later)
      BY <3>2 DEF Times
    <3>4. PICK i \in 1..j :
             /\ L[i].channel = c
             /\ Repeated(L, i) \/ Late(L[i], L, i - 1, S, later)
             /\ \A k \in i..j : L[k].channel = c => ~L[k].large
      BY <2>2, <3>3 DEF Excused
    <3>5. i \in 1..(d + 1)
          /\ \A k \in i..(d + 1) : k \in i..j \/ k \in (j + 1)..d \/ k = d + 1
      OBVIOUS
    <3>6. \A k \in i..(d + 1) : L[k].channel = c => ~L[k].large
      BY <1>4, <2>2, <3>4, <3>5
    <3> QED  BY <1>3, <3>4, <3>5, <3>6 DEF Excused
  <2> QED  BY <2>3, <2>4
<1>9. Due(r.ts, p, L, d, S, later)
  BY DEF Clocked
<1> QED  BY <1>3, <1>4, <1>6, <1>7, <1>8, <1>9 DEF Due
-----------------------------------------------------------------------------
(***************************************************************************)
(* What a read does: it takes the chunk from the wire, and gives the       *)
(* packet out when the chunk is its last.                                  *)
(***************************************************************************)
Takes(n) == /\ wire' \in Seq(Unit) /\ Len(wire') = Len(wire) - n
            /\ \A k \in 1..(Len(wire) - n) : wire'[k] = wire[k + n]
Whole(p, r, later) ==
    /\ \E g \in Given :
         /\ GivenAs(g, p, later) /\ delivered' = Append(delivered, g)
         /\ g.ts = IF r.abs THEN r.ts ELSE Add32(r.ts, channelTs[p.channel])
         /\ channelTs' = [channelTs EXCEPT ![p.channel] = g.ts]
    /\ inChunk' = IF p.type = "chunksize" THEN p.value ELSE inChunk
    /\ prevIn'[p.channel] \in Reading
    /\ prevIn'[p.channel].size = p.size /\ prevIn'[p.channel].type = p.type
    /\ prevIn'[p.channel].body = <<>> /\ prevIn'[p.channel].abs = FALSE
InPart(p, e, r, later) ==
    /\ UNCHANGED <<delivered, inChunk, channelTs>>
    /\ Partly(prevIn'[p.channel], p, e, later)
    /\ prevIn'[p.channel].abs = r.abs /\ prevIn'[p.channel].ts = r.ts

Reads(p, e, r, later) ==
    /\ lostSync' = FALSE
    /\ channelTs' \in [Channel -> Int]
    /\ prevIn' \in [Channel -> Reading \cup {NONE}]
    /\ \A c \in Channel : c # p.channel => prevIn'[c] = prevIn[c]
    /\ IF e = p.size THEN Whole(p, r, later) ELSE InPart(p, e, r, later)

(* w has the chunk of packet p from a to e, after its header *)
Piece(w, p, a, e, later) == /\ 1 + (e - a) <= Len(w)
                            /\ \A j \in 1..(e - a) : MayBe(w[1 + j], p, a + j, later)

(* the bytes that are read, after those there were *)
Bytes(b, p, e, later) == /\ b \in Seq(Unit) /\ Len(b) = e
                         /\ \A j \in 1..e : MayBe(b[j], p, j, later)
Body(r, w, a, e) == r.body \o SubSeq(w, 2, (e - a) + 1)

LEMMA ReadBytes ==
  ASSUME NEW w \in Seq(Unit), NEW p, NEW later, NEW a \in Nat, NEW e \in Nat, a < e,
         NEW r, Partly(r, p, a, later), Piece(w, p, a, e, later),
         NEW b, b = Body(r, w, a, e)
  PROVE  Bytes(b, p, e, later)
<1>0. PICK c \in Seq(Unit) : /\ c = r.body /\ Len(c) = a
                            /\ \A j \in 1..a : MayBe(c[j], p, j, later)
  BY DEF Partly, Reading
<1>11. 1 + (e - a) <= Len(w) /\ \A j \in 1..(e - a) : MayBe(w[1 + j], p, a + j, later)
  BY DEF Piece
<1>1. PICK s, y : s = SubSeq(w, 2, y) /\ y = (e - a) + 1
  OBVIOUS
<1>2. y \in Int /\ 2 \in Int /\ 2 <= y /\ y - 2 + 1 = e - a
  BY <1>1
<1>3. \A j \in 2..y : w[j] \in Unit
  <2>1. \A j \in 2..y : j \in 1..Len(w)
    BY <1>1, <1>11
  <2> QED  BY <2>1, ElementOfSeq
<1>4. /\ s \in Seq(Unit) /\ Len(s) = (IF 2 <= y THEN y - 2 + 1 ELSE 0)
      /\ \A j \in 1..(y - 2 + 1) : s[j] = w[2 + j - 1]
  BY <1>1, <1>2, <1>3, SubSeqProperties
<1>5. s \in Seq(Unit) /\ Len(s) = e - a
  BY <1>2, <1>4
<1>6. ASSUME NEW j \in 1..(e - a) PROVE MayBe(s[j], p, a + j, later)
  <2>1. 2 + j - 1 = 1 + j
    OBVIOUS
  <2>2. s[j] = w[1 + j]
    BY <1>2, <1>4, <2>1
  <2> QED  BY <1>11, <2>2
<1>7. /\ Longer(c, c \o s) /\ c \o s \in Seq(Unit) /\ Len(c \o s) = Len(c) + Len(s)
      /\ \A j \in 1..Len(s) : (c \o s)[Len(c) + j] = s[j]
  <2>1. c \in Seq(Unit) /\ s \in Seq(Unit)
    BY <1>0, <1>5
  <2> QED  BY <2>1, LongerConcat
<1>8. b = c \o s
  BY <1>0, <1>1 DEF Body
<1>9. b \in Seq(Unit) /\ Len(b) = e
  <2>1. a + (e - a) = e
    OBVIOUS
  <2> QED  BY <1>0, <1>5, <1>7, <1>8, <2>1
<1>10. ASSUME NEW j \in 1..e PROVE MayBe(b[j], p, j, later)
  <2>1. CASE j <= a
    <3>1. j \in 1..a
      BY <2>1
    <3>2. b[j] = c[j]
      BY <1>0, <1>7, <1>8, <3>1 DEF Longer
    <3> QED  BY <1>0, <3>1, <3>2
  <2>2. CASE ~(j <= a)
    <3>1. PICK l \in 1..(e - a) : a + l = j
      <4>1. j - a \in 1..(e - a) /\ a + (j - a) = j
        BY <2>2
      <4> QED  BY <4>1
    <3>2. b[j] = s[l]
      BY <1>0, <1>5, <1>7, <1>8, <3>1
    <3> QED  BY <1>6, <3>1, <3>2
  <2> QED  BY <2>1, <2>2
<1> QED  BY <1>9, <1>10 DEF Bytes

(* what is left *)
LEMMA WireLeft ==
  ASSUME wire \in Seq(Unit), NEW m \in Nat, m <= Len(wire),
         wire' = SubSeq(wire, m + 1, Len(wire))
  PROVE  Takes(m)
<1>1. PICK w \in Nat, y \in Nat : w = Len(wire) /\ y = m + 1 /\ y <= w + 1 /\ y >= 1
  OBVIOUS
<1>2. PICK z \in Seq(Unit) : z = wire
  OBVIOUS
<1>3. SubSeq(z, y, w) \in Seq(Unit)
      /\ Len(SubSeq(z, y, w)) = w - m
      /\ \A k \in 1..(w - m) : SubSeq(z, y, w)[k] = z[k + m]
  <2>1. CASE y <= w
    <3>1. \A j \in y..w : j \in 1..Len(z)
      BY <1>1, <1>2
    <3>2. \A j \in y..w : z[j] \in Unit
      BY <3>1, ElementOfSeq
    <3>3. /\ SubSeq(z, y, w) \in Seq(Unit)
          /\ Len(SubSeq(z, y, w)) = (IF y <= w THEN w - y + 1 ELSE 0)
          /\ \A k \in 1..(w - y + 1) : SubSeq(z, y, w)[k] = z[y + k - 1]
      BY <3>2, SubSeqProperties
    <3>4. /\ w - y + 1 = w - m
          /\ \A k \in 1..(w - y + 1) : y + k - 1 = k + m
      BY <1>1
    <3> QED  BY <2>1, <3>3, <3>4
  <2>2. CASE ~(y <= w)
    <3>1. y = w + 1 /\ m = w
      BY <1>1, <2>2
    <3>2. SubSeq(z, y, w) = <<>> /\ w - m = 0 /\ 1..0 = {}
      BY <2>2, <3>1, SubSeqEmpty
    <3> QED  BY <3>2, EmptySeq
  <2> QED  BY <2>1, <2>2
<1> QED  BY <1>1, <1>2, <1>3 DEF Takes

LEMMA ReadTakes ==
  ASSUME NEW L \in Seq(Sendable), NEW q, NEW later, Receives(q, L, later),
         wire \in Seq(Unit), ReadPacket,
         NEW p \in Sendable, NEW a \in Nat, NEW e \in Nat, a < e,
         NEW h, h = wire[1], h.channel = p.channel,
         NEW r, r = Resumed(h), Partly(r, p, a, later), ToRead(r) = e - a,
         Piece(wire, p, a, e, later)
  PROVE  Takes(1 + (e - a)) /\ Reads(p, e, r, later)
<1>1. p.channel \in Channel /\ p.size \in Nat /\ p.type \in Type
  BY PacketFacts
<1>2. PICK c \in Channel : c = p.channel
  BY <1>1
<1>3. /\ r \in Reading /\ r.size = p.size /\ r.type = p.type /\ r.body \in Seq(Unit)
      /\ Len(r.body) = a /\ \A j \in 1..a : MayBe(r.body[j], p, j, later)
      /\ r.ts \in Int /\ r.abs \in BOOLEAN
  BY DEF Partly, Reading
<1>4. PICK w \in Seq(Unit) : w = wire
  OBVIOUS
<1>5. Head(wire) = h
  <2>1. 1 <= Len(w)
    BY <1>4 DEF Piece
  <2>2. Head(w) = w[1]
    BY <2>1
  <2> QED  BY <1>4, <2>2
<1>6. PICK b : b = r.body \o SubSeq(wire, 2, (e - a) + 1)
  OBVIOUS
<1>7. b \in Seq(Unit) /\ Len(b) = e /\ \A j \in 1..e : MayBe(b[j], p, j, later)
  <2>1. Piece(w, p, a, e, later) /\ b = Body(r, w, a, e)
    BY <1>4, <1>6 DEF Body
  <2>2. Bytes(b, p, e, later)
    BY <1>4, <2>1, ReadBytes
  <2> QED  BY <2>2 DEF Bytes
<1> DEFINE ready == Len(b) = p.size
           ts == IF r.abs THEN r.ts ELSE Add32(r.ts, channelTs[c])
           out == [r EXCEPT !.abs = FALSE, !.body = <<>>]
           kept == [r EXCEPT !.body = b]
           g == [channel |-> c, type |-> r.type, ts |-> ts, body |-> b]
<1>8. /\ wire' = SubSeq(wire, (e - a) + 2, Len(wire))
      /\ prevIn' = [prevIn EXCEPT ![c] = IF ready THEN out ELSE kept]
      /\ IF ready THEN channelTs' = [channelTs EXCEPT ![c] = ts] /\ Serve(g)
         ELSE UNCHANGED <<channelTs, delivered, inChunk, lostSync>>
  <2>1. ToRead(Resumed(Head(wire))) = e - a /\ Head(wire).channel = c
        /\ Resumed(Head(wire)) = r /\ b = r.body \o SubSeq(wire, 2, (e - a) + 1)
    BY <1>2, <1>5, <1>6
  <2>2. wire' = SubSeq(wire, (e - a) + 2, Len(wire))
    BY <2>1 DEF ReadPacket
  <2>3. LET z == Resumed(Head(wire))
            u == z.body \o SubSeq(wire, 2, ToRead(z) + 1)
            x == Head(wire).channel
            t == IF z.abs THEN z.ts ELSE Add32(z.ts, channelTs[x])
        IN  /\ prevIn' = [prevIn EXCEPT ![x] =
                 IF Len(u) = z.size THEN [z EXCEPT !.abs = FALSE, !.body = <<>>]
                 ELSE [z EXCEPT !.body = u]]
            /\ IF Len(u) = z.size
               THEN /\ channelTs' = [channelTs EXCEPT ![x] = t]
                    /\ Serve([channel |-> x, type |-> z.type, ts |-> t, body |-> u])
               ELSE UNCHANGED <<channelTs, delivered, inChunk, lostSync>>
    BY DEF ReadPacket
  <2>4. r.size = p.size /\ b = r.body \o SubSeq(wire, 2, ToRead(r) + 1)
    BY <1>3, <2>1
  <2>5. prevIn' = [prevIn EXCEPT ![c] = IF ready THEN out ELSE kept]
    BY <2>1, <2>3, <2>4
  <2>6. IF ready THEN channelTs' = [channelTs EXCEPT ![c] = ts] /\ Serve(g)
        ELSE UNCHANGED <<channelTs, delivered, inChunk, lostSync>>
    BY <2>1, <2>3, <2>4
  <2> QED  BY <2>2, <2>5, <2>6
<1>9. /\ out \in Reading /\ out.size = p.size /\ out.type = p.type /\ out.body = <<>>
      /\ kept \in Reading /\ kept.size = p.size /\ kept.type = p.type /\ kept.body = b
      /\ out.abs = FALSE /\ kept.abs = r.abs /\ kept.ts = r.ts
  <2>1. out.size = r.size /\ out.type = r.type /\ out.body = <<>> /\ out.abs = FALSE
    BY <1>3 DEF Reading
  <2>2. /\ kept.size = r.size /\ kept.type = r.type /\ kept.body = b
        /\ kept.abs = r.abs /\ kept.ts = r.ts
    BY <1>3 DEF Reading
  <2>3. out \in Reading
    <3>1. PICK r1 \in Reading : r1 = [r EXCEPT !.abs = FALSE]
      BY <1>3 DEF Reading
    <3>2. PICK v \in Seq(Unit) : v = <<>>
      BY EmptySeq
    <3>3. [r1 EXCEPT !.body = v] \in Reading
      BY DEF Reading
    <3> QED  BY <3>1, <3>2, <3>3
  <2>4. kept \in Reading
    BY <1>3, <1>7 DEF Reading
  <2> QED  BY <1>3, <2>1, <2>2, <2>3, <2>4
<1>10. ts \in Int
  <2>1. channelTs[c] \in Int
    BY DEF Receives
  <2>2. Add32(r.ts, channelTs[c]) \in Int
    <3>1. PICK s \in Int : s = r.ts + channelTs[c]
      BY <1>3, <2>1
    <3>2. Modulus \in Int /\ Modulus > 0
      BY ChunkAssumption
    <3>3. s % Modulus \in Int
      BY <3>2
    <3> QED  BY <3>1, <3>3 DEF Add32
  <2> QED  BY <1>3, <2>2
<1> HIDE DEF ready, ts, out, kept
<1>11. ready <=> e = p.size
  BY <1>7 DEF ready
<1>12. /\ prevIn \in [Channel -> Reading \cup {NONE}] /\ channelTs \in [Channel -> Int]
       /\ lostSync = FALSE /\ delivered \in Seq(Given)
  BY DEF Receives
<1>13. /\ prevIn' \in [Channel -> Reading \cup {NONE}]
       /\ prevIn'[c] = IF ready THEN out ELSE kept
       /\ \A x \in Channel : x # c => prevIn'[x] = prevIn[x]
  BY <1>8, <1>9, <1>12
<1>14. Takes(1 + (e - a))
  <2>1. PICK m \in Nat : m = 1 + (e - a) /\ m + 1 = (e - a) + 2
    OBVIOUS
  <2>2. wire' = SubSeq(wire, m + 1, Len(wire)) /\ m <= Len(wire)
    BY <1>8, <2>1 DEF Piece
  <2>3. Takes(m)
    BY <2>2, WireLeft
  <2> QED  BY <2>1, <2>3
<1>15. CASE ready
  <2>1. e = p.size /\ prevIn'[c] = out /\ channelTs' = [channelTs EXCEPT ![c] = ts]
        /\ Serve(g)
    BY <1>8, <1>11, <1>13, <1>15
  <2>2. g \in Given
    BY <1>1, <1>3, <1>7, <1>10 DEF Given
  <2>3. g.channel = c /\ g.type = p.type /\ g.body = b /\ g.ts = ts
    <3>1. g.channel = c /\ g.type = r.type /\ g.body = b /\ g.ts = ts
      OBVIOUS
    <3> HIDE DEF g
    <3> QED  BY <1>3, <3>1
  <2> HIDE DEF g
  <2>4. GivenAs(g, p, later)
    BY <1>2, <1>7, <2>1, <2>3 DEF GivenAs
  <2>5. ASSUME p.type = "chunksize" PROVE IsSize(b[1]) /\ b[1].i = p.value
    <3>1. p \in Announcing /\ p \notin Media /\ p.size = 1
      BY <2>5, PacketFacts, SetUpFacts
    <3>2. 1 \in 1..e
      BY <2>1, <3>1
    <3>3. b[1] = Intact(p)[1]
      BY <1>7, <3>1, <3>2 DEF MayBe, Overwritten
    <3>4. b[1] = Byte("chunksize", p.value)
      BY <3>1, <3>3, IntactFacts
    <3> QED  BY <3>4 DEF IsSize, Byte
  <2>6. /\ delivered' = Append(delivered, g)
        /\ inChunk' = IF p.type = "chunksize" THEN p.value ELSE inChunk
        /\ lostSync' = FALSE
    BY <2>1, <2>3, <2>5 DEF Serve
  <2>7. channelTs' \in [Channel -> Int]
    BY <1>10, <1>12, <2>1
  <2>8. /\ g.ts = IF r.abs THEN r.ts ELSE Add32(r.ts, channelTs[p.channel])
        /\ channelTs' = [channelTs EXCEPT ![p.channel] = g.ts]
    BY <1>2, <2>1, <2>3 DEF ts
  <2>9. Whole(p, r, later)
    BY <1>2, <1>9, <2>1, <2>2, <2>4, <2>6, <2>8 DEF Whole
  <2> QED  BY <1>2, <1>13, <1>14, <2>1, <2>6, <2>7, <2>9 DEF Reads
<1>16. CASE ~ready
  <2>1. /\ e # p.size /\ prevIn'[c] = kept
        /\ UNCHANGED <<channelTs, delivered, inChunk, lostSync>>
    BY <1>8, <1>11, <1>13, <1>16
  <2>2. Partly(kept, p, e, later)
    BY <1>7, <1>9 DEF Partly
  <2>3. InPart(p, e, r, later)
    BY <1>2, <1>9, <2>1, <2>2 DEF InPart
  <2> QED  BY <1>2, <1>12, <1>13, <1>14, <2>1, <2>3 DEF Reads
<1> QED  BY <1>15, <1>16

(* a packet is given out *)
LEMMA ReadWhole ==
  ASSUME NEW L \in Seq(Sendable), NEW q, NEW S, NEW later, Receives(q, L, later),
         Times(q, L, S, later),
         NEW d \in Nat, d = Len(delivered), d + 1 \in 1..Len(L), NEW p, p = L[d + 1],
         NEW x \in Reading, Clocked(x, p, L, d, S, later),
         NEW e, e = p.size, Reads(p, e, x, later),
         NEW s, s.pk = d + 2, s.at = 0
  PROVE  Receives(s, L, later)' /\ Times(s, L, S, later)'
<1>0. Reads(p, p.size, x, later)
  OBVIOUS
<1>1. p \in Sendable /\ p.channel \in Channel
  <2>1. p \in Sendable
    BY ElementOfSeq
  <2> QED  BY <2>1, PacketFacts
<1>2. /\ lostSync' = FALSE
      /\ channelTs' \in [Channel -> Int]
      /\ prevIn' \in [Channel -> Reading \cup {NONE}]
      /\ \A c \in Channel : c # p.channel => prevIn'[c] = prevIn[c]
      /\ Whole(p, x, later)
  BY <1>0 DEF Reads
<1>3. PICK g \in Given :
         /\ GivenAs(g, p, later) /\ delivered' = Append(delivered, g)
         /\ g.ts = IF x.abs THEN x.ts ELSE Add32(x.ts, channelTs[p.channel])
         /\ channelTs' = [channelTs EXCEPT ![p.channel] = g.ts]
  BY <1>2 DEF Whole
<1>4. /\ inChunk' = IF p.type = "chunksize" THEN p.value ELSE inChunk
      /\ prevIn'[p.channel] \in Reading
      /\ prevIn'[p.channel].size = p.size /\ prevIn'[p.channel].type = p.type
      /\ prevIn'[p.channel].body = <<>> /\ prevIn'[p.channel].abs = FALSE
  BY <1>2 DEF Whole
<1>5. /\ delivered' \in Seq(Given) /\ Len(delivered') = d + 1
      /\ delivered'[d + 1] = g /\ \A i \in 1..d : delivered'[i] = delivered[i]
  <2>1. delivered \in Seq(Given) /\ g \in Given
    BY <1>3 DEF Receives
  <2>2. /\ Append(delivered, g) \in Seq(Given)
        /\ Len(Append(delivered, g)) = Len(delivered) + 1
        /\ Append(delivered, g)[Len(delivered) + 1] = g
        /\ \A i \in 1..Len(delivered) : Append(delivered, g)[i] = delivered[i]
    BY <2>1, AppendProperties
  <2> QED  BY <1>3, <2>2
<1>6. \A i \in 1..(d + 1) : i \in 1..d \/ i = d + 1
  OBVIOUS
<1>7. \A i \in 1..(d + 1) : GivenAs(delivered'[i], L[i], later)
  <2>1. \A i \in 1..d : GivenAs(delivered[i], L[i], later)
    BY DEF Receives
  <2> QED  BY <1>3, <1>5, <1>6, <2>1
<1>8. inChunk' \in Sizes /\ SizeAt(inChunk', L, d + 1)
  <2>1. CASE p.type = "chunksize"
    <3>1. p.value \in MediaSizes
      BY <1>1, <2>1, PacketFacts, SetUpFacts
    <3> QED  BY <1>4, <2>1, <3>1, SizeNext, SizeFacts
  <2>2. CASE p.type # "chunksize"
    <3>1. inChunk \in Sizes /\ SizeAt(inChunk, L, d)
      BY DEF Receives
    <3> QED  BY <1>4, <2>2, <3>1, SizeNext
  <2> QED  BY <2>1, <2>2
<1>9. ASSUME NEW c \in Channel
      PROVE  /\ Remembers(prevIn'[c], L, d + 1, c)
             /\ prevIn'[c] # NONE => prevIn'[c].body = <<>> /\ prevIn'[c].abs = FALSE
  <2>1. CASE c = p.channel
    <3>1. prevIn'[c] # NONE
      BY <1>4, <2>1, NotNone
    <3> QED  BY <1>4, <2>1, <3>1, RemembersLast
  <2>2. CASE c # p.channel
    <3>1. Remembers(prevIn[c], L, d, c) /\ (prevIn[c] # NONE => prevIn[c].body = <<>>)
      BY <2>2 DEF Receives
    <3>2. prevIn[c] # NONE => prevIn[c].abs = FALSE
      BY <2>2 DEF Times, Receives
    <3>3. Remembers(prevIn[c], L, d + 1, c)
      BY <2>2, <3>1, RemembersMore
    <3> QED  BY <1>2, <2>2, <3>1, <3>2, <3>3
  <2> QED  BY <2>1, <2>2
<1>10. /\ ~(s.at > 0) /\ s.pk = Len(delivered') + 1
  <2>1. d + 2 = (d + 1) + 1
    OBVIOUS
  <2> QED  BY <1>5, <2>1
<1>11. Receives(s, L, later)'
  BY <1>2, <1>5, <1>7, <1>8, <1>9, <1>10 DEF Receives
<1>12. channelTs \in [Channel -> Int]
  BY DEF Receives
<1>13. ASSUME NEW c \in Channel, First(L, d + 1, c) PROVE channelTs'[c] = 0
  <2>1. c # p.channel /\ First(L, d, c)
    BY <1>13, LastNext
  <2>2. channelTs[c] = 0
    BY <2>1 DEF Times
  <2> QED  BY <1>3, <1>12, <2>1, <2>2
<1>14. ASSUME NEW j \in 1..(d + 1), LastOn(L, j, d + 1, L[j].channel)
       PROVE  channelTs'[L[j].channel] = delivered'[j].ts
  <2>1. CASE j = d + 1
    BY <1>1, <1>3, <1>5, <1>12, <2>1
  <2>2. CASE j # d + 1
    <3>1. j \in 1..d
      BY <1>6, <2>2
    <3>2. PICK c : c = L[j].channel
      OBVIOUS
    <3>3. c # p.channel
      <4>1. d + 1 \in (j + 1)..(d + 1)
        BY <3>1
      <4> QED  BY <1>14, <3>2, <4>1 DEF LastOn
    <3>4. LastOn(L, j, d, c)
      BY <1>14, <3>2, <3>3, LastNext
    <3>5. channelTs[c] = delivered[j].ts
      BY <3>1, <3>2, <3>4 DEF Times
    <3>6. channelTs'[c] = channelTs[c]
      <4>1. c \in Channel
        <5>1. j \in 1..Len(L)
          BY <3>1
        <5> QED  BY <3>2, <5>1, ElementOfSeq, PacketFacts
      <4> QED  BY <1>3, <1>12, <3>3, <4>1
    <3> QED  BY <1>5, <3>1, <3>2, <3>5, <3>6
  <2> QED  BY <2>1, <2>2
<1>15. ASSUME NEW i \in 1..(d + 1), delivered'[i].ts # L[i].ts
       PROVE  Excused(L, i, S, later)
  <2>1. CASE i = d + 1
    <3>1. PICK v : v = g.ts /\ v # p.ts
      BY <1>5, <1>15, <2>1
    <3>2. v = IF x.abs THEN x.ts ELSE Add32(x.ts, channelTs[p.channel])
      BY <1>3, <3>1
    <3>3. x.abs \in BOOLEAN
      BY DEF Reading
    <3>4. Excused(L, d + 1, S, later)
      BY <3>1, <3>2, <3>3, NextTime
    <3> QED  BY <2>1, <3>4
  <2>2. CASE i # d + 1
    <3>1. i \in 1..d
      BY <1>6, <2>2
    <3> QED  BY <1>5, <1>15, <3>1 DEF Times
  <2> QED  BY <2>1, <2>2
<1>16. Times(s, L, S, later)'
  BY <1>5, <1>9, <1>10, <1>13, <1>14, <1>15 DEF Times
<1> QED  BY <1>11, <1>16

(* there is more of the packet *)
LEMMA ReadPart ==
  ASSUME NEW L \in Seq(Sendable), NEW q, NEW S, NEW later, Receives(q, L, later),
         Times(q, L, S, later),
         NEW d \in Nat, d = Len(delivered), d + 1 \in 1..Len(L), NEW p, p = L[d + 1],
         NEW x, Clocked(x, p, L, d, S, later),
         NEW e \in Nat, e > 0, e # p.size, Reads(p, e, x, later),
         NEW s, s.pk = d + 1, s.at = e
  PROVE  Receives(s, L, later)' /\ Times(s, L, S, later)'
<1>1. /\ lostSync' = FALSE
      /\ channelTs' \in [Channel -> Int]
      /\ prevIn' \in [Channel -> Reading \cup {NONE}]
      /\ \A c \in Channel : c # p.channel => prevIn'[c] = prevIn[c]
      /\ UNCHANGED <<delivered, inChunk, channelTs>>
      /\ Partly(prevIn'[p.channel], p, e, later)
      /\ prevIn'[p.channel].abs = x.abs /\ prevIn'[p.channel].ts = x.ts
  BY DEF Reads, InPart
<1>2. s.at > 0 /\ L[s.pk] = p /\ q.pk = d + 1
  BY DEF Receives
<1>3. ASSUME NEW c \in Channel
      PROVE  IF s.at > 0 /\ c = p.channel THEN Partly(prevIn'[c], p, s.at, later)
             ELSE /\ Remembers(prevIn'[c], L, d, c)
                  /\ prevIn'[c] # NONE => prevIn'[c].body = <<>>
  <2>1. CASE c = p.channel
    BY <1>1, <1>2, <2>1
  <2>2. CASE c # p.channel
    <3>1. Remembers(prevIn[c], L, d, c) /\ (prevIn[c] # NONE => prevIn[c].body = <<>>)
      BY <1>2, <2>2 DEF Receives
    <3> QED  BY <1>1, <2>2, <3>1
  <2> QED  BY <2>1, <2>2
<1>4. Receives(s, L, later)'
  <2>1. s.pk <= Len(L) /\ Len(delivered') = d
    BY <1>1
  <2> QED  BY <1>1, <1>2, <1>3, <2>1 DEF Receives
<1>5. ASSUME NEW c \in Channel
      PROVE  IF s.at > 0 /\ c = p.channel THEN Clocked(prevIn'[c], p, L, d, S, later)
             ELSE prevIn'[c] # NONE => prevIn'[c].abs = FALSE
  <2>1. CASE c = p.channel
    BY <1>1, <1>2, <2>1 DEF Clocked
  <2>2. CASE c # p.channel
    <3>1. prevIn[c] # NONE => prevIn[c].abs = FALSE
      BY <1>2, <2>2 DEF Times
    <3> QED  BY <1>1, <2>2, <3>1
  <2> QED  BY <2>1, <2>2
<1>6. Times(s, L, S, later)'
  <2>1. /\ \A c \in Channel : First(L, d, c) => channelTs'[c] = 0
        /\ \A j \in 1..d : LastOn(L, j, d, L[j].channel) =>
             channelTs'[L[j].channel] = delivered'[j].ts
        /\ \A i \in 1..d : delivered'[i].ts # L[i].ts => Excused(L, i, S, later)
    BY <1>1 DEF Times
  <2>2. Len(delivered') = d
    BY <1>1
  <2> QED  BY <1>2, <1>5, <2>1, <2>2 DEF Times
<1> QED  BY <1>4, <1>6

(***************************************************************************)
(* What is at the receiver's place: a chunk of the stream, or, after the   *)
(* last one, nothing or less than a chunk.                                 *)
(***************************************************************************)
Here(d, a, p, e, h, q, L, S, later) ==
    /\ d \in Nat /\ d = Len(delivered) /\ d + 1 = q.pk /\ d + 1 \in 1..Len(L)
    /\ p = L[d + 1] /\ a \in Nat /\ a = q.at /\ a < p.size
    /\ h = wire[1] /\ HeadOf(h, L, d + 1, a, S, later)
    /\ e \in Nat /\ Ends(e, L, d + 1, a) /\ a < e /\ e <= p.size

LEMMA HereFacts ==
  ASSUME NEW L \in Seq(Sendable), NEW q, NEW S, NEW later, Receives(q, L, later),
         NEW d, NEW a, NEW p, NEW e, NEW h, Here(d, a, p, e, h, q, L, S, later)
  PROVE  /\ p \in Sendable /\ h \in HeaderUnit /\ h.channel = p.channel
         /\ Understood(h) /\ Partly(Resumed(h), p, a, later)
         /\ ToRead(Resumed(h)) = e - a
<1>1. /\ d \in Nat /\ d = Len(delivered) /\ d + 1 \in 1..Len(L) /\ p = L[d + 1]
      /\ a \in Nat /\ a = q.at
  BY DEF Here
<1>2. a < p.size /\ HeadOf(h, L, d + 1, a, S, later) /\ Ends(e, L, d + 1, a)
  BY DEF Here
<1>3. p \in Sendable
  BY <1>1, ElementOfSeq
<1>4. /\ h \in HeaderUnit /\ h.channel = p.channel
      /\ Understood(h) /\ Partly(Resumed(h), p, a, later)
  BY <1>1, <1>2, HeadKnown
<1>5. ToRead(Resumed(h)) = e - a
  <2>1. \A r : Partly(r, p, a, later) => ToRead(r) = e - a
    BY <1>1, <1>2, HowMuch
  <2> QED  BY <1>4, <2>1
<1> QED  BY <1>3, <1>4, <1>5

LEMMA Within ==
  ASSUME NEW a \in Int, NEW x \in Int, NEW y \in Int, NEW n \in Int,
         a + x = y, a + 1 + n <= y
  PROVE  1 + n <= x
OBVIOUS

LEMMA PlusOne == \A x \in Int, y \in Int : x + 1 + y = x + (1 + y)
OBVIOUS

LEMMA LinkHere ==
  ASSUME NEW L \in Seq(Sendable), NEW W \in Seq(Unit), NEW S, NEW later,
         NEW q \in Place, NEW r \in Place, Link(q, r, L, W, S, later),
         Unread(q, W), Receives(q, L, later)
  PROVE  \E d, a, p, e, h :
            /\ Here(d, a, p, e, h, q, L, S, later)
            /\ Piece(wire, p, a, e, later) /\ r.off = q.off + (1 + (e - a))
            /\ IF e = p.size THEN r.pk = d + 2 /\ r.at = 0
               ELSE r.pk = d + 1 /\ r.at = e
<1>1. PICK d \in Nat : d = Len(delivered) /\ q.pk = d + 1
  BY DEF Receives
<1>2. PICK a \in Nat, b \in Nat : a = q.at /\ b = q.off
  BY DEF Place
<1>3. PICK p : p = L[d + 1]
  OBVIOUS
<1>4. /\ d + 1 \in 1..Len(L) /\ a < p.size
      /\ HeadOf(W[b + 1], L, d + 1, a, S, later)
  BY <1>1, <1>2, <1>3 DEF Link
<1>5. PICK e \in Nat :
         /\ Ends(e, L, d + 1, a)
         /\ r.off = b + 1 + (e - a) /\ r.off <= Len(W)
         /\ \A j \in 1..(e - a) : MayBe(W[b + 1 + j], p, a + j, later)
         /\ IF e = p.size THEN r.pk = d + 1 + 1 /\ r.at = 0
            ELSE r.pk = d + 1 /\ r.at = e
  BY <1>1, <1>2, <1>3 DEF Link
<1>6. a < e /\ e <= p.size
  <2>1. e \in (a + 1)..p.size
    BY <1>1, <1>3, <1>4, <1>5, HowMuch
  <2> QED  BY <1>2, <2>1
<1>7. PICK w \in Seq(Unit) : w = wire
  BY DEF Unread
<1>8. b + Len(w) = Len(W) /\ \A j \in 1..Len(w) : w[j] = W[b + j]
  BY <1>2, <1>7 DEF Unread
<1>9. r.off = b + (1 + (e - a)) /\ 1 + (e - a) <= Len(w)
  <2>1. Len(w) \in Nat /\ Len(W) \in Nat
    BY <1>7
  <2>2. PICK n \in Nat : n = e - a
    BY <1>2, <1>5, <1>6
  <2>3. r.off = b + 1 + n /\ r.off <= Len(W)
    BY <1>5, <2>2
  <2>4. b + 1 + n = b + (1 + n)
    <3>1. b \in Int
      BY <1>2
    <3>2. n \in Int
      BY <2>2
    <3> QED  BY <3>1, <3>2, PlusOne
  <2>5. 1 + n <= Len(w)
    <3>1. PICK x \in Nat, y \in Nat : x = Len(w) /\ y = Len(W)
      BY <2>1
    <3>2. b + x = y /\ b + 1 + n <= y
      BY <1>8, <2>3, <3>1
    <3>3. x \in Int /\ y \in Int /\ n \in Int /\ b \in Int
      BY <1>2, <2>2, <3>1
    <3>4. 1 + n <= x
      BY <3>2, <3>3, Within
    <3> QED  BY <3>1, <3>4
  <2> QED  BY <2>2, <2>3, <2>4, <2>5
<1>10. w[1] = W[b + 1]
  <2>1. 1 \in 1..Len(w)
    BY <1>2, <1>5, <1>6, <1>7, <1>9
  <2> QED  BY <1>8, <2>1
<1>11. Piece(w, p, a, e, later)
  <2>1. ASSUME NEW j \in 1..(e - a) PROVE MayBe(w[1 + j], p, a + j, later)
    <3>0. j \in Int /\ b \in Int
      BY <1>2
    <3>1. 1 + j \in 1..Len(w) /\ b + (1 + j) = b + 1 + j
      <4>1. 1 + j \in 1..Len(w)
        BY <1>2, <1>5, <1>7, <1>9
      <4> QED  BY <3>0, <4>1, PlusOne
    <3>2. w[1 + j] = W[b + 1 + j]
      BY <1>8, <3>1
    <3> QED  BY <1>5, <3>2
  <2> QED  BY <1>9, <2>1 DEF Piece
<1>12. PICK h : h = wire[1]
  OBVIOUS
<1>13. Here(d, a, p, e, h, q, L, S, later)
  BY <1>1, <1>2, <1>3, <1>4, <1>5, <1>6, <1>7, <1>10, <1>12 DEF Here
<1>14. d + 1 + 1 = d + 2
  BY <1>1
<1> QED  BY <1>2, <1>5, <1>7, <1>9, <1>11, <1>13, <1>14

LEMMA EndHere ==
  ASSUME NEW L, SenderOK(L), NEW W \in Seq(Unit), NEW q \in Place, SentTo(q, L, W),
         Unread(q, W), Receives(q, L, Later), wire # <<>>
  PROVE  /\ ~CanRead /\ phase \in Failed
         /\ \E d, a, p, e, h : Here(d, a, p, e, h, q, L, Bare, Later)
<1>1. PICK S, later : S = Bare /\ later = Later
  OBVIOUS
<1>2. PICK d \in Nat : d = Len(delivered) /\ q.pk = d + 1
  BY DEF Receives
<1>3. PICK a \in Nat, b \in Nat : a = q.at /\ b = q.off
  BY DEF Place
<1>4. PICK p : p = L[d + 1]
  OBVIOUS
<1>5. PICK w \in Seq(Unit) : w = wire
  BY DEF Unread
<1>6. b + Len(w) = Len(W) /\ \A j \in 1..Len(w) : w[j] = W[b + j]
  BY <1>3, <1>5 DEF Unread
<1>7. Len(w) \in Nat /\ Len(w) # 0 /\ Len(W) \in Nat
  BY <1>5
<1>8. phase \in Failed /\ Torn(q, L, W, S, later)
  <2>1. q.off # Len(W)
    BY <1>3, <1>6, <1>7
  <2> QED  BY <1>1, <2>1 DEF SentTo
<1>9. b < Len(W)
  BY <1>3, <1>6, <1>7
<1>10. /\ d + 1 \in 1..Len(L) /\ a < p.size
       /\ HeadOf(W[b + 1], L, d + 1, a, S, later)
  BY <1>2, <1>3, <1>4, <1>8, <1>9 DEF Torn
<1>11. PICK e \in Nat : Ends(e, L, d + 1, a) /\ Len(W) - b < 1 + (e - a)
  BY <1>2, <1>3, <1>8, <1>9 DEF Torn
<1>12. L \in Seq(Sendable)
  BY LineFacts
<1>13. a < e /\ e <= p.size
  <2>1. Receives(q, L, later)
    BY <1>1
  <2>2. e \in (a + 1)..p.size
    BY <1>2, <1>3, <1>4, <1>10, <1>11, <1>12, <2>1, HowMuch
  <2> QED  BY <1>3, <2>2
<1>14. PICK h : h = wire[1]
  OBVIOUS
<1>15. h = W[b + 1] /\ Head(wire) = h
  <2>1. 1 \in 1..Len(w)
    BY <1>7
  <2>2. Head(w) = w[1]
    BY <1>7
  <2> QED  BY <1>5, <1>6, <1>14, <2>1, <2>2
<1>16. Here(d, a, p, e, h, q, L, S, later)
  BY <1>2, <1>3, <1>4, <1>10, <1>11, <1>13, <1>14, <1>15 DEF Here
<1>17. ~CanRead
  <2>1. SUFFICES ASSUME CanRead PROVE FALSE
    OBVIOUS
  <2>2. Understood(h) /\ Len(wire) > ToRead(Resumed(h))
    BY <1>15, <2>1 DEF CanRead
  <2>4. ToRead(Resumed(h)) = e - a
    BY <1>1, <1>12, <1>16, <2>2, HereFacts
  <2>5. Len(w) < 1 + (e - a)
    <3>1. PICK x \in Int, y \in Int, n \in Int : x = Len(w) /\ y = Len(W) /\ n = e - a
      BY <1>3, <1>7, <1>11
    <3>2. y - b < 1 + n /\ b + x = y
      BY <1>6, <1>11, <3>1
    <3>3. x < 1 + n
      BY <1>3, <3>1, <3>2
    <3> QED  BY <3>1, <3>3
  <2> QED  BY <1>3, <1>5, <1>7, <1>11, <2>2, <2>4, <2>5
<1> QED  BY <1>1, <1>8, <1>16, <1>17

(* the receiver's place moves on *)
LEMMA UnreadLess ==
  ASSUME NEW q \in Place, NEW r \in Place, NEW W \in Seq(Unit), Unread(q, W),
         NEW n \in Nat, n <= Len(wire), r.off = q.off + n, Takes(n)
  PROVE  Unread(r, W)'
<1>1. PICK b \in Nat : b = q.off
  BY DEF Place
<1>2. PICK w \in Seq(Unit) : w = wire
  BY DEF Unread
<1>3. b + Len(w) = Len(W) /\ \A j \in 1..Len(w) : w[j] = W[b + j]
  BY <1>1, <1>2 DEF Unread
<1>4. PICK v : v = wire'
  OBVIOUS
<1>5. /\ v \in Seq(Unit) /\ Len(v) = Len(w) - n
      /\ \A k \in 1..(Len(w) - n) : v[k] = w[k + n]
  BY <1>2, <1>4 DEF Takes
<1>6. Len(w) \in Nat /\ Len(W) \in Nat /\ n <= Len(w)
  BY <1>2
<1>7. (b + n) + Len(v) = Len(W)
  BY <1>1, <1>3, <1>5, <1>6
<1>8. ASSUME NEW j \in 1..Len(v) PROVE v[j] = W[(b + n) + j]
  <2>1. j + n \in 1..Len(w) /\ b + (j + n) = (b + n) + j /\ j \in 1..(Len(w) - n)
    BY <1>1, <1>5, <1>6
  <2>2. v[j] = w[j + n] /\ w[j + n] = W[b + (j + n)]
    BY <1>3, <1>5, <2>1
  <2> QED  BY <2>1, <2>2
<1> QED  BY <1>1, <1>4, <1>5, <1>7, <1>8 DEF Unread

(***************************************************************************)
(* A read moves the receiver to the next place; it never reads beyond the  *)
(* last one.                                                               *)
(***************************************************************************)
LEMMA ReadInStep ==
  ASSUME NEW L, SenderOK(L), InStep(L), ReadPacket
  PROVE  SenderOK(L)' /\ InStep(L)' /\ Later' = Later
<1>1. PICK N \in Nat : N = Len(finished)
  BY LineFacts
<1>2. PICK S, later : S = Bare /\ later = Later
  OBVIOUS
<1>3. /\ SenderOK(L)' /\ SentOf' = SentOf /\ Later' = later /\ Bare' = S
      /\ finished' = finished /\ phase' = phase /\ connections' = connections
      /\ L \in Seq(Sendable)
  <2>1. UNCHANGED <<phase, current, front, popped, hasSent, senderVars, finished, connections>>
    BY DEF ReadPacket, fifoVars
  <2>2. /\ SenderOK(L)' /\ SentOf' = SentOf /\ Later' = Later /\ Shortened' = Shortened /\ Bare' = Bare
    BY <2>1, SenderStays
  <2> QED  BY <1>2, <2>1, <2>2, LineFacts
<1>4. PICK W, C : /\ W \in Seq(Unit) /\ Cuts(C, L, W, N, S, later)
                  /\ SentTo(C[Len(C)], L, W)
                  /\ \E x \in 1..Len(C) : ReadTo(C[x], L, W)
  BY <1>1, <1>2 DEF InStep
<1>5. PICK x \in 1..Len(C) : ReadTo(C[x], L, W)
  BY <1>4
<1>6. PICK n, q : n = Len(C) /\ q = C[x]
  OBVIOUS
<1>7. n \in Nat \ {0} /\ x \in 1..n /\ \A k \in 1..n : C[k] \in Place /\ C[k].pk <= N + 1
  <2>1. /\ n \in Nat \ {0}
        /\ \A k \in 1..n : C[k] \in Place /\ C[k].pk \in 1..(N + 1)
    BY <1>4, <1>6, CutFacts
  <2>2. \A k \in 1..n : C[k].pk <= N + 1
    BY <2>1
  <2> QED  BY <1>5, <1>6, <2>1, <2>2
<1>8. q \in Place /\ Unread(q, W) /\ Receives(q, L, later) /\ Times(q, L, S, later)
  BY <1>2, <1>5, <1>6, <1>7 DEF ReadTo
<1>9. /\ wire \in Seq(Unit) /\ wire # <<>> /\ CanRead
      /\ Head(wire) = wire[1] /\ Understood(wire[1])
  <2>1. CanRead /\ wire # <<>> /\ wire \in Seq(Unit)
    BY <1>8 DEF ReadPacket, CanRead, Unread
  <2>2. Head(wire) = wire[1]
    BY <2>1
  <2> QED  BY <2>1, <2>2 DEF CanRead
<1>10. x # n
  <2>1. SUFFICES ASSUME x = n PROVE FALSE
    OBVIOUS
  <2>2. SentTo(q, L, W)
    BY <1>4, <1>6, <2>1
  <2>3. Receives(q, L, Later)
    BY <1>2, <1>8
  <2>4. ~CanRead
    BY <1>4, <1>8, <1>9, <2>2, <2>3, EndHere
  <2> QED  BY <1>9, <2>4
<1>11. PICK y \in 1..n : y = x + 1 /\ x \in 1..(n - 1)
  BY <1>7, <1>10
<1>12. PICK r : r = C[y]
  OBVIOUS
<1>13. r \in Place /\ Link(q, r, L, W, S, later)
  <2>1. Link(C[x], C[x + 1], L, W, S, later)
    BY <1>4, <1>6, <1>11 DEF Cuts
  <2> QED  BY <1>6, <1>7, <1>11, <1>12, <2>1
<1>14. PICK d, a, p, e, h :
          /\ Here(d, a, p, e, h, q, L, S, later)
          /\ Piece(wire, p, a, e, later) /\ r.off = q.off + (1 + (e - a))
          /\ IF e = p.size THEN r.pk = d + 2 /\ r.at = 0
             ELSE r.pk = d + 1 /\ r.at = e
  BY <1>3, <1>4, <1>8, <1>13, LinkHere
<1>15. /\ d \in Nat /\ d = Len(delivered) /\ d + 1 \in 1..Len(L) /\ p = L[d + 1]
       /\ a \in Nat /\ a = q.at /\ h = wire[1] /\ HeadOf(h, L, d + 1, a, S, later)
       /\ e \in Nat /\ a < e
  BY <1>14 DEF Here
<1>16. PICK z : z = Resumed(h)
  OBVIOUS
<1>17. /\ p \in Sendable /\ h.channel = p.channel
       /\ Partly(z, p, a, later) /\ ToRead(z) = e - a
  BY <1>3, <1>8, <1>9, <1>14, <1>15, <1>16, HereFacts
<1>18. Takes(1 + (e - a)) /\ Reads(p, e, z, later)
  BY <1>3, <1>8, <1>9, <1>14, <1>15, <1>16, <1>17, ReadTakes
<1>19. Clocked(z, p, L, d, S, later)
  BY <1>3, <1>8, <1>15, <1>16, HeadTimes
<1>20. Receives(r, L, later)' /\ Times(r, L, S, later)'
  <2>1. CASE e = p.size
    <3>1. z \in Reading
      BY <1>17 DEF Partly
    <3>2. r.pk = d + 2 /\ r.at = 0
      BY <1>14, <2>1
    <3> QED  BY <1>3, <1>8, <1>15, <1>18, <1>19, <2>1, <3>1, <3>2, ReadWhole
  <2>2. CASE e # p.size
    <3>1. r.pk = d + 1 /\ r.at = e
      BY <1>14, <2>2
    <3>2. e > 0
      BY <1>15
    <3> QED  BY <1>3, <1>8, <1>15, <1>18, <1>19, <2>2, <3>1, <3>2, ReadPart
  <2> QED  BY <2>1, <2>2
<1>21. Unread(r, W)'
  <2>1. PICK k \in Nat : k = 1 + (e - a)
    BY <1>15
  <2>2. k <= Len(wire)
    BY <1>14, <2>1 DEF Piece
  <2>3. Takes(k) /\ r.off = q.off + k
    BY <1>14, <1>18, <2>1
  <2> QED  BY <1>4, <1>8, <1>13, <2>1, <2>2, <2>3, UnreadLess
<1>22. ReadTo(C[y], L, W)'
  <2>1. ReadTo(r, L, W)'
    BY <1>3, <1>20, <1>21 DEF ReadTo
  <2> QED  BY <1>12, <2>1
<1>23. SentTo(C[Len(C)], L, W)'
  <2>1. PICK s : s = C[Len(C)]
    OBVIOUS
  <2>2. SentTo(s, L, W)'
    BY <1>2, <1>3, <1>4, <2>1 DEF SentTo
  <2> QED  BY <2>1, <2>2
<1>24. InStep(L)'
  BY <1>1, <1>3, <1>4, <1>6, <1>11, <1>22, <1>23 DEF InStep
<1> QED  BY <1>2, <1>3, <1>24

(* In step, what is next is a header, and one that can be understood. *)
LEMMA AlwaysUnderstood ==
  ASSUME NEW L, SenderOK(L), InStep(L), wire # <<>>
  PROVE  Understood(Head(wire))
<1>1. PICK N \in Nat : N = Len(finished)
  BY LineFacts
<1>2. PICK S, later : S = Bare /\ later = Later
  OBVIOUS
<1>3. L \in Seq(Sendable)
  BY LineFacts
<1>4. PICK W, C : /\ W \in Seq(Unit) /\ Cuts(C, L, W, N, S, later)
                  /\ SentTo(C[Len(C)], L, W)
                  /\ \E x \in 1..Len(C) : ReadTo(C[x], L, W)
  BY <1>1, <1>2 DEF InStep
<1>5. PICK x \in 1..Len(C) : ReadTo(C[x], L, W)
  BY <1>4
<1>6. PICK n, q : n = Len(C) /\ q = C[x]
  OBVIOUS
<1>7. n \in Nat \ {0} /\ x \in 1..n /\ \A k \in 1..n : C[k] \in Place
  BY <1>4, <1>5, <1>6, CutFacts
<1>8. q \in Place /\ Unread(q, W) /\ Receives(q, L, later)
  BY <1>2, <1>5, <1>6, <1>7 DEF ReadTo
<1>9. \E d, a, p, e, h : Here(d, a, p, e, h, q, L, S, later)
  <2>1. CASE x = n
    <3>1. SentTo(q, L, W) /\ Receives(q, L, Later)
      BY <1>2, <1>4, <1>6, <1>8, <2>1
    <3>2. \E d, a, p, e, h : Here(d, a, p, e, h, q, L, Bare, Later)
      BY <1>4, <1>8, <3>1, EndHere
    <3> QED  BY <1>2, <3>2
  <2>2. CASE x # n
    <3>1. x \in 1..(n - 1) /\ x + 1 \in 1..n
      BY <1>7, <2>2
    <3>2. PICK r \in Place : r = C[x + 1]
      BY <1>7, <3>1
    <3>3. Link(q, r, L, W, S, later)
      BY <1>4, <1>6, <3>1, <3>2 DEF Cuts
    <3> QED  BY <1>3, <1>4, <1>8, <3>2, <3>3, LinkHere
  <2> QED  BY <2>1, <2>2
<1>10. PICK d, a, p, e, h : Here(d, a, p, e, h, q, L, S, later)
  BY <1>9
<1>11. h = Head(wire)
  <2>1. wire \in Seq(Unit) /\ wire # <<>> /\ h = wire[1]
    BY <1>8, <1>10 DEF Unread, Here
  <2> QED  BY <2>1
<1> QED  BY <1>3, <1>8, <1>10, <1>11, HereFacts

-----------------------------------------------------------------------------
(* The invariant: the line grows, or starts afresh with a new connection.  *)

Course(L) == (Later /\ Apart(L)) \/ StaleOn(L) \/ InStep(L)

LEMMA CourseIs == StreamOK <=> \E L : SenderOK(L) /\ Course(L)
BY DEF StreamOK, Course

LEMMA ApartStays ==
  ASSUME NEW L, NEW L2, Longer(L, L2), Apart(L)
  PROVE  Apart(L2)
<1>1. PICK i \in 1..Len(L) : ~Told(L, i) /\ MayBeCut(L[i])
  BY DEF Apart
<1>2. i \in 0..Len(L) /\ i \in 1..Len(L2) /\ L2[i] = L[i]
  BY <1>1 DEF Longer
<1>3. ~Told(L2, i)
  BY <1>1, <1>2, SizeStays
<1> QED  BY <1>1, <1>2, <1>3 DEF Apart

LEMMA StaleStays ==
  ASSUME NEW L, NEW L2, Longer(L, L2), StaleOn(L), Shortened \subseteq Shortened'
  PROVE  StaleOn(L2)'
<1>1. PICK i \in 1..Len(L) : Stale(L[i], L, i - 1, Shortened)
  BY DEF StaleOn
<1>2. /\ i \in 1..Len(L2) /\ L2[i] = L[i]
      /\ \A k \in 1..(i - 1) : L2[k] = L[k]
  <2>1. Len(L) \in Nat /\ Len(L2) \in Nat /\ Len(L) <= Len(L2)
    BY DEF Longer
  <2>2. i \in 1..Len(L2) /\ \A k \in 1..(i - 1) : k \in 1..Len(L)
    BY <2>1
  <2> QED  BY <2>2 DEF Longer
<1>3. L[i] \in Shortened' /\ \A k \in 1..(i - 1) : Untold(L[k], L[i])
  BY <1>1 DEF Stale
<1>4. Stale(L2[i], L2, i - 1, Shortened')
  BY <1>2, <1>3 DEF Stale
<1> QED  BY <1>2, <1>4 DEF StaleOn

LEMMA StaleLast ==
  ASSUME NEW L \in Seq(Sendable), NEW p \in Sendable, NEW L2, L2 = Append(L, p),
         Stale(p, L, Len(L), Shortened')
  PROVE  StaleOn(L2)'
<1>1. PICK n \in Nat : n = Len(L)
  OBVIOUS
<1>2. Longer(L, L2) /\ Len(L2) = n + 1 /\ L2[n + 1] = p
  BY <1>1, LongerAppend
<1>3. \A k \in 1..n : L2[k] = L[k]
  BY <1>1, <1>2 DEF Longer
<1>4. (n + 1) - 1 = n /\ n + 1 \in 1..(n + 1)
  BY <1>1
<1>5. p \in Shortened' /\ \A k \in 1..n : Untold(L[k], p)
  BY <1>1 DEF Stale
<1>6. Stale(L2[n + 1], L2, (n + 1) - 1, Shortened')
  BY <1>2, <1>3, <1>4, <1>5 DEF Stale
<1> QED  BY <1>2, <1>4, <1>6 DEF StaleOn

(* nothing happens to the two sides *)
LEMMA StutterInStep ==
  ASSUME NEW L, SenderOK(L), InStep(L), UNCHANGED <<phase, finished>>,
         SentOf' = SentOf, Later' = Later, Bare' = Bare,
         UNCHANGED receiverVars, UNCHANGED wire
  PROVE  InStep(L)'
<1>1. PICK N \in Nat : N = Len(finished)
  BY LineFacts
<1>2. PICK S, later : S = Bare /\ later = Later
  OBVIOUS
<1>3. SentOf' = SentOf /\ Later' = later /\ Bare' = S
  BY <1>2
<1>4. L \in Seq(Sendable) /\ N <= Len(L) /\ Len(L) <= N + 1 /\ Len(L) \in Nat
  BY <1>1, LineFacts
<1>5. PICK W, C : /\ W \in Seq(Unit) /\ Cuts(C, L, W, N, S, later)
                  /\ SentTo(C[Len(C)], L, W)
                  /\ \E x \in 1..Len(C) : ReadTo(C[x], L, W)
  BY <1>1, <1>2 DEF InStep
<1>6. PICK x \in 1..Len(C) : ReadTo(C[x], L, W)
  BY <1>5
<1>7. PICK q, s : q = C[x] /\ s = C[Len(C)]
  OBVIOUS
<1>8. SentTo(s, L, W)'
  BY <1>2, <1>3, <1>5, <1>7 DEF SentTo
<1>9. ReadTo(q, L, W)'
  <2>1. q.pk \in 1..(N + 1) /\ Receives(q, L, later) /\ Times(q, L, S, later) /\ Unread(q, W)
    BY <1>2, <1>5, <1>6, <1>7, CutFacts DEF ReadTo
  <2>2. Receives(q, L, later)' /\ Times(q, L, S, later)'
    BY <2>1 DEF Receives, Times, receiverVars
  <2>3. Unread(q, W)'
    BY <2>1 DEF Unread
  <2> QED  BY <1>3, <2>2, <2>3 DEF ReadTo
<1> QED  BY <1>1, <1>3, <1>5, <1>6, <1>7, <1>8, <1>9 DEF InStep

LEMMA BeginKeeps ==
  ASSUME StreamOK, ~raced',
         \/ SendConnectPacket \/ AnnounceChunkSize \/ SendFront
         \/ \E n \in ApiChunks : ChangeChunkSize(n)
  PROVE  StreamOK'
<1>1. PICK L : SenderOK(L) /\ Course(L)
  BY CourseIs
<1>2. PICK t, p, h : Begins(t, p, h) /\ Goes(h, p, L, Bare', Shortened', Later)
  BY <1>1, SendBegins
<1>3. PICK L2 : L2 = Append(L, p)
  OBVIOUS
<1>4. SenderOK(L2)'
  BY <1>1, <1>2, <1>3, BeginKeepsSender
<1>5. Later' = Later /\ Shortened \subseteq Shortened'
  BY <1>1, <1>2, BeginSends
<1>6. p \in Sendable /\ L \in Seq(Sendable)
  BY <1>1, <1>2, LineFacts DEF Begins
<1>7. Longer(L, L2)
  BY <1>3, <1>6, LongerAppend
<1>8. CASE Later /\ Apart(L)
  <2>1. Apart(L2)
    BY <1>7, <1>8, ApartStays
  <2> QED  BY <1>4, <1>5, <1>8, <2>1 DEF StreamOK
<1>9. CASE StaleOn(L)
  <2>1. StaleOn(L2)'
    BY <1>5, <1>7, <1>9, StaleStays
  <2> QED  BY <1>4, <2>1 DEF StreamOK
<1>10. CASE InStep(L) /\ Fits(h, p, L, Len(L), Bare', Later)
  <2>1. InStep(L2)'
    BY <1>1, <1>2, <1>3, <1>10, BeginInStep
  <2> QED  BY <1>4, <2>1 DEF StreamOK
<1>11. CASE Stale(p, L, Len(L), Shortened')
  <2>1. PICK Z : Z = Shortened'
    OBVIOUS
  <2>2. StaleOn(L2)'
    BY <1>3, <1>6, <1>11, <2>1, StaleLast
  <2> QED  BY <1>4, <2>2 DEF StreamOK
<1> QED  BY <1>1, <1>2, <1>8, <1>9, <1>10, <1>11 DEF Course, Goes

LEMMA WriteKeeps ==
  ASSUME StreamOK, ~raced', NEW t \in Thread, WriteChunk(t) \/ WriteFails(t)
  PROVE  StreamOK'
<1>1. PICK L : SenderOK(L) /\ Course(L)
  BY CourseIs
<1>2. SenderOK(L)' /\ Later' = Later /\ Shortened' = Shortened /\ Bare' = Bare
  <2>1. CASE WriteChunk(t)
    BY <1>1, <2>1, OutKeepsSender, OnKeepsSender
  <2>2. CASE WriteFails(t)
    BY <1>1, <2>2, FailKeepsSender
  <2> QED  BY <2>1, <2>2
<1>4. CASE Later /\ Apart(L)
  BY <1>2, <1>4 DEF StreamOK
<1>5. CASE StaleOn(L)
  <2>1. StaleOn(L)'
    BY <1>2, <1>5 DEF StaleOn
  <2> QED  BY <1>2, <2>1 DEF StreamOK
<1>6. CASE ~(Later /\ Apart(L)) /\ ~StaleOn(L) /\ InStep(L)
  <2>1. InStep(L)'
    BY <1>1, <1>6, WriteInStep, FailInStep
  <2> QED  BY <1>2, <2>1 DEF StreamOK
<1> QED  BY <1>1, <1>4, <1>5, <1>6 DEF Course

LEMMA ConnectKeeps ==
  ASSUME StreamOK, CloseAndConnect \/ ReconnectSocket
  PROVE  StreamOK'
<1>1. PICK L : SenderOK(L)
  BY DEF StreamOK
<1>2. SenderOK(<<>>)' /\ InStep(<<>>)'
  BY <1>1, ConnectStartsSender, ConnectInStep
<1> QED  BY <1>2 DEF StreamOK

LEMMA ReceiveKeeps ==
  ASSUME StreamOK, ReadPacket \/ LoseSync
  PROVE  StreamOK'
<1>1. PICK L : SenderOK(L) /\ Course(L)
  BY CourseIs
<1>2. UNCHANGED <<phase, current, front, popped, hasSent, senderVars, finished, connections>>
  BY DEF ReadPacket, LoseSync, fifoVars
<1>3. SenderOK(L)' /\ Later' = Later /\ Shortened' = Shortened /\ Bare' = Bare
  BY <1>1, <1>2, SenderStays
<1>4. CASE Later /\ Apart(L)
  BY <1>3, <1>4 DEF StreamOK
<1>5. CASE StaleOn(L)
  <2>1. StaleOn(L)'
    BY <1>3, <1>5 DEF StaleOn
  <2> QED  BY <1>3, <2>1 DEF StreamOK
<1>6. CASE InStep(L)
  <2>1. ~LoseSync
    BY <1>1, <1>6, AlwaysUnderstood DEF LoseSync
  <2>2. InStep(L)'
    BY <1>1, <1>6, <2>1, ReadInStep
  <2> QED  BY <1>3, <2>2 DEF StreamOK
<1> QED  BY <1>1, <1>4, <1>5, <1>6 DEF Course

(* a packet that is not there is passed over *)
LEMMA NothingKeepsSender ==
  ASSUME NEW L, SenderOK(L), NothingToSend
  PROVE  /\ SenderOK(L)' /\ (Busy' <=> Busy) /\ SentOf' = SentOf
         /\ Later' = Later /\ Shortened' = Shortened /\ Bare' = Bare
<1>1. PICK m \in Media : /\ Front(m) /\ ToSend(m) # m
                         /\ hasSent' = hasSent \cup {ToSend(m)}
  BY DEF NothingToSend
<1>2. /\ phase = "media" /\ Idle("stream") /\ m \notin popped
      /\ front \in {NONE, m} /\ front' = m
      /\ UNCHANGED <<phase, popped, current, outChunk, chunkSize, prevOut, body,
                     headerType, finished, connections>>
  BY <1>1 DEF Front, NothingToSend, senderVars
<1>3. ToSend(m) \in Headers /\ m # NONE
  BY <1>1, ToSendFacts, MediaFacts, NotNone
<1>4. /\ Idle("stream")' <=> Idle("stream")
      /\ Idle("api")' <=> Idle("api")
      /\ Sending' = Sending /\ (Busy' <=> Busy) /\ SentOf' = SentOf
      /\ Later' = Later /\ Shortened' = Shortened /\ Bare' = Bare
  BY <1>2 DEF Idle, Sending, Busy, SentOf, Later, Shortened, Bare
<1>5. phase \notin Failed
  BY <1>2 DEF Failed
<1>6. Turns'
  BY <1>2, <1>4 DEF SenderOK, Turns
<1>7. OnLine(L)'
  BY <1>2, <1>4, <1>5 DEF SenderOK, OnLine
<1>8. Fronts(L)'
  <2>1. /\ popped \subseteq Media /\ hasSent' \subseteq Headers
        /\ headerType \in [Media -> 0..3]
        /\ \A k \in Media : /\ headerType[k] = LARGE <=> k.large
                            /\ k \notin popped /\ k # front => headerType[k] <= MEDIUM
    BY <1>1, <1>3 DEF SenderOK, Fronts
  <2>2. ASSUME NEW k \in Media, k \notin popped, k # m PROVE headerType[k] <= MEDIUM
    <3>1. k # front
      BY <1>2, <2>2, MediaFacts, NotNone
    <3> QED  BY <2>1, <2>2, <3>1
  <2>3. ASSUME headerType[m] > MEDIUM PROVE Later /\ \A i \in 1..Len(L) : L[i] \notin Media
    <3>1. front = m
      <4>1. headerType[m] \in 0..3 /\ ~(headerType[m] <= MEDIUM)
        BY <2>1, <2>3, Types
      <4> QED  BY <1>2, <2>1, <4>1
    <3> QED  BY <1>2, <1>3, <1>5, <2>3, <3>1 DEF SenderOK, Fronts
  <2> QED  BY <1>2, <1>4, <2>1, <2>2, <2>3 DEF Fronts
<1>9. ChunkSizes(L)'
  BY <1>2, <1>4 DEF SenderOK, ChunkSizes
<1>10. Bodies'
  BY <1>2, <1>4 DEF SenderOK, Bodies
<1>11. InHand(L)'
  BY <1>2, <1>4 DEF SenderOK, InHand, StaleOn
<1>12. SenderMemory'
  BY <1>2, <1>4 DEF SenderOK, SenderMemory
<1> QED  BY <1>4, <1>6, <1>7, <1>8, <1>9, <1>10, <1>11, <1>12 DEF SenderOK

LEMMA StutterKeeps ==
  ASSUME StreamOK, UNCHANGED vars \/ NothingToSend
  PROVE  StreamOK'
<1>1. PICK L : SenderOK(L) /\ Course(L)
  BY CourseIs
<1>2. UNCHANGED <<phase, finished>> /\ UNCHANGED receiverVars /\ UNCHANGED wire
  BY DEF vars, NothingToSend
<1>3. /\ SenderOK(L)' /\ SentOf' = SentOf
      /\ Later' = Later /\ Shortened' = Shortened /\ Bare' = Bare
  <2>1. CASE UNCHANGED vars
    <3>1. UNCHANGED <<phase, current, front, popped, hasSent, senderVars, finished,
                      connections>>
      BY <2>1 DEF vars, fifoVars
    <3> QED  BY <1>1, <3>1, SenderStays
  <2>2. CASE NothingToSend
    BY <1>1, <2>2, NothingKeepsSender
  <2> QED  BY <2>1, <2>2
<1>4. CASE Later /\ Apart(L)
  BY <1>3, <1>4 DEF StreamOK
<1>5. CASE StaleOn(L)
  <2>1. StaleOn(L)'
    BY <1>3, <1>5 DEF StaleOn
  <2> QED  BY <1>3, <2>1 DEF StreamOK
<1>6. CASE InStep(L)
  <2>1. InStep(L)'
    BY <1>1, <1>2, <1>3, <1>6, StutterInStep
  <2> QED  BY <1>3, <2>1 DEF StreamOK
<1> QED  BY <1>1, <1>4, <1>5, <1>6 DEF Course

(***************************************************************************)
(* The invariant: unless a call of changeChunkSize overlapped a packet or  *)
(* a failure, the sender and the receiver, each at its own place, cut the  *)
(* stream of the connection in the same way, or a packet that may be cut   *)
(* was sent before a chunk size was announced on a new connection, or one  *)
(* whose header was shortened for an earlier one and tells too little.     *)
(***************************************************************************)
THEOREM StreamInvariant == Spec => []Invariant
<1>1. Init => Invariant
  <2>1. SUFFICES ASSUME Init PROVE StreamOK
    BY DEF Invariant
  <2> QED  BY <2>1, SenderStarts, StartsInStep DEF StreamOK
<1>2. Invariant /\ [Next]_vars => Invariant'
  <2>1. SUFFICES ASSUME Invariant, Next \/ UNCHANGED vars, ~raced' PROVE StreamOK'
    BY DEF Invariant
  <2>2. ~raced
    BY <2>1 DEF Next, vars, SendConnectPacket, AnnounceChunkSize, SendFront,
        NoteOverlap, WriteChunk, WriteFails, CloseAndConnect, ReconnectSocket,
        NewConnection, ChangeChunkSize, ReadPacket, LoseSync, NothingToSend,
        Quiet
  <2>3. StreamOK
    BY <2>1, <2>2 DEF Invariant
  <2>4. CASE \/ SendConnectPacket \/ AnnounceChunkSize \/ SendFront
             \/ \E n \in ApiChunks : ChangeChunkSize(n)
    BY <2>1, <2>3, <2>4, BeginKeeps
  <2>5. CASE \E t \in Thread : WriteChunk(t) \/ WriteFails(t)
    BY <2>1, <2>3, <2>5, WriteKeeps
  <2>6. CASE CloseAndConnect \/ ReconnectSocket
    BY <2>3, <2>6, ConnectKeeps
  <2>7. CASE ReadPacket \/ LoseSync
    BY <2>3, <2>7, ReceiveKeeps
  <2>8. CASE UNCHANGED vars \/ NothingToSend
    BY <2>3, <2>8, StutterKeeps
  <2>9. Quiet => UNCHANGED vars
    BY DEF Quiet
  <2> QED  BY <2>1, <2>4, <2>5, <2>6, <2>7, <2>8, <2>9 DEF Next
<1> QED  BY <1>1, <1>2, PTL DEF Spec

-----------------------------------------------------------------------------
(* What the invariant says of the states of ChunkStream.                   *)

LEMMA ApartShows ==
  ASSUME NEW L, SenderOK(L), Later, Apart(L)
  PROVE  CutApart
<1>1. PICK i \in 1..Len(L) : ~Told(L, i) /\ MayBeCut(L[i])
  BY DEF Apart
<1>2. PICK N \in Nat : N = Len(finished)
  BY LineFacts
<1>3. PICK M \in Nat : M = Len(L) /\ N <= M /\ M <= N + 1
  BY <1>2, LineFacts
<1>4. \A j \in 1..N : L[j] = finished[j]
  BY <1>2, LineFacts
<1>5. ASSUME NEW n \in Nat, n <= N, n <= i PROVE ~Announced(n)
  <2>1. \A j \in 1..n : j \in 1..N /\ j \in 1..i
    BY <1>1, <1>2, <1>5
  <2> QED  BY <1>1, <1>4, <2>1 DEF Announced, Told
<1>6. CASE i <= N
  <2>1. i \in 1..Len(finished) /\ finished[i] = L[i]
    BY <1>1, <1>2, <1>4, <1>6
  <2>2. ~Announced(i)
    BY <1>1, <1>5, <1>6
  <2> QED  BY <1>1, <2>1, <2>2 DEF CutApart, Later
<1>7. CASE ~(i <= N)
  <2>1. i = M /\ M = N + 1 /\ L[M] \in Sendable
    <3>1. i = M /\ M = N + 1
      BY <1>1, <1>3, <1>7
    <3> QED  BY <1>1, <1>3, <3>1, LineFacts
  <2>2. ~Announced(Len(finished))
    BY <1>2, <1>5, <2>1
  <2>3. CASE Busy
    <3>1. L[M] = Sending.packet
      BY <1>3, <2>3, BusyFacts
    <3>2. \E t \in Thread : ~Idle(t) /\ current[t] = Sending
      BY <2>3 DEF Busy, Sending, Idle, Thread
    <3> QED  BY <1>1, <2>1, <2>2, <3>1, <3>2 DEF CutApart, Later
  <2>4. CASE ~Busy
    <3>1. phase \in Failed
      <4>1. M # N
        BY <1>2, <1>3, <2>1
      <4> QED  BY <1>2, <1>3, <2>4, <4>1 DEF SenderOK, OnLine
    <3>2. \/ L[M] \in {ConnectPacket} \cup Announcing
          \/ front # NONE /\ L[M] = ToSend(front)
      <4>1. M > N
        BY <1>2, <1>3, <2>1
      <4> QED  BY <1>2, <1>3, <3>1, <4>1 DEF SenderOK, OnLine
    <3>3. L[M] \notin Announcing
      BY <1>1, <2>1, PacketFacts
    <3>4. MayBeCut(L[M])
      BY <1>1, <2>1
    <3> QED  BY <2>2, <3>1, <3>2, <3>3, <3>4 DEF CutApart, Later, Failed
  <2> QED  BY <2>3, <2>4
<1> QED  BY <1>6, <1>7

LEMMA StaleShows ==
  ASSUME NEW L, SenderOK(L), StaleOn(L)
  PROVE  \E m \in Media : StaleHeader(m)
<1>1. PICK i \in 1..Len(L) : Stale(L[i], L, i - 1, Shortened)
  BY DEF StaleOn
<1>2. PICK m \in Media : /\ m = L[i] /\ connections > 1 /\ ~m.large
                         /\ headerType[m] > MEDIUM
                         /\ \A k \in 1..(i - 1) : Untold(L[k], m)
  BY <1>1 DEF Stale, Shortened, Later
<1>3. PICK N \in Nat, M \in Nat :
         /\ N = Len(finished) /\ M = Len(L) /\ N <= M /\ M <= N + 1
         /\ \A j \in 1..N : L[j] = finished[j]
  BY LineFacts
<1>4. m \notin popped \/ \E k \in 1..N : finished[k] = m
  <2>1. CASE i <= N
    <3>1. i \in 1..N
      BY <1>1, <1>3, <2>1
    <3> QED  BY <1>2, <1>3, <3>1
  <2>2. CASE ~(i <= N)
    <3>1. i = M /\ M = N + 1 /\ M # N
      BY <1>1, <1>3, <2>2
    <3>2. CASE Busy
      <4>1. L[M] = Sending.packet
        BY <1>3, <3>2, BusyFacts
      <4> QED  BY <1>2, <3>1, <3>2, <4>1, BusyFacts
    <3>3. CASE ~Busy
      <4>1. phase \in Failed /\ M > N
        BY <1>3, <3>1, <3>3 DEF SenderOK, OnLine
      <4>2. m \notin Announcing /\ m # ConnectPacket
        BY SetUpFacts
      <4>3. front # NONE /\ m = ToSend(front)
        BY <1>2, <1>3, <3>1, <4>1, <4>2 DEF SenderOK, OnLine
      <4>4. front \in Media \ popped
        BY <4>3 DEF SenderOK, Fronts
      <4> QED  BY <4>3, <4>4, ToSendFacts
    <3> QED  BY <3>2, <3>3
  <2> QED  BY <2>1, <2>2
<1>5. ASSUME NEW j \in 1..N
      PROVE  Untold(finished[j], m) \/ \E k \in 1..j : finished[k] = m
  <2>1. CASE j < i
    <3>1. j \in 1..(i - 1)
      BY <1>1, <2>1
    <3> QED  BY <1>2, <1>3, <1>5, <3>1
  <2>2. CASE ~(j < i)
    <3>1. i \in 1..N /\ i \in 1..j
      BY <1>1, <1>3, <2>2
    <3> QED  BY <1>2, <1>3, <3>1
  <2> QED  BY <2>1, <2>2
<1>6. StaleHeader(m)
  BY <1>2, <1>3, <1>4, <1>5 DEF StaleHeader
<1> QED  BY <1>6

LEMMA InvariantShows ==
  ASSUME Invariant, ~OutOfStep
  PROVE  \E L : SenderOK(L) /\ InStep(L)
<1>1. PICK L : SenderOK(L) /\ Course(L)
  BY CourseIs DEF Invariant, OutOfStep
<1>2. ~(Later /\ Apart(L))
  BY <1>1, ApartShows DEF OutOfStep
<1>3. ~StaleOn(L)
  BY <1>1, StaleShows DEF OutOfStep
<1> QED  BY <1>1, <1>2, <1>3 DEF Course

(* what was delivered, when the receiver is in step *)
LEMMA DeliveredInStep ==
  ASSUME NEW L, SenderOK(L), InStep(L)
  PROVE  /\ lostSync = FALSE /\ Len(delivered) \in Nat /\ Len(finished) \in Nat
         /\ Len(delivered) <= Len(finished)
         /\ \A i \in 1..Len(finished) : L[i] = finished[i] /\ finished[i] \in Sendable
         /\ \A i \in 1..Len(delivered) :
              /\ delivered[i] \in Given
              /\ GivenAs(delivered[i], finished[i], Later)
              /\ delivered[i].ts # finished[i].ts => Excused(L, i, Bare, Later)
<1>1. PICK N \in Nat : N = Len(finished)
  BY LineFacts
<1>2. PICK W, C : /\ Cuts(C, L, W, N, Bare, Later)
                  /\ \E x \in 1..Len(C) : ReadTo(C[x], L, W)
  BY <1>1 DEF InStep
<1>3. PICK x \in 1..Len(C) : ReadTo(C[x], L, W)
  BY <1>2
<1>4. PICK q : q = C[x]
  OBVIOUS
<1>5. q.pk \in 1..(N + 1) /\ Receives(q, L, Later) /\ Times(q, L, Bare, Later)
  <2>1. PICK S, later : S = Bare /\ later = Later
    OBVIOUS
  <2>2. Cuts(C, L, W, N, S, later)
    BY <1>2, <2>1
  <2>3. q.pk \in 1..(N + 1)
    BY <1>3, <1>4, <2>2, CutFacts
  <2> QED  BY <1>3, <1>4, <2>3 DEF ReadTo
<1>6. PICK d \in Nat : d = Len(delivered) /\ q.pk = d + 1 /\ delivered \in Seq(Given)
  BY <1>5 DEF Receives
<1>7. d <= N
  BY <1>5, <1>6
<1>8. \A i \in 1..N : L[i] = finished[i] /\ finished[i] \in Sendable
  BY <1>1, LineFacts
<1>9. \A i \in 1..d : i \in 1..N
  BY <1>7
<1>10. \A i \in 1..d : /\ GivenAs(delivered[i], L[i], Later)
                       /\ delivered[i].ts # L[i].ts => Excused(L, i, Bare, Later)
  BY <1>5, <1>6 DEF Receives, Times
<1>11. \A i \in 1..d : delivered[i] \in Given
  BY <1>6
<1>12. lostSync = FALSE
  BY <1>5 DEF Receives
<1> QED  BY <1>1, <1>6, <1>7, <1>8, <1>9, <1>10, <1>11, <1>12

(***************************************************************************)
(* The receiver takes a byte of a body for a chunk header, or gets a chunk *)
(* size that is none, only after a changeChunkSize that overlapped a       *)
(* packet or a failure, after a packet that may be cut was sent on a new   *)
(* connection before a chunk size was announced on it, or with a packet    *)
(* whose header was shortened for an earlier connection: whatever the      *)
(* packets, the chunk sizes, the failures and their number are.            *)
(***************************************************************************)
THEOREM KeepsInSync == Spec => []SyncUnlessRacedOrStale
<1>1. Invariant => SyncUnlessRacedOrStale
  <2>1. SUFFICES ASSUME Invariant, ~OutOfStep PROVE InSync
    BY DEF SyncUnlessRacedOrStale
  <2> QED  BY <2>1, InvariantShows, DeliveredInStep DEF InSync
<1> QED  BY <1>1, StreamInvariant, PTL

(***************************************************************************)
(* In step, what is delivered has the size of what was sent and differs    *)
(* from it only in bytes of a media packet sent again on a new connection, *)
(* where the attempt that failed wrote the header of its next chunk: at    *)
(* multiples of a chunk size of the client, and never the last byte.       *)
(***************************************************************************)
THEOREM DamagesOnlyWhereCut == Spec => []DamagedOnlyWhereCut
<1>1. Invariant => DamagedOnlyWhereCut
  <2>1. SUFFICES ASSUME Invariant, ~OutOfStep, NEW i \in 1..Len(delivered)
        PROVE  /\ Len(delivered[i].body) = finished[i].size
               /\ \A k \in DamagedAt(delivered[i], finished[i]) :
                     /\ connections > 1 /\ finished[i] \in Media
                     /\ \E n \in {ClientChunk} \cup ApiChunks : k % n = 0
                     /\ k < finished[i].size
    BY DEF DamagedOnlyWhereCut
  <2>2. PICK L : SenderOK(L) /\ InStep(L)
    BY <2>1, InvariantShows
  <2>3. PICK g, p : g = delivered[i] /\ p = finished[i]
    OBVIOUS
  <2>4. GivenAs(g, p, Later)
    BY <2>1, <2>2, <2>3, DeliveredInStep
  <2>5. Len(g.body) = p.size
    BY <2>4 DEF GivenAs
  <2>6. ASSUME NEW k \in DamagedAt(g, p) PROVE Later /\ Overwritten(g.body[k], p, k)
    BY <2>4, <2>6 DEF GivenAs, DamagedAt, MayBe
  <2> QED  BY <2>3, <2>5, <2>6 DEF Overwritten, MediaSizes, Later
<1> QED  BY <1>1, StreamInvariant, PTL

LEMMA ExcusedShows ==
  ASSUME NEW L, NEW N \in Nat, N = Len(finished),
         \A j \in 1..N : L[j] = finished[j] /\ L[j] \in Sendable,
         NEW i \in 1..N, Excused(L, i, Bare, Later)
  PROVE  \E j \in 1..i : /\ finished[j].channel = finished[i].channel
                         /\ Repeats(j) \/ StartsLate(j)
                         /\ \A k \in j..i : finished[k].channel = finished[i].channel
                                                => ~finished[k].large
<1>1. PICK j \in 1..i :
         /\ L[j].channel = L[i].channel
         /\ Repeated(L, j) \/ Late(L[j], L, j - 1, Bare, Later)
         /\ \A k \in j..i : L[k].channel = L[i].channel => ~L[k].large
  BY DEF Excused
<1>2. j \in 1..N /\ (\A k \in j..i : k \in 1..N) /\ \A k \in 1..(j - 1) : k \in 1..N
  BY <1>1
<1>3. Repeated(L, j) => Repeats(j)
  <2>1. SUFFICES ASSUME Repeated(L, j) PROVE Repeats(j)
    OBVIOUS
  <2>2. PICK h \in 1..(j - 1) :
          /\ L[h].channel = L[j].channel /\ L[h].ts = L[j].ts
          /\ \A k \in (h + 1)..(j - 1) : L[k].channel # L[j].channel
    BY <2>1 DEF Repeated
  <2>3. h \in 1..N /\ \A k \in (h + 1)..(j - 1) : k \in 1..N
    BY <1>2, <2>2
  <2> QED  BY <1>2, <2>2, <2>3 DEF Repeats
<1>4. ASSUME Late(L[j], L, j - 1, Bare, Later) PROVE StartsLate(j)
  <2>1. L[j] \in Media
    <3>1. j \in j..i
      OBVIOUS
    <3>2. L[j] \in Sendable /\ ~L[j].large
      BY <1>1, <1>2, <3>1
    <3> QED  BY <3>2, PacketKinds
  <2>2. \A h \in 1..(j - 1) : L[h] = finished[h]
    BY <1>2
  <2>3. L[j] = finished[j]
    BY <1>2
  <2>4. CASE First(L, j - 1, L[j].channel) /\ Later
    BY <2>1, <2>2, <2>3, <2>4 DEF First, StartsLate, Later
  <2>5. CASE L[j] \in Bare /\ Newly(L, j - 1, L[j].channel)
    <3>1. connections > 1 /\ headerType[L[j]] = MINIMUM
      BY <2>5 DEF Bare, Shortened, Later
    <3> QED  BY <2>1, <2>2, <2>3, <2>5, <3>1 DEF Newly, StartsLate
  <2> QED  BY <1>4, <2>4, <2>5 DEF Late
<1>5. \A k \in j..i : finished[k].channel = finished[i].channel => ~finished[k].large
  BY <1>1, <1>2
<1> QED  BY <1>1, <1>2, <1>3, <1>4, <1>5

(***************************************************************************)
(* In step, a delivered timestamp differs from the one sent only because,  *)
(* since the last full header of the channel, a packet repeated the time-  *)
(* stamp of the one before it, or started the FIFO's packets of the        *)
(* channel on a new connection: with nothing before it, or behind the SPS  *)
(* packet with a header that was bare already.                             *)
(***************************************************************************)
THEOREM DriftsNeedARepeat == Spec => []DriftNeedsARepeat
<1>1. Invariant => DriftNeedsARepeat
  <2>1. SUFFICES ASSUME Invariant, ~OutOfStep, NEW i \in 1..Len(delivered),
                        delivered[i].ts # finished[i].ts
        PROVE  \E j \in 1..i :
                 /\ finished[j].channel = finished[i].channel
                 /\ Repeats(j) \/ StartsLate(j)
                 /\ \A k \in j..i : finished[k].channel = finished[i].channel
                                        => ~finished[k].large
    BY DEF DriftNeedsARepeat
  <2>2. PICK L : SenderOK(L) /\ InStep(L)
    BY <2>1, InvariantShows
  <2>3. PICK N \in Nat : /\ N = Len(finished) /\ i \in 1..N
                         /\ \A j \in 1..N : L[j] = finished[j] /\ L[j] \in Sendable
    <3>1. PICK N \in Nat, d \in Nat : N = Len(finished) /\ d = Len(delivered) /\ d <= N
      BY <2>2, DeliveredInStep
    <3>2. i \in 1..N
      BY <2>1, <3>1
    <3>3. \A j \in 1..N : L[j] = finished[j] /\ L[j] \in Sendable
      BY <2>2, <3>1, DeliveredInStep
    <3> QED  BY <3>1, <3>2, <3>3
  <2>4. Excused(L, i, Bare, Later)
    BY <2>1, <2>2, DeliveredInStep
  <2> QED  BY <2>3, <2>4, ExcusedShows
<1> QED  BY <1>1, StreamInvariant, PTL
-----------------------------------------------------------------------------
(* When nothing moves, everything has arrived. *)

LEMMA StuckInStep ==
  ASSUME NEW L, SenderOK(L), InStep(L), ~Busy, phase \notin Failed, ~CanRead
  PROVE  wire = <<>> /\ Len(delivered) = Len(finished)
<1>2. PICK N \in Nat : N = Len(finished)
  BY LineFacts
<1>3. PICK S, later : S = Bare /\ later = Later
  OBVIOUS
<1>4. PICK W, C : /\ W \in Seq(Unit) /\ Cuts(C, L, W, N, S, later)
                  /\ SentTo(C[Len(C)], L, W)
                  /\ \E x \in 1..Len(C) : ReadTo(C[x], L, W)
  BY <1>2, <1>3 DEF InStep
<1>5. PICK x \in 1..Len(C) : ReadTo(C[x], L, W)
  BY <1>4
<1>6. PICK n, q : n = Len(C) /\ q = C[x]
  OBVIOUS
<1>7. n \in Nat \ {0} /\ x \in 1..n /\ \A k \in 1..n : C[k] \in Place
  BY <1>4, <1>5, <1>6, CutFacts
<1>8. q \in Place /\ Unread(q, W) /\ Receives(q, L, later)
  BY <1>3, <1>5, <1>6, <1>7 DEF ReadTo
<1>9. L \in Seq(Sendable)
  BY LineFacts
<1>10. CASE x # n
  <2>1. x \in 1..(n - 1) /\ x + 1 \in 1..n
    BY <1>7, <1>10
  <2>2. PICK r \in Place : r = C[x + 1]
    BY <1>7, <2>1
  <2>3. Link(q, r, L, W, S, later)
    BY <1>4, <1>6, <2>1, <2>2 DEF Cuts
  <2>4. PICK d, a, p, e, h : Here(d, a, p, e, h, q, L, S, later)
                             /\ Piece(wire, p, a, e, later)
    BY <1>4, <1>8, <1>9, <2>2, <2>3, LinkHere
  <2>5. Understood(h) /\ ToRead(Resumed(h)) = e - a
    BY <1>8, <1>9, <2>4, HereFacts
  <2>6. /\ d \in Nat /\ d + 1 \in 1..Len(L) /\ p = L[d + 1] /\ (d + 1) - 1 = d
        /\ h = wire[1] /\ a \in Nat /\ e \in Nat /\ a < e
    BY <2>4 DEF Here
  <2>8. wire \in Seq(Unit) /\ Len(wire) \in Nat /\ 1 + (e - a) <= Len(wire)
    BY <1>8, <2>4 DEF Unread, Piece
  <2>9. wire # <<>> /\ Head(wire) = h /\ Len(wire) > e - a
    <3>1. Len(wire) > e - a /\ Len(wire) # 0
      BY <2>6, <2>8
    <3> QED  BY <2>6, <2>8, <3>1
  <2>10. CanRead
    BY <2>5, <2>9 DEF CanRead
  <2> QED  BY <2>10
<1>11. CASE x = n
  <2>1. SentTo(q, L, W)
    BY <1>4, <1>6, <1>11
  <2>2. q.pk = N + 1 /\ q.off = Len(W)
    BY <1>2, <2>1 DEF SentTo
  <2>3. PICK d \in Nat : d = Len(delivered) /\ q.pk = d + 1
    BY <1>8 DEF Receives
  <2>4. d = N
    BY <1>2, <2>2, <2>3
  <2>5. wire \in Seq(Unit) /\ Len(wire) = 0
    <3>1. wire \in Seq(Unit) /\ q.off + Len(wire) = Len(W)
      BY <1>8 DEF Unread
    <3>2. PICK k \in Nat, w \in Nat : k = Len(wire) /\ w = Len(W)
      BY <1>4, <3>1
    <3>3. w + k = w
      BY <2>2, <3>1, <3>2
    <3>4. k = 0
      BY <3>2, <3>3
    <3> QED  BY <3>1, <3>2, <3>4
  <2> QED  BY <1>2, <2>3, <2>4, <2>5
<1> QED  BY <1>10, <1>11

(***************************************************************************)
(* In step, the receiver never waits for bytes that the sender believes it *)
(* has sent: when no send is in progress, none has failed and nothing more *)
(* can be read, every packet that was sent has been delivered.             *)
(***************************************************************************)
THEOREM StuckOnlyOutOfStep == Spec => [](OutOfStep \/ NothingStuck)
<1>1. Invariant => OutOfStep \/ NothingStuck
  <2>1. SUFFICES ASSUME Invariant, ~OutOfStep, \A t \in Thread : Idle(t),
                        phase \notin Failed, ~CanRead
        PROVE  wire = <<>> /\ Len(delivered) = Len(finished)
    BY DEF NothingStuck, Failed
  <2>2. PICK L : SenderOK(L) /\ InStep(L)
    BY <2>1, InvariantShows
  <2>3. ~Busy
    BY <2>1 DEF Busy, Sending, Idle, Thread
  <2> QED  BY <2>1, <2>2, <2>3, StuckInStep
<1> QED  BY <1>1, StreamInvariant, PTL
-----------------------------------------------------------------------------
(* One connection, on which only the stream thread sends. *)

Alone == MaxConnections = 1 /\ MaxApiCalls = 0

Undisturbed == /\ connections = 1 /\ apiCalls = 0 /\ ~raced
               /\ Idle("api") /\ phase \notin Failed
               /\ current = [t \in Thread |-> current[t]]

LEMMA OnlyStream ==
  ASSUME NEW c, c = [t \in Thread |-> c[t]], NEW x
  PROVE  LET d == [c EXCEPT !["stream"] = x]
         IN  d["api"] = c["api"] /\ d = [t \in Thread |-> d[t]]
BY DEF Thread

LEMMA StaysUndisturbed == ASSUME Alone PROVE Spec => []Undisturbed
<1>1. Init => Undisturbed
  BY DEF Init, Undisturbed, Idle, Thread, Failed
<1>2. Undisturbed /\ [Next]_vars => Undisturbed'
  <2>1. SUFFICES ASSUME Undisturbed, Next \/ UNCHANGED vars PROVE Undisturbed'
    OBVIOUS
  <2>2. connections = 1 /\ apiCalls = 0 /\ MaxConnections = 1 /\ MaxApiCalls = 0
    BY <2>1 DEF Undisturbed, Alone
  <2>3. ~ \E t \in Thread : WriteFails(t)
    BY <2>2 DEF WriteFails
  <2>4. ~CloseAndConnect /\ ~ReconnectSocket
    BY <2>1 DEF Undisturbed, CloseAndConnect, ReconnectSocket, Failed
  <2>5. ~ \E n \in ApiChunks : ChangeChunkSize(n)
    BY <2>2 DEF ChangeChunkSize
  <2>6. CASE SendConnectPacket
    <3>1. PICK x : current' = [current EXCEPT !["stream"] = x]
      BY <2>6 DEF SendConnectPacket, SendPacket
    <3>2. current'["api"] = current["api"] /\ current' = [t \in Thread |-> current'[t]]
      BY <2>1, <3>1, OnlyStream DEF Undisturbed
    <3> QED  BY <2>1, <2>6, <3>2 DEF SendConnectPacket, NoteOverlap, Undisturbed, Idle, Failed
  <2>7. CASE AnnounceChunkSize
    <3>1. PICK x : current' = [current EXCEPT !["stream"] = x]
      BY <2>7 DEF AnnounceChunkSize, SendChunkSize
    <3>2. current'["api"] = current["api"] /\ current' = [t \in Thread |-> current'[t]]
      BY <2>1, <3>1, OnlyStream DEF Undisturbed
    <3> QED  BY <2>1, <2>7, <3>2 DEF AnnounceChunkSize, SendChunkSize, NoteOverlap, Undisturbed, Idle, Failed
  <2>8. CASE SendFront
    <3>1. PICK x : current' = [current EXCEPT !["stream"] = x]
      BY <2>8 DEF SendFront, SendPacket
    <3>2. current'["api"] = current["api"] /\ current' = [t \in Thread |-> current'[t]]
      BY <2>1, <3>1, OnlyStream DEF Undisturbed
    <3> QED  BY <2>1, <2>8, <3>2 DEF SendFront, NoteOverlap, Undisturbed, Idle, Failed
  <2>9. ASSUME NEW t \in Thread, WriteChunk(t) PROVE Undisturbed'
    <3>1. t # "api" /\ t = "stream"
      BY <2>1, <2>9 DEF WriteChunk, Undisturbed, Idle, Thread
    <3>2. current'["api"] = current["api"] /\ current' = [u \in Thread |-> current'[u]]
      <4>1. PICK x : current' = [current EXCEPT !["stream"] = x]
        <5>1. CASE current' = [current EXCEPT ![t] = NONE]
          BY <3>1, <5>1
        <5>2. CASE current' # [current EXCEPT ![t] = NONE]
          <6>1. PICK e, h : current' = [current EXCEPT ![t].at = e, ![t].header = h]
            BY <2>9, <5>2 DEF WriteChunk
          <6>2. PICK s2 : s2 = [current[t] EXCEPT !.at = e, !.header = h]
            OBVIOUS
          <6>3. current' = [current EXCEPT ![t] = s2]
            BY <6>1, <6>2
          <6> QED  BY <3>1, <6>3
        <5> QED  BY <5>1, <5>2
      <4> QED  BY <2>1, <4>1, OnlyStream DEF Undisturbed
    <3>3. phase' \notin Failed
      BY <2>1, <2>9 DEF WriteChunk, PhaseAfter, Undisturbed, Failed
    <3> QED  BY <2>1, <2>9, <3>2, <3>3 DEF WriteChunk, Undisturbed, Idle
  <2>10. CASE ReadPacket \/ LoseSync
    BY <2>1, <2>10 DEF ReadPacket, LoseSync, Undisturbed, Idle, Failed
  <2>11. CASE Quiet \/ NothingToSend \/ UNCHANGED vars
    BY <2>1, <2>11 DEF Quiet, NothingToSend, vars, Undisturbed, Idle, Failed
  <2> QED  BY <2>1, <2>3, <2>4, <2>5, <2>6, <2>7, <2>8, <2>9, <2>10, <2>11 DEF Next
<1> QED  BY <1>1, <1>2, PTL DEF Spec

LEMMA InStepAlone ==
  ASSUME Undisturbed
  PROVE  ~OutOfStep /\ ~Later
BY DEF Undisturbed, OutOfStep, CutApart, StaleHeader, Later

(***************************************************************************)
(* On one connection the receiver never takes a byte of a body for a       *)
(* chunk header, and never gets a chunk size that is none.                 *)
(***************************************************************************)
THEOREM StaysInSync == ASSUME Alone PROVE Spec => []InSync
<1>1. Undisturbed /\ SyncUnlessRacedOrStale => InSync
  BY InStepAlone DEF SyncUnlessRacedOrStale
<1> QED  BY <1>1, KeepsInSync, StaysUndisturbed, PTL

(***************************************************************************)
(* On one connection, what ServePacket gets is what was given to           *)
(* RTMP_SendPacket, in order: the same channels, types and bytes.          *)
(***************************************************************************)
THEOREM DeliversAsSent == ASSUME Alone PROVE Spec => []DeliveredAsSent
<1>1. Undisturbed /\ Invariant => DeliveredAsSent
  <2>1. SUFFICES ASSUME Undisturbed, Invariant PROVE DeliveredAsSent
    OBVIOUS
  <2>2. ~OutOfStep /\ ~Later
    BY <2>1, InStepAlone
  <2>3. PICK L : SenderOK(L) /\ InStep(L)
    BY <2>1, <2>2, InvariantShows
  <2>4. PICK N \in Nat, D \in Nat : N = Len(finished) /\ D = Len(delivered) /\ D <= N
    BY <2>3, DeliveredInStep
  <2>5. ASSUME NEW i \in 1..D PROVE SamePacket(delivered[i], finished[i])
    <3>1. i \in 1..N
      BY <2>4
    <3>2. PICK d, p : d = delivered[i] /\ p = finished[i]
      OBVIOUS
    <3>3. d \in Given /\ p \in Sendable /\ GivenAs(d, p, Later)
      BY <2>3, <2>4, <3>1, <3>2, DeliveredInStep
    <3>4. PICK b \in Seq(Unit) : b = d.body
      BY <3>3 DEF Given
    <3>5. PICK s \in Seq(Unit) : s = Intact(p) /\ Len(s) = p.size
      BY <3>3, IntactFacts
    <3>6. Len(b) = Len(s) /\ \A k \in 1..Len(b) : b[k] = s[k]
      BY <2>2, <3>3, <3>4, <3>5 DEF GivenAs, MayBe
    <3>7. b = s
      BY <3>6, SeqEqual
    <3> QED  BY <3>2, <3>3, <3>4, <3>5, <3>7 DEF SamePacket, GivenAs
  <2> QED  BY <2>4, <2>5 DEF DeliveredAsSent
<1> QED  BY <1>1, StreamInvariant, StaysUndisturbed, PTL

(***************************************************************************)
(* On one connection, when the sender is done with every packet it began   *)
(* and the receiver can read no more, nothing is left of the stream and    *)
(* every packet has been delivered.                                        *)
(***************************************************************************)
THEOREM NothingIsStuck == ASSUME Alone PROVE Spec => []NothingStuck
<1>1. Undisturbed /\ (OutOfStep \/ NothingStuck) => NothingStuck
  BY InStepAlone
<1> QED  BY <1>1, StuckOnlyOutOfStep, StaysUndisturbed, PTL
=============================================================================

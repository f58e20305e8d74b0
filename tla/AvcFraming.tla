----------------------------- MODULE AvcFraming -----------------------------
(***************************************************************************)
(* H.264 on its way through the client and the server.  The application    *)
(* pushes frames in Annex B form (units after start codes);                *)
(* sendX264VideoData takes the parameter sets out and makes FLV video      *)
(* packets of the rest, getSpsAndPps makes one of the parameter sets, and  *)
(* handleVideoPacket, on the server, goes back to Annex B for the          *)
(* callbacks.  Bytes are numbers; what a callback gets is a record.        *)
(***************************************************************************)
EXTENDS Bytes, SequencesExt

CONSTANTS Slack   \* what handleVideoPacket adds to a unit when its buffer grows (64)

LongCode == <<0, 0, 0, 1>>
ShortCode == <<0, 0, 1>>

SPS == 103   \* 0x67
PPS == 104   \* 0x68
IDR == 101   \* 0x65
-----------------------------------------------------------------------------
(* The client *)

(* zore_count after the i-th byte: how many bytes 0 or 1 end there         *)
ZeroCount(s) == LET count[i \in 0..Len(s)] ==
                      IF i = 0 \/ s[i] \notin {0, 1} THEN 0 ELSE count[i - 1] + 1
                IN  count

Stops(s) == {i \in 1..Len(s) : s[i] = 1 /\ ZeroCount(s)[i] >= 3}

(***************************************************************************)
(* How the first unit of s is taken for a parameter set: what is kept, and *)
(* what is left.  Without a stop ptr moves past the end: nothing is left.  *)
(***************************************************************************)
FirstUnit(s) ==
    IF Stops(s) = {} THEN [kept |-> s, rest |-> <<>>]
    ELSE LET i == CHOOSE i \in Stops(s) : \A j \in Stops(s) : i <= j
         IN  [kept |-> SubSeq(s, 1, i - ZeroCount(s)[i]), rest |-> From(s, i + 1)]

AfterStartCode(data) == CASE IsPrefix(LongCode, data) -> From(data, 5)
                          [] IsPrefix(ShortCode, data) -> From(data, 4)
                          [] OTHER -> <<>>   \* "not 264 type"

(* spsData and the frame left, given spsData before: an SPS forgets both    *)
Split(data, sps, pps) ==
    LET b == AfterStartCode(data)
        withSps == b # <<>> /\ Head(b) = SPS
        one == IF withSps THEN FirstUnit(b) ELSE [kept |-> sps, rest |-> b]
        two == IF one.rest # <<>> /\ Head(one.rest) = PPS THEN FirstUnit(one.rest)
               ELSE [kept |-> IF withSps THEN <<>> ELSE pps, rest |-> one.rest]
    IN  [sps |-> one.kept, pps |-> two.kept, frame |-> two.rest]

(* the body pushed for a frame, and that of getSpsAndPps                    *)
FramePacket(frame, key) ==
    <<IF Head(frame) = IDR \/ key THEN 23 ELSE 39, 1, 0, 0, 0>> \o BE4(Len(frame)) \o frame

HeaderPacket(sps, pps) ==
    IF sps = <<>> \/ pps = <<>> THEN <<>>
    ELSE <<23, 0, 0, 0, 0, 1, sps[2], sps[3], sps[4], 255, 225>>
         \o BE2(Len(sps)) \o sps \o <<1>> \o BE2(Len(pps)) \o pps
-----------------------------------------------------------------------------
(* The server *)

(* fits: did the buffer the bytes were put together in hold them?           *)
Video(bytes, key, fits) == [to |-> "videoFunc", bytes |-> bytes, key |-> key, fits |-> fits]
SpsPps(sps, pps) == [to |-> "spsPpsFunc", sps |-> sps, pps |-> pps]

Prefixed(unit) == IF unit = <<>> THEN <<>> ELSE LongCode \o unit

HandleSequenceHeader(body) ==
    LET spsLen == Value2(From(body, 12))
        sps == SubSeq(body, 14, 13 + spsLen)
        ppsLen == Value2(From(body, 15 + spsLen))
        pps == SubSeq(body, 17 + spsLen, 16 + spsLen + ppsLen)
    IN  IF Len(body) < 18 THEN <<>>
        ELSE <<SpsPps(sps, pps), Video(Prefixed(sps) \o Prefixed(pps), body[1] \div 16, TRUE)>>

(***************************************************************************)
(* The loop over the units of a packet: data is what was not read, len the *)
(* count the loop goes by, which is two more than what is left, size       *)
(* videoBufferSize.  A unit at least as long as the buffer makes it grow;  *)
(* its start code is not counted.                                          *)
(* Only for well-formed bodies: the code reads past the end where a length *)
(* goes beyond the body, or one to three bytes follow a unit.              *)
(***************************************************************************)
GrowthBeyond(n, size) == IF n > size THEN n + Slack ELSE size   \* mutant: > for >=
Growth(n, size) == IF n >= size THEN n + Slack ELSE size
Fits(n, size) == n + 4 <= Growth(n, size)

RECURSIVE Units(_, _, _, _)
Units(data, len, size, key) ==
    LET n == Value4(data)
        unit == SubSeq(data, 5, 4 + n)
    IN  IF len <= 4 \/ Len(data) < 4 \/ n = 0 THEN <<>>
        ELSE <<Video(Prefixed(unit), key, Fits(n, size))>>
             \o (IF Len(data) <= 4 + n THEN <<>>     \* useLen >= m_nBodySize
                 ELSE Units(From(data, 5 + n), len - 4 - n, Growth(n, size), key))

(* without needRawVideo, which hands the body on as it is; units of more   *)
(* than 20 MB are refused                                                   *)
HandleVideoPacket(body, size) ==
    LET type == body[1] % 16
        key == body[1] \div 16
    IN  CASE type = 7 /\ key = 1 /\ body[2] = 0 -> HandleSequenceHeader(body)
          [] type = 7 /\ key <= 2 /\ body[2] = 1 /\ Len(body) >= 9 ->
                Units(From(body, 6), Len(body) - 3, size, key)
          [] OTHER -> <<>>
-----------------------------------------------------------------------------
(***************************************************************************)
(* A parameter set is kept as it was given, unless it ends in 0 or 1 (the  *)
(* end is then taken for part of the start code that follows) or contains  *)
(* a run of three or more bytes 0 and 1 that ends in 1.                    *)
(***************************************************************************)
Clean(unit) == /\ Last(unit) \notin {0, 1}
               /\ ~\E i \in 3..Len(unit) : unit[i] = 1 /\ {unit[i - 1], unit[i - 2]} \subseteq {0, 1}

SplitsExactly(sps, pps, frame, code) ==
    LET s == Split(code \o sps \o code \o pps \o code \o frame, <<>>, <<>>)
    IN  /\ (s.sps = sps) = Clean(sps)
        /\ Clean(sps) => (s.pps = pps) = Clean(pps)
        /\ Clean(sps) /\ Clean(pps) => s.frame = frame

(***************************************************************************)
(* What the application pushed is what the server's callbacks get: the     *)
(* parameter sets, then the frame.                                         *)
(***************************************************************************)
ArrivesAsPushed(sps, pps, frame, code, size) ==
    LET s == Split(code \o sps \o code \o pps \o code \o frame, <<>>, <<>>)
    IN  Clean(sps) /\ Clean(pps) =>
          /\ HandleVideoPacket(HeaderPacket(s.sps, s.pps), size) =
               <<SpsPps(sps, pps), Video(LongCode \o sps \o LongCode \o pps, 1, TRUE)>>
          /\ HandleVideoPacket(FramePacket(s.frame, FALSE), size) =
               <<Video(LongCode \o frame, IF Head(frame) = IDR THEN 1 ELSE 2, TRUE)>>

(***************************************************************************)
(* A new SPS without a PPS leaves no header packet to be made of the new   *)
(* SPS and the old PPS.                                                    *)
(***************************************************************************)
NoMixedHeaders(sps, oldSps, oldPps, code) ==
    LET s == Split(code \o sps, oldSps, oldPps)
    IN  HeaderPacket(s.sps, s.pps) = <<>>

(***************************************************************************)
(* Every unit of a packet gets to the callback, in order, up to the first  *)
(* that is empty.  The buffer is only too short for a unit up to four      *)
(* bytes short of the size it has, which is the first or that of an        *)
(* earlier unit and Slack.                                                 *)
(***************************************************************************)
RECURSIVE Packed(_)
Packed(units) == IF units = <<>> THEN <<>>
                 ELSE BE4(Len(Head(units))) \o Head(units) \o Packed(Tail(units))
AllUnitsArrive(units, size) ==
    LET full == SelectInSeq(units, LAMBDA u : u = <<>>)
        whole == IF full = 0 THEN units ELSE SubSeq(units, 1, full - 1)
        got == HandleVideoPacket(<<39, 1, 0, 0, 0>> \o Packed(units), size)
        sizes(i) == {size} \cup {Len(units[j]) + Slack : j \in 1..(i - 1)}
    IN  /\ Len(got) = Len(whole)
        /\ \A i \in 1..Len(whole) :
              /\ got[i] = Video(LongCode \o whole[i], 2, got[i].fits)
              /\ got[i].fits \/ \E n \in sizes(i) : Len(whole[i]) \in (n - 3)..(n - 1)
=============================================================================

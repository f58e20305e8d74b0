----------------------------- MODULE MCFormats ------------------------------
(***************************************************************************)
(* AMF values, AVC framing and the count of bytes, on enumerated inputs.   *)
(* A behaviour of "input" chooses one input; ByteCount runs while none is  *)
(* chosen, so that the two do not multiply.                                *)
(***************************************************************************)
EXTENDS ByteCount, FiniteSets, SequencesExt

CONSTANTS LongFrom, CharSigned, Slack

ASSUME AmfAssumption == LongFrom \in Nat \ {0} /\ CharSigned \in BOOLEAN
ASSUME AvcAssumption == Slack \in Nat

VARIABLES input

Amf == INSTANCE AmfValues
Avc == INSTANCE AvcFraming

vars == <<countVars, input>>

Nothing == [kind |-> "nothing"]
-----------------------------------------------------------------------------
(* AMF: values one level deep below an object                              *)

Names == {<<97>>, <<98, 97>>}
Numbers == {<<64, 40, 0, 0, 0, 0, 0, 0>>, <<0, 0, 9, 0, 0, 9, 0, 0>>}
Leaves(names) ==
    {Amf!Prop(n, Amf!AMF_NUMBER, b, <<>>) : n \in names, b \in Numbers}
    \cup {Amf!Prop(n, Amf!AMF_BOOLEAN, <<b>>, <<>>) : n \in names, b \in {0, 1}}
    \cup {Amf!Prop(n, Amf!AMF_STRING, s, <<>>) : n \in names, s \in {<<>>, <<97>>, <<0, 0, 9, 97>>}}
    \cup {Amf!Prop(n, Amf!AMF_NULL, <<>>, <<>>) : n \in names}
Few == {Amf!Prop(<<97>>, Amf!AMF_STRING, <<97>>, <<>>), Amf!Prop(<<98>>, Amf!AMF_BOOLEAN, <<1>>, <<>>),
        Amf!Prop(<<97, 98>>, Amf!AMF_NUMBER, <<64, 40, 0, 0, 0, 0, 0, 0>>, <<>>)}
Inner == {Amf!Prop(<<97>>, Amf!AMF_STRING, <<>>, <<>>), Amf!Prop(<<98>>, Amf!AMF_BOOLEAN, <<0>>, <<>>),
          Amf!Prop(<<97, 98>>, Amf!AMF_NUMBER, <<0, 0, 9, 0, 0, 9, 0, 0>>, <<>>)}
Objects(leaves, names) == {Amf!Prop(n, Amf!AMF_OBJECT, <<>>, m) : n \in names, m \in SeqOf(leaves, 2)}

Trees == SeqOf(Few \cup Objects(Inner, {<<98, 97>>}), 2)
MixedTrees == SeqOf(Leaves(Names \cup {<<>>}), 2)
              \cup {<<o>> : o \in Objects(Leaves({<<>>, <<97>>}), {<<97>>})}

ChooseTree == \E t \in Trees \cup MixedTrees : input' = [kind |-> "tree", props |-> t]
ChooseRoom == \E t \in Trees, room \in 1..45 :
                  input' = [kind |-> "room", props |-> t, room |-> room]
\* a movie clip, references, XML, typed objects: type and value
BadValues == {<<4>>, <<7, 0, 5>>, <<7, 9, 9>>, <<15, 0, 0, 0, 0>>, <<15, 0, 0, 0, 4, 97, 98, 99, 100>>,
              <<15, 0, 0, 0, 2, 0, 9>>, <<16, 0, 1, 97, 0, 0, 9>>, <<16, 0, 1, 97, 0, 1, 98, 1, 1, 0, 0, 9>>}
Rests == {<<>>, <<1, 1>>, <<2, 0, 1, 97>>, <<0, 1, 97, 1, 1, 0, 0, 9>>}
ChooseBad == \E t \in Trees, name \in Names, value \in BadValues, rest \in Rests :
                 input' = [kind |-> "bad", props |-> t,
                           bad |-> Amf!BE2(Len(name)) \o name \o value, rest |-> rest]
ChooseName == \E t \in Trees, name \in {<<97>>, <<98>>, <<97, 98>>, <<98, 97>>, <<>>} :
                  input' = [kind |-> "name", props |-> t, name |-> name]
ChooseMembers == \E m \in SeqOf(Few, 3) : m # <<>> /\
                     input' = [kind |-> "members",
                               props |-> [i \in 1..Len(m) |-> IF m[i].type = Amf!AMF_NUMBER
                                                              THEN [m[i] EXCEPT !.bytes = <<300>>] ELSE m[i]]]
ChooseInteger == \E k \in {0, 127, 128, 16383, 16384, 2097151, 2097152, 2097279, 2097280, 268435455},
                    d \in -2..2, sign \in {1, -1} :
                     /\ sign * k + d \in -268435456..268435455
                     /\ input' = [kind |-> "integer", n |-> sign * k + d]
ChooseMetaData == \E w, h, f \in Numbers \cup {<<0, 1, 102, 0, 0, 0, 0, 0>>} :
                      input' = [kind |-> "metadata", w |-> w, h |-> h, f |-> f]
-----------------------------------------------------------------------------
(* AVC: units of up to seven bytes, with and without runs of 0 and 1       *)

Tails(n) == UNION {[1..k -> {0, 1, 9}] : k \in n}
Codes == {Avc!LongCode, Avc!ShortCode}

ChooseSets == \E a \in Tails({3, 4}), b \in Tails({0, 1}), c \in Codes :
                  input' = [kind |-> "sets", sps |-> <<Avc!SPS>> \o a, pps |-> <<Avc!PPS>> \o b, code |-> c]
ChooseSets2 == \E a \in Tails({0, 3, 4}), c \in Codes :
                   input' = [kind |-> "sets", sps |-> <<Avc!SPS, 9, 9, 9>>, pps |-> <<Avc!PPS>> \o a, code |-> c]
ChooseUnits == \E u \in SeqOf(Tails(0..2), 3), size \in {2, 4, 8} :
                   u # <<>> /\ input' = [kind |-> "units", units |-> u, size |-> size]
-----------------------------------------------------------------------------
Choose == \/ ChooseTree \/ ChooseRoom \/ ChooseBad \/ ChooseName \/ ChooseMembers \/ ChooseInteger
          \/ ChooseMetaData \/ ChooseSets \/ ChooseSets2 \/ ChooseUnits

Init == CountInit /\ input = Nothing
Next == \/ input = Nothing /\ CountNext /\ UNCHANGED input
        \/ input = Nothing /\ CountInit /\ Choose /\ UNCHANGED countVars
Spec == Init /\ [][Next]_vars

Frame == <<101, 7, 7>>
Kind(k) == input.kind = k

(***************************************************************************)
(* What amf.c writes it reads back, but for the members it writes without  *)
(* their names; in a buffer too short it writes a whole object with fewer  *)
(* members; after a member it cannot read it finds the end of the object,  *)
(* unless bytes of the value read as an end mark or a member of their own; *)
(* the search by name finds the first in the order written; and            *)
(* handleDataFrame reads the metadata that getMetaDataPacket was given.    *)
(* AMF3 is read as a player writes it, but for the fourth byte of an       *)
(* integer where char is signed and the value an object ends in.           *)
(***************************************************************************)
AmfArrives ==
    /\ Kind("tree") => Amf!RoundTrips(input.props)
    /\ Kind("room") => Amf!EncodesAPart(input.props, input.room)
    /\ Kind("bad") => Amf!RecoversAtTheEnd(input.props, input.bad, input.rest)
    /\ Kind("name") => Amf!FindsFirst(input.props, input.name)
    /\ Kind("members") => Amf!Amf3ObjectArrives(input.props)
    /\ Kind("integer") => Amf!ReadsAmf3Integers(input.n)
    /\ Kind("metadata") => Amf!MetaDataArrives(input.w, input.h, input.f)

(***************************************************************************)
(* The server's callbacks get the units the application pushed, whole and  *)
(* in order: sendX264VideoData takes out clean parameter sets as they are  *)
(* and never joins a new SPS and an old PPS, and handleVideoPacket calls   *)
(* back with every unit of a packet, in a buffer long enough but for units *)
(* up to four bytes short of it.                                           *)
(***************************************************************************)
VideoArrives ==
    /\ Kind("sets") =>
         /\ Avc!SplitsExactly(input.sps, input.pps, Frame, input.code)
         /\ Avc!ArrivesAsPushed(input.sps, input.pps, Frame, input.code, 8)
         /\ Avc!NoMixedHeaders(input.sps, <<Avc!SPS, 9, 9, 9>>, <<Avc!PPS>>, input.code)
    /\ Kind("units") => Avc!AllUnitsArrive(input.units, input.size)
=============================================================================

----------------------------- MODULE AmfValues ------------------------------
(***************************************************************************)
(* amf.c: values written as AMF0 and read back, as AMF0 or (read only) as  *)
(* AMF3, and the search for a property by name.                            *)
(*                                                                         *)
(* An AMFObjectProperty is [name, type, bytes, props]: bytes is the value  *)
(* of a string, of a boolean (one byte) and of a number (its eight bytes,  *)
(* or the integer AMF3 gave, alone); props are the members of an object.   *)
(* A result has "used" = -1 where the code returns -1, and "ok" = FALSE    *)
(* where it returns NULL.                                                  *)
(***************************************************************************)
EXTENDS Bytes, SequencesExt

CONSTANTS LongFrom,    \* strings from this length on are long strings (65536)
          CharSigned   \* char is signed (x86) or not (ARM)

AMF_NUMBER == 0
AMF_BOOLEAN == 1
AMF_STRING == 2
AMF_OBJECT == 3
AMF_NULL == 5
AMF_ECMA_ARRAY == 8
AMF_OBJECT_END == 9
AMF_DATE == 11
AMF_LONG_STRING == 12

Prop(name, type, bytes, props) ==
    [name |-> name, type |-> type, bytes |-> bytes, props |-> props]
ObjectEnd == <<0, 0, AMF_OBJECT_END>>
-----------------------------------------------------------------------------
(* Encoding; room is what is left up to pBufEnd                            *)

NULL == [ok |-> FALSE, out |-> <<>>]
Written(s) == [ok |-> TRUE, out |-> s]

EncodeString(s, room) ==
    CASE 5 + Len(s) > room -> NULL       \* asked of short strings as well
      [] Len(s) < LongFrom -> Written(<<AMF_STRING>> \o BE2(Len(s)) \o s)
      [] OTHER -> Written(<<AMF_LONG_STRING>> \o BE4(Len(s)) \o s)

EncodeNumber(b, room) == IF 9 > room THEN NULL ELSE Written(<<AMF_NUMBER>> \o b)

EncodeBoolean(b, room) == IF 2 > room THEN NULL ELSE Written(<<AMF_BOOLEAN>> \o b)

EncodeNamedNumber(name, b, room) ==
    LET number == EncodeNumber(b, room - 2 - Len(name))
    IN  IF 2 + Len(name) > room \/ ~number.ok THEN NULL
        ELSE Written(BE2(Len(name)) \o name \o number.out)

RECURSIVE EncodeProp(_, _), EncodeMembers(_, _), EncodeObject(_, _)

EncodeProp(prop, room) ==
    LET isNull == prop.type = AMF_NULL
        name == IF isNull \/ prop.name = <<>> THEN <<>> ELSE BE2(Len(prop.name)) \o prop.name
        left == room - Len(name)
        value == CASE prop.type = AMF_NUMBER -> EncodeNumber(prop.bytes, left)
                   [] prop.type = AMF_BOOLEAN -> EncodeBoolean(prop.bytes, left)
                   [] prop.type = AMF_STRING -> EncodeString(prop.bytes, left)
                   [] isNull -> IF 1 >= left THEN NULL ELSE Written(<<AMF_NULL>>)
                   [] prop.type = AMF_OBJECT -> EncodeObject(prop.props, left)
                   [] OTHER -> NULL
    IN  IF (~isNull /\ Len(prop.name) + 3 >= room) \/ ~value.ok THEN NULL
        ELSE Written(name \o value.out)

(* the members up to the first that cannot be encoded                       *)
EncodeMembers(props, room) ==
    LET first == EncodeProp(Head(props), room)
    IN  IF props = <<>> \/ ~first.ok THEN <<>>
        ELSE first.out \o EncodeMembers(Tail(props), room - Len(first.out))

EncodeObject(props, room) ==
    LET members == <<AMF_OBJECT>> \o EncodeMembers(props, room - 1)
    IN  IF 4 >= room \/ Len(members) + 3 >= room THEN NULL ELSE Written(members \o ObjectEnd)
-----------------------------------------------------------------------------
(* Decoding of AMF3.  Left out: externalizable objects, and what the code  *)
(* gives no defined outcome, references, members it cannot decode, objects *)
(* without a member, and classes with sealed members (AMF3CD_AddProp       *)
(* counts each of them once more, and the loop over them does not end).    *)

Failed == [used |-> -1, prop |-> Prop(<<>>, AMF_NULL, <<>>, <<>>)]
Decoded(used, prop) == [used |-> used, prop |-> prop]

(* up to the first of three bytes below 128, or four bytes                  *)
IntegerLength(s) == LET short == {i \in 1..3 \cap DOMAIN s : s[i] < 128}
                    IN  IF short = {} THEN 4 ELSE CHOOSE i \in short : \A j \in short : i <= j
FourthByte(v, b) == IF CharSigned /\ b >= 128 THEN b - 256   \* val |= a negative char
                    ELSE v * 256 + b
WithSign(v) == IF v > 268435455 THEN v - 536870912 ELSE v
IntegerOf(s, used, of7) ==
    [used |-> used, value |-> IF used < 4 THEN of7 ELSE WithSign(FourthByte(of7, s[4]))]
OfLength(s, used) ==
    IntegerOf(s, used, FoldLeft(LAMBDA v, b : v * 128 + (b % 128), 0,
                                SubSeq(s, 1, IF used < 4 THEN used ELSE 3)))
ReadInteger(s) == OfLength(s, IntegerLength(s))

StringAfter(s, ref) == [used |-> ref.used + (ref.value \div 2),
                        str |-> SubSeq(s, ref.used + 1, ref.used + (ref.value \div 2))]
ReadString(s) == StringAfter(s, ReadInteger(s))

RECURSIVE Amf3Value(_, _), Amf3Dynamic(_, _), Amf3Object(_)

Is(type, bytes, used) == Decoded(used, Prop(<<>>, type, bytes, <<>>))
Named(name, used, d) == IF d.used = -1 THEN Failed
                        ELSE Decoded(used + d.used, [d.prop EXCEPT !.name = name])
Following(first, rest) == [used |-> first.used + rest.used,
                           props |-> <<first.prop>> \o rest.props]

Amf3Integer(i) == Is(AMF_NUMBER, <<i.value>>, i.used)
Amf3String(str) == Is(AMF_STRING, str.str, str.used)
Amf3Double(v, at) == IF Len(v) < at + 8 THEN Failed
                     ELSE Is(AMF_NUMBER, SubSeq(v, at + 1, at + 8), at + 8)
Amf3Members(o) == Decoded(o.used, Prop(<<>>, AMF_OBJECT, <<>>, o.props))

Amf3Value(type, v) ==
    CASE type \in {0, 1} -> Is(AMF_NULL, <<>>, 0)
      [] type \in {2, 3} -> Is(AMF_BOOLEAN, <<type - 2>>, 0)
      [] type = 4 -> Amf3Integer(ReadInteger(v))
      [] type = 5 -> Amf3Double(v, 0)
      [] type \in {6, 7, 11} -> Amf3String(ReadString(v))
      [] type = 8 -> Amf3Double(v, ReadInteger(v).used)
      [] type = 10 -> Amf3Members(Amf3Object(v))   \* skips a first byte that is not there
      [] OTHER -> Failed

(* The property keeps from before what the code does not assign.            *)
Amf3Prop(s, name, before) ==
    IF name.str = <<>> THEN Decoded(name.used, [before EXCEPT !.name = <<>>])
    ELSE Named(name.str, name.used + 1, Amf3Value(s[name.used + 1], From(s, name.used + 2)))

(* do ... while: the empty name that ends the members is added as well      *)
Amf3After(d, s) ==
    IF d.prop.name = <<>> THEN [used |-> d.used, props |-> <<d.prop>>]
    ELSE Following(d, Amf3Dynamic(From(s, d.used + 1), d.prop))
Amf3Dynamic(s, before) ==
    Amf3After(IF s = <<>> THEN Failed ELSE Amf3Prop(s, ReadString(s), before), s)

Amf3Class(s, at, class, name) ==
    IF (class \div 4) % 2 = 1
    THEN LET d == Amf3Dynamic(From(s, at + name.used + 1), Failed.prop)
         IN  [d EXCEPT !.used = @ + at + name.used]
    ELSE [used |-> at + name.used, props |-> <<>>]
Amf3Reference(s, ref) ==
    IF ref.value % 2 = 0 \/ (ref.value \div 2) % 2 = 0 THEN [used |-> 1 + ref.used, props |-> <<>>]
    ELSE Amf3Class(s, 1 + ref.used, ref.value \div 2, ReadString(From(s, ref.used + 2)))
Amf3Object(s) == Amf3Reference(s, ReadInteger(Tail(s)))
-----------------------------------------------------------------------------
(* Decoding of AMF0                                                        *)

RECURSIVE DecodeValue(_, _), DecodeArray(_, _),
          DecodeObjectKeepsError(_, _, _), DecodeObject(_, _, _)

Object(used, o) == IF o.used = -1 THEN Failed
                   ELSE Decoded(used + o.used, Prop(<<>>, AMF_OBJECT, <<>>, o.props))

(***************************************************************************)
(* AMFProp_Decode, with the name or without.  A strict or an ECMA array    *)
(* takes four bytes for its count whether or not they are there (the count *)
(* of a strict array is then whatever follows: not enumerated).            *)
(***************************************************************************)
DecodeValue(type, v) ==
    CASE type = AMF_NUMBER /\ Len(v) >= 8 -> Is(type, SubSeq(v, 1, 8), 8)
      [] type = AMF_BOOLEAN /\ v # <<>> -> Is(type, <<IF v[1] = 0 THEN 0 ELSE 1>>, 1)
      [] type = AMF_STRING /\ Len(v) >= 2 /\ Len(v) >= 2 + Value2(v) ->
            Is(type, SubSeq(v, 3, 2 + Value2(v)), 2 + Value2(v))
      [] type = AMF_OBJECT -> Object(0, DecodeObject(v, TRUE, FALSE))
      [] type \in {AMF_NULL, 6, 13} -> Is(AMF_NULL, <<>>, 0)   \* undefined, unsupported
      [] type = AMF_ECMA_ARRAY -> Object(4, DecodeObject(From(v, 5), TRUE, FALSE))
      [] type = 10 -> Object(4, DecodeArray(From(v, 5), Value4(v)))
      [] type = AMF_DATE /\ Len(v) >= 10 -> Is(type, SubSeq(v, 1, 8), 10)
      [] type = AMF_LONG_STRING /\ Len(v) >= 4 /\ Len(v) >= 4 + Value4(v) ->
            Is(AMF_STRING, SubSeq(v, 5, 4 + Value4(v)), 4 + Value4(v))
      [] type = 17 -> Object(0, Amf3Object(v))
      [] OTHER -> Failed

DecodeProp(s, named) ==
    LET at == IF named THEN 3 + Value2(s) ELSE 1     \* the type
    IN  IF s = <<>> \/ (named /\ (Len(s) < 4 \/ at > Len(s))) THEN Failed
        ELSE Named(IF named THEN SubSeq(s, 3, at - 1) ELSE <<>>, at,
                   DecodeValue(s[at], From(s, at + 1)))

(* an error further on is an error of the whole                             *)
Joined(first, rest) == IF rest.used = -1 THEN rest ELSE Following(first, rest)

ArrayAfter(first, s, n) == IF first.used = -1 THEN [used |-> -1, props |-> <<>>]
                           ELSE Joined(first, DecodeArray(From(s, first.used + 1), n - 1))
DecodeArray(s, n) == IF n = 0 THEN [used |-> 0, props |-> <<>>]
                     ELSE ArrayAfter(DecodeProp(s, FALSE), s, n)

(***************************************************************************)
(* AMF_Decode, to the end mark or the end of the bytes.  After an error it *)
(* tries again one byte further on, until something decodes: bError.       *)
(***************************************************************************)
ObjectAfter(first, s, named) ==
    IF first.used = -1 THEN DecodeObject(s, named, TRUE)
    ELSE Joined(first, DecodeObject(From(s, first.used + 1), named, FALSE))
Skipping(n, o) == IF o.used = -1 THEN o ELSE [o EXCEPT !.used = @ + n]

DecodeObjectKeepsError(s, named, bError) ==   \* mutant: the end mark does not clear bError
    CASE s = <<>> \/ IsPrefix(ObjectEnd, s) ->
            [used |-> IF bError THEN -1 ELSE IF s = <<>> THEN 0 ELSE 3, props |-> <<>>]
      [] bError -> Skipping(1, ObjectAfter(DecodeProp(Tail(s), named), Tail(s), named))
      [] OTHER -> ObjectAfter(DecodeProp(s, named), s, named)

DecodeObject(s, named, bError) ==
    CASE IsPrefix(ObjectEnd, s) -> [used |-> 3, props |-> <<>>]
      [] s = <<>> -> [used |-> IF bError THEN -1 ELSE 0, props |-> <<>>]
      [] bError -> Skipping(1, ObjectAfter(DecodeProp(Tail(s), named), Tail(s), named))
      [] OTHER -> ObjectAfter(DecodeProp(s, named), s, named)
-----------------------------------------------------------------------------
(* Search, and the metadata: from getMetaDataPacket to handleDataFrame     *)

RECURSIVE FindFirst(_, _), FindPrefix(_, _)

NotFound == <<>>

FindFirst(props, name) ==
    LET inner == IF Head(props).type = AMF_OBJECT THEN FindFirst(Head(props).props, name) ELSE NotFound
    IN  CASE props = <<>> -> NotFound
          [] Head(props).name = name -> <<Head(props)>>
          [] inner # NotFound -> inner
          [] OTHER -> FindFirst(Tail(props), name)

FindPrefix(props, name) ==
    LET inner == IF Head(props).type = AMF_OBJECT THEN FindPrefix(Head(props).props, name) ELSE NotFound
    IN  CASE props = <<>> -> NotFound
          [] IsStrictPrefix(name, Head(props).name) -> <<Head(props)>>
          [] inner # NotFound -> inner
          [] OTHER -> FindPrefix(Tail(props), name)

(* the strings that occur, shortened                                        *)
av_setDataFrame == <<64>>
av_onMetaData == <<111, 110>>
av_width == <<119>>
av_height == <<104, 101>>
av_framerate == <<102>>

GetMetaDataPacket(width, height, framerate, room) ==
    EncodeString(av_setDataFrame, room).out \o EncodeString(av_onMetaData, room).out
    \o <<AMF_ECMA_ARRAY>> \o BE4(3) \o EncodeNamedNumber(av_width, width, room).out
    \o EncodeNamedNumber(av_height, height, room).out
    \o EncodeNamedNumber(av_framerate, framerate, room).out \o ObjectEnd

(* what is found of width, height and framerate; the body has two values    *)
HandleDataFrame(body) ==
    LET obj == DecodeObject(body, FALSE, FALSE)
    IN  IF Head(body) # AMF_STRING \/ obj.used < 0 \/ obj.props[2].bytes # av_onMetaData THEN <<>>
        ELSE [i \in 1..3 |-> FindFirst(obj.props, <<av_width, av_height, av_framerate>>[i])]
-----------------------------------------------------------------------------
(* No null member (written without its name) and none without a name, at    *)
(* any depth.                                                               *)
RECURSIVE WellNamed(_)
WellNamed(props) == \A i \in 1..Len(props) : /\ props[i].name # <<>>
                                             /\ props[i].type # AMF_NULL
                                             /\ WellNamed(props[i].props)

(* d is o with members missing at the end, at any depth                     *)
RECURSIVE PartOf(_, _)
PartOf(d, o) == /\ Len(d) <= Len(o)
                /\ \A i \in 1..Len(d) : /\ [d[i] EXCEPT !.props = <<>>] = [o[i] EXCEPT !.props = <<>>]
                                        /\ PartOf(d[i].props, o[i].props)

(***************************************************************************)
(* What AMF_Encode writes AMF_Decode reads back, if and only if every      *)
(* member has a name and none is null.                                     *)
(***************************************************************************)
RoundTrips(props) ==
    LET e == EncodeObject(props, 1000)
    IN  /\ e.ok
        /\ (DecodeProp(e.out, FALSE) = Decoded(Len(e.out), Prop(<<>>, AMF_OBJECT, <<>>, props)))
             = WellNamed(props)

(***************************************************************************)
(* In a buffer that is too short AMF_Encode writes nothing, or, inside the *)
(* buffer, a whole object with members missing at the end.                 *)
(***************************************************************************)
EncodesAPart(props, room) ==
    LET e == EncodeObject(props, room)
        d == DecodeProp(e.out, FALSE)
    IN  e.ok => /\ Len(e.out) <= room
                /\ d.used = Len(e.out)
                /\ PartOf(d.prop.props, props)

(***************************************************************************)
(* AMF_Decode: "if there is an error while decoding - try to at least find *)
(* the end mark AMF_OBJECT_END".  bad is a member of a type that           *)
(* AMFProp_Decode refuses (name, type and value), rest what follows the    *)
(* object.  The decoder comes back at the object's own end mark with the   *)
(* members before bad, and with nothing else, if and only if at no byte of *)
(* bad after its first the bytes to come read as an end mark or as a       *)
(* member, which may reach over the end mark.  A bad without a zero after  *)
(* its first byte is always passed over, and whatever is taken for a       *)
(* member, unless all is refused those before bad are kept.                *)
(***************************************************************************)
RecoversAtTheEnd(props, bad, rest) ==
    LET object == EncodeMembers(props, 1000) \o bad \o ObjectEnd
        d == DecodeObject(object \o rest, TRUE, FALSE)
        recovers == d = [used |-> Len(object), props |-> props]
        Taken(s) == IsPrefix(ObjectEnd, s) \/ DecodeProp(s, TRUE).used # -1
    IN  /\ recovers <=> \A k \in 2..Len(bad) : ~Taken(From(bad \o ObjectEnd \o rest, k))
        /\ (\A k \in 2..Len(bad) : bad[k] # 0) => recovers
        /\ d.used = -1 \/ IsPrefix(props, d.props)

(* n as AMF3 writes it: seven bits a byte, eight in the fourth               *)
WritesInteger(n) ==
    LET u == IF n < 0 THEN n + 536870912 ELSE n
        B(k) == 128 + ((u \div k) % 128)
    IN  CASE u < 128 -> <<u>>
          [] u < 16384 -> <<B(128), u % 128>>
          [] u < 2097152 -> <<B(16384), B(128), u % 128>>
          [] OTHER -> <<B(4194304), B(32768), B(256), u % 256>>

(***************************************************************************)
(* AMF3ReadInteger reads every integer AMF3 can write, except where char   *)
(* is signed those of four bytes whose last is 128 or more (it takes them *)
(* for that byte minus 256, which is right from -128 to -1).               *)
(***************************************************************************)
ReadsAmf3Integers(n) ==
    LET s == WritesInteger(n)
    IN  (ReadInteger(s).value = n) = (~CharSigned \/ Len(s) < 4 \/ s[4] < 128 \/ n \in -128..-1)

(***************************************************************************)
(* A dynamic object of AMF3 is read with its members in order, and then    *)
(* once more its last value, without a name.                               *)
(***************************************************************************)
Amf3ObjectArrives(members) ==
    LET Str(s) == WritesInteger(2 * Len(s) + 1) \o s
        Member(m) == Str(m.name) \o (CASE m.type = AMF_STRING -> <<6>> \o Str(m.bytes)
                                       [] m.type = AMF_BOOLEAN -> <<2 + m.bytes[1]>>
                                       [] m.type = AMF_NUMBER -> <<4>> \o WritesInteger(m.bytes[1])
                                       [] OTHER -> <<1>>)
        bytes == <<17, 10, 11, 1>> \o FlattenSeq([i \in 1..Len(members) |-> Member(members[i])]) \o <<1>>
    IN  DecodeProp(bytes, FALSE) =
          Decoded(Len(bytes), Prop(<<>>, AMF_OBJECT, <<>>,
                                   Append(members, [Last(members) EXCEPT !.name = <<>>])))

(***************************************************************************)
(* RTMP_FindFirstMatchingProperty finds the first property of that name in *)
(* the order they are written, and RTMP_FindPrefixProperty the first whose *)
(* name goes on after it.                                                  *)
(***************************************************************************)
RECURSIVE InOrder(_)
InOrder(props) == IF props = <<>> THEN <<>>
                  ELSE <<Head(props)>> \o InOrder(Head(props).props) \o InOrder(Tail(props))
FindsFirst(props, name) ==
    LET First(Test(_)) == LET found == SelectSeq(InOrder(props), Test)
                          IN  IF found = <<>> THEN NotFound ELSE <<Head(found)>>
        IsNamed(p) == p.name = name
        GoesOn(p) == Len(p.name) > Len(name) /\ SubSeq(p.name, 1, Len(name)) = name
    IN  FindFirst(props, name) = First(IsNamed) /\ FindPrefix(props, name) = First(GoesOn)

(***************************************************************************)
(* The width, height and frame rate given to setDataFrame are those the    *)
(* server reads, whatever their bytes.                                     *)
(***************************************************************************)
MetaDataArrives(width, height, framerate) ==
    LET Num(name, b) == <<Prop(name, AMF_NUMBER, b, <<>>)>>
    IN  HandleDataFrame(GetMetaDataPacket(width, height, framerate, 2048)) =
          <<Num(av_width, width), Num(av_height, height), Num(av_framerate, framerate)>>
=============================================================================

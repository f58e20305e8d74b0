------------------------- MODULE ClientSessionProofs ------------------------
(***************************************************************************)
(* Proofs about ClientSession: for every server of the kind it describes,  *)
(* and any number of lost connections, timeouts and packets, what the      *)
(* client and the server agree on.                                         *)
(***************************************************************************)
EXTENDS ClientSession, SequenceTheorems, WellFoundedInduction, TLAPS

(* What RTMP_ReadPacket has still to read: received already, or on the way *)
In == buffered \o down

(* Which messages of a sequence are of a kind of K: none, one at most *)
None(s, K) == \A m \in ToSet(s) : m.kind \notin K
Once(s, K) == \A i, j \in 1..Len(s) : s[i].kind \in K /\ s[j].kind \in K => i = j

Command == {"connect", "createStream", "publish"}
Answer == {"_result", "Publish.Start"}
Handshaking == {"c0c1", "s0s1", "s2", "command"}
Phase == Handshaking \cup {"connect", "interface", "failed", "announce", "stream",
                           "publish", "loop", "crashed"}
HasPeer == link \in {"up", "lost"}

UpKind == Command \cup {"C0C1", "C2", "chunkSize", "FCUnpublish", "releaseStream",
                        "FCPublish", "_checkbw", "_result", "pong", "ctrlPong"}
DownKind == ExtraKind \cup {"S0S1", "S2", "chunkSize", "serverBW", "clientBW",
                            "streamBegin", "Publish.Start"}
Packet == [stream : Int, playing : BOOLEAN, on : Nat]
UpMessage == [kind : UpKind, txn : Nat, id : {0}]
               \cup [kind : {"media"}, txn : {0}, id : {0}, packet : Packet]
DownMessage == [kind : DownKind, txn : {0}, id : {0}]
                 \cup [kind : {"_result"}, of : {"connect", "createStream"},
                       txn : Nat, id : Nat]
Call == [name : Command, num : Nat, on : Nat]
Server == [at : {"c0c1", "c2", "packets", "closed"},
           streamId : Nat, connects : Nat, begun : Nat]
Bounds == [{"extra", "failures", "timeouts", "silences", "packets"} -> Nat]

ThreadTypes ==
    /\ phase \in Phase /\ caller \in {"start", "stream", "resend"}
    /\ interface \in 1..5
    /\ last \in DownKind \cup {"_result", "none"}
    /\ fifo \in Seq(Packet)
    /\ connection \in Nat /\ used \in Bounds
FlagTypes ==
    /\ socket \in BOOLEAN /\ timedOut \in BOOLEAN
    /\ misaligned \in BOOLEAN /\ playing \in BOOLEAN
SessionTypes ==
    /\ numInvokes \in Nat /\ calls \in Seq(Call)
    /\ streamId \in Int /\ bwChecks \in Nat
WireTypes ==
    /\ link \in {"none", "up", "lost", "closed"}
    /\ up \in Seq(UpMessage)
    /\ buffered \in Seq(DownMessage) /\ down \in Seq(DownMessage)
    /\ server \in Server /\ served \in Seq(Packet)
Types == ThreadTypes /\ FlagTypes /\ SessionTypes /\ WireTypes
-----------------------------------------------------------------------------
(* Where the thread is says whether it has a connection, and whether       *)
(* RTMP_Connect was called to send again.                                  *)
PhaseKnown ==
    /\ phase \in Handshaking \cup {"announce", "stream"} => HasPeer
    /\ playing /\ phase \notin {"stream", "publish", "loop"} => caller = "resend"

(* While nobody publishes, nothing of an earlier connection is left to be  *)
(* read, and a handshake finds the answer to its own first.                *)
HandshakeKnown ==
    /\ misaligned => playing
    /\ ~playing /\ phase \notin {"s0s1", "s2", "stream"} => buffered = <<>>
    /\ phase = "c0c1" => up = <<>> /\ down = <<>> /\ server.at \in {"c0c1", "closed"}
    /\ phase = "s0s1" =>
         \/ up = <<>>
         \/ /\ Len(up) = 1 /\ up[1].kind = "C0C1"
            /\ server.at \in {"c0c1", "closed"} /\ down = <<>>
    /\ phase = "s0s1" /\ ~playing =>
         /\ up # <<>> => In = <<>>
         /\ Len(In) <= 2
         /\ Len(In) >= 1 => In[1].kind = "S0S1"
         /\ Len(In) = 2 => In[2].kind = "S2"
    /\ phase = "s2" /\ ~playing =>
         /\ None(up, {"C0C1"})
         /\ Len(In) <= 1
         /\ Len(In) = 1 => In[1].kind = "S2"

(* Of the commands and their answers one at most is under way, and it says *)
(* how far the server has come.                                            *)
CommandFits(m) ==
    /\ m.kind = "connect" => server.connects = 0
    /\ m.kind = "createStream" => server.connects = 1 /\ server.streamId = 0
    /\ m.kind = "publish" => server.streamId = 1 /\ server.begun = 0
AnswerFits(m) ==
    /\ m.kind = "_result" => \/ /\ m.of = "connect"
                                /\ server.connects = 1 /\ server.streamId = 0
                             \/ /\ m.of = "createStream" /\ m.id = 1
                                /\ server.streamId = 1 /\ server.begun = 0
    /\ m.kind = "Publish.Start" => server.begun = 1
OneUnderWay == /\ Once(up, Command) /\ Once(In, Answer)
               /\ None(up, Command) \/ None(In, Answer)
ServerCounts == /\ server.connects <= 1 /\ server.streamId <= server.connects
                /\ server.begun <= server.streamId
PathKnown ==
    /\ OneUnderWay /\ ServerCounts
    /\ \A m \in ToSet(up) : CommandFits(m)
    /\ \A m \in ToSet(In) : AnswerFits(m)

(* Nothing was asked before the handshake is over, and a thread that does  *)
(* not listen has no answer in its buffer.                                 *)
PlaceKnown ==
    /\ playing \/ phase # "stream" => None(buffered, Answer)
    /\ phase \in Handshaking => /\ None(up, Command) /\ None(In, Answer)
                                /\ server.connects = 0

(* A client that publishes was told so, on this connection or on the one   *)
(* that it replaces to send again.                                         *)
PlayingKnown == playing => server.begun = 1 \/ caller = "resend"

(* An answer under way, or the command it will answer, is that of every    *)
(* call with its number: a call made later gets a greater one.             *)
CallIs(c, name, num) == c.num = num => c = [name |-> name, num |-> num, on |-> connection]
Awaits(m, name) == /\ HasPeer => m.txn <= numInvokes
                   /\ \A c \in ToSet(calls) : CallIs(c, name, m.txn)
CallsKnown ==
    /\ \A c \in ToSet(calls) : c.num <= numInvokes
    /\ \A m \in ToSet(up) : m.kind \in {"connect", "createStream"} => Awaits(m, m.kind)
    /\ \A m \in ToSet(In) : m.kind = "_result" => Awaits(m, m.of)

(* A client that publishes has the id that the server gave it, 1, and so   *)
(* has every packet pushed meanwhile.                                      *)
IdIsOne(p) == p.playing => p.stream = 1
IdsKnown ==
    /\ playing => streamId = 1
    /\ HasPeer => /\ \A m \in ToSet(up) : m.kind = "publish" => streamId = 1
                  /\ \A m \in ToSet(In) : m.kind = "Publish.Start" => streamId = 1
    /\ \A p \in ToSet(fifo) \cup ToSet(served) : IdIsOne(p)
    /\ \A m \in ToSet(up) : m.kind = "media" => IdIsOne(m.packet)

Session == /\ Types /\ PhaseKnown /\ HandshakeKnown /\ PathKnown /\ PlaceKnown
           /\ PlayingKnown /\ CallsKnown /\ IdsKnown
-----------------------------------------------------------------------------
(* Sequences and the sets of their elements. *)

LEMMA SetOfEmpty == ToSet(<<>>) = {}
BY DEF ToSet

LEMMA SetOfOne ==
    ASSUME NEW m
    PROVE  ToSet(<<m>>) = {m}
BY DEF ToSet

LEMMA SetOfConcat ==
    ASSUME NEW S, NEW s \in Seq(S), NEW t \in Seq(S)
    PROVE  ToSet(s \o t) = ToSet(s) \cup ToSet(t)
<1> DEFINE c == s \o t
<1>1. /\ c \in Seq(S) /\ Len(c) = Len(s) + Len(t)
      /\ \A i \in 1..Len(s) : c[i] = s[i]
      /\ \A i \in 1..Len(t) : c[Len(s) + i] = t[i]
  BY ConcatProperties
<1>2. Len(s) \in Nat /\ Len(t) \in Nat /\ DOMAIN s = 1..Len(s) /\ DOMAIN t = 1..Len(t)
      /\ DOMAIN c = 1..Len(c)
  BY <1>1, LenProperties
<1> HIDE DEF c
<1>3. ASSUME NEW m \in ToSet(c)
      PROVE  m \in ToSet(s) \cup ToSet(t)
  <2>1. PICK i \in 1..Len(c) : m = c[i]  BY <1>2 DEF ToSet
  <2>2. CASE i <= Len(s)
    <3>1. i \in 1..Len(s) /\ m = s[i]  BY <1>1, <1>2, <2>1, <2>2
    <3> QED  BY <1>2, <3>1 DEF ToSet
  <2>3. CASE ~(i <= Len(s))
    <3>1. i - Len(s) \in 1..Len(t) /\ i = Len(s) + (i - Len(s))
      BY <1>1, <1>2, <2>1, <2>3
    <3>2. m = t[i - Len(s)]  BY <1>1, <2>1, <3>1
    <3> QED  BY <1>2, <3>1, <3>2 DEF ToSet
  <2> QED  BY <2>2, <2>3
<1>4. ASSUME NEW m \in ToSet(s)
      PROVE  m \in ToSet(c)
  <2>1. PICK i \in 1..Len(s) : m = s[i]  BY <1>2 DEF ToSet
  <2>2. i \in 1..Len(c) /\ m = c[i]  BY <1>1, <1>2, <2>1
  <2> QED  BY <1>2, <2>2 DEF ToSet
<1>5. ASSUME NEW m \in ToSet(t)
      PROVE  m \in ToSet(c)
  <2>1. PICK i \in 1..Len(t) : m = t[i]  BY <1>2 DEF ToSet
  <2>2. Len(s) + i \in 1..Len(c) /\ m = c[Len(s) + i]  BY <1>1, <1>2, <2>1
  <2> QED  BY <1>2, <2>2 DEF ToSet
<1> QED  BY <1>3, <1>4, <1>5 DEF c

LEMMA SetOfSeq ==
    ASSUME NEW S, NEW s \in Seq(S)
    PROVE  /\ ToSet(s) \subseteq S
           /\ \A i \in 1..Len(s) : s[i] \in ToSet(s)
           /\ \A m \in ToSet(s) : \E i \in 1..Len(s) : m = s[i]
BY DEF ToSet

LEMMA SetOfTail ==
    ASSUME NEW S, NEW s \in Seq(S), s # <<>>
    PROVE  /\ Tail(s) \in Seq(S) /\ Head(s) \in S
           /\ Head(s) \in ToSet(s)
           /\ ToSet(Tail(s)) \subseteq ToSet(s)
<1>1. /\ Len(s) \in Nat /\ Len(s) >= 1 /\ Head(s) = s[1] /\ DOMAIN s = 1..Len(s)
      /\ Tail(s) \in Seq(S) /\ Len(Tail(s)) = Len(s) - 1
      /\ \A i \in 1..Len(s) - 1 : Tail(s)[i] = s[i + 1]
  BY HeadTailProperties, LenProperties, EmptySeq
<1>2. DOMAIN Tail(s) = 1..Len(s) - 1  BY <1>1, LenProperties
<1>3. ASSUME NEW m \in ToSet(Tail(s))
      PROVE  m \in ToSet(s)
  <2>1. PICK i \in 1..Len(s) - 1 : m = Tail(s)[i]  BY <1>2 DEF ToSet
  <2>2. i + 1 \in 1..Len(s) /\ m = s[i + 1]  BY <1>1, <2>1
  <2> QED  BY <1>1, <2>2 DEF ToSet
<1>4. s[1] \in ToSet(s) /\ s[1] \in S  BY <1>1 DEF ToSet
<1> QED  BY <1>1, <1>3, <1>4

LEMMA SetOfPart ==
    ASSUME NEW S, NEW s \in Seq(S), NEW a \in 1..Len(s) + 1, NEW b \in 0..Len(s)
    PROVE  /\ SubSeq(s, a, b) \in Seq(S)
           /\ ToSet(SubSeq(s, a, b)) \subseteq ToSet(s)
<1>1. /\ Len(s) \in Nat /\ DOMAIN s = 1..Len(s)  BY LenProperties
<1>2. CASE a > b
  <2>1. SubSeq(s, a, b) = <<>>  BY <1>1, <1>2, SubSeqEmpty
  <2> QED  BY <2>1, SetOfEmpty
<1>3. CASE ~(a > b)
  <2> DEFINE t == SubSeq(s, a, b)
  <2>1. /\ a \in 1..Len(s) /\ b \in a..Len(s)  BY <1>1, <1>3
  <2>2. /\ t \in Seq(S) /\ Len(t) = b - a + 1
        /\ \A i \in 1..b - a + 1 : t[i] = s[a + i - 1]
    BY <2>1, SubSeqProperties, <1>1
  <2>3. DOMAIN t = 1..b - a + 1  BY <2>2, LenProperties
  <2> HIDE DEF t
  <2>4. ASSUME NEW m \in ToSet(t)
        PROVE  m \in ToSet(s)
    <3>1. PICK i \in 1..b - a + 1 : m = t[i]  BY <2>3 DEF ToSet
    <3>2. a + i - 1 \in 1..Len(s) /\ m = s[a + i - 1]  BY <1>1, <2>1, <2>2, <3>1
    <3> QED  BY <1>1, <3>2 DEF ToSet
  <2> QED  BY <2>2, <2>4 DEF t
<1> QED  BY <1>2, <1>3

LEMMA SetOfRest ==
    ASSUME NEW S, NEW s \in Seq(S), NEW k \in 1..Len(s)
    PROVE  /\ RemoveAt(s, k) \in Seq(S)
           /\ ToSet(RemoveAt(s, k)) \subseteq ToSet(s)
<1> DEFINE before == SubSeq(s, 1, k - 1)
           after == SubSeq(s, k + 1, Len(s))
<1>1. Len(s) \in Nat  BY LenProperties
<1>2. /\ k - 1 \in 0..Len(s) /\ k + 1 \in 1..Len(s) + 1 /\ 1 \in 1..Len(s) + 1
      /\ Len(s) \in 0..Len(s)
  BY <1>1
<1>3. /\ before \in Seq(S) /\ ToSet(before) \subseteq ToSet(s)
      /\ after \in Seq(S) /\ ToSet(after) \subseteq ToSet(s)
  BY <1>2, SetOfPart
<1>4. RemoveAt(s, k) = before \o after  BY DEF RemoveAt
<1> HIDE DEF before, after
<1>5. before \o after \in Seq(S) /\ ToSet(before \o after) = ToSet(before) \cup ToSet(after)
  BY <1>3, SetOfConcat, ConcatProperties
<1> QED  BY <1>3, <1>4, <1>5

LEMMA NoneIsOnce ==
    ASSUME NEW S, NEW s \in Seq(S), NEW K, None(s, K)
    PROVE  Once(s, K)
BY SetOfSeq DEF None, Once

LEMMA OnceInConcat ==
    ASSUME NEW S, NEW s \in Seq(S), NEW t \in Seq(S), NEW K
    PROVE  /\ Once(s, K) /\ None(t, K) => Once(s \o t, K)
           /\ None(s, K) /\ Once(t, K) => Once(s \o t, K)
           /\ Once(s \o t, K) => Once(s, K) /\ Once(t, K)
<1> DEFINE c == s \o t
<1>1. /\ c \in Seq(S) /\ Len(c) = Len(s) + Len(t)
      /\ \A i \in 1..Len(s) : c[i] = s[i]
      /\ \A i \in 1..Len(t) : c[Len(s) + i] = t[i]
  BY ConcatProperties
<1>2. Len(s) \in Nat /\ Len(t) \in Nat  BY LenProperties
<1> HIDE DEF c
<1>3. /\ None(s, K) => \A i \in 1..Len(s) : s[i].kind \notin K
      /\ None(t, K) => \A i \in 1..Len(t) : t[i].kind \notin K
  BY SetOfSeq DEF None
<1>4. \A i \in 1..Len(c) : \/ i \in 1..Len(s) /\ c[i] = s[i]
                           \/ /\ i - Len(s) \in 1..Len(t) /\ c[i] = t[i - Len(s)]
  <2> TAKE i \in 1..Len(c)
  <2>1. CASE i <= Len(s)  BY <1>1, <1>2, <2>1
  <2>2. CASE ~(i <= Len(s))
    <3>1. i - Len(s) \in 1..Len(t) /\ i = Len(s) + (i - Len(s))  BY <1>1, <1>2, <2>2
    <3> QED  BY <1>1, <3>1
  <2> QED  BY <2>1, <2>2
<1>5. ASSUME Once(s, K), None(t, K)
      PROVE  Once(c, K)
  BY <1>3, <1>4, <1>5 DEF Once
<1>6. ASSUME None(s, K), Once(t, K)
      PROVE  Once(c, K)
  <2> SUFFICES ASSUME NEW i \in 1..Len(c), NEW j \in 1..Len(c), c[i].kind \in K,
                      c[j].kind \in K
               PROVE  i = j
    BY DEF Once
  <2>1. /\ i - Len(s) \in 1..Len(t) /\ t[i - Len(s)].kind \in K
        /\ j - Len(s) \in 1..Len(t) /\ t[j - Len(s)].kind \in K
    BY <1>3, <1>4, <1>6
  <2>2. i - Len(s) = j - Len(s)  BY <1>6, <2>1 DEF Once
  <2> QED  BY <1>1, <1>2, <2>2
<1>7. ASSUME Once(c, K)
      PROVE  Once(s, K)
  <2> SUFFICES ASSUME NEW i \in 1..Len(s), NEW j \in 1..Len(s), s[i].kind \in K,
                      s[j].kind \in K
               PROVE  i = j
    BY DEF Once
  <2>1. i \in 1..Len(c) /\ j \in 1..Len(c) /\ c[i].kind \in K /\ c[j].kind \in K
    BY <1>1, <1>2
  <2> QED  BY <1>7, <2>1 DEF Once
<1>8. ASSUME Once(c, K)
      PROVE  Once(t, K)
  <2> SUFFICES ASSUME NEW i \in 1..Len(t), NEW j \in 1..Len(t), t[i].kind \in K,
                      t[j].kind \in K
               PROVE  i = j
    BY DEF Once
  <2>1. /\ Len(s) + i \in 1..Len(c) /\ Len(s) + j \in 1..Len(c)
        /\ c[Len(s) + i].kind \in K /\ c[Len(s) + j].kind \in K
    BY <1>1, <1>2
  <2>2. Len(s) + i = Len(s) + j  BY <1>8, <2>1 DEF Once
  <2> QED  BY <1>2, <2>2
<1> QED  BY <1>5, <1>6, <1>7, <1>8 DEF c

LEMMA OnceInTail ==
    ASSUME NEW S, NEW s \in Seq(S), s # <<>>, NEW K, Once(s, K)
    PROVE  /\ Once(Tail(s), K)
           /\ Head(s).kind \in K => None(Tail(s), K)
<1>1. /\ Len(s) \in Nat /\ Len(s) >= 1 /\ Head(s) = s[1]
      /\ Tail(s) \in Seq(S) /\ Len(Tail(s)) = Len(s) - 1
      /\ \A i \in 1..Len(s) - 1 : Tail(s)[i] = s[i + 1]
  BY HeadTailProperties, LenProperties, EmptySeq
<1> DEFINE t == Tail(s)
<1>2. \A i \in 1..Len(t) : i + 1 \in 1..Len(s) /\ t[i] = s[i + 1]  BY <1>1
<1>3. t \in Seq(S) /\ Len(t) \in Nat  BY <1>1
<1>4. 1 \in 1..Len(s)  BY <1>1
<1> HIDE DEF t
<1>5. Once(t, K)
  <2> SUFFICES ASSUME NEW i \in 1..Len(t), NEW j \in 1..Len(t), t[i].kind \in K,
                      t[j].kind \in K
               PROVE  i = j
    BY DEF Once
  <2>1. /\ i + 1 \in 1..Len(s) /\ s[i + 1].kind \in K
        /\ j + 1 \in 1..Len(s) /\ s[j + 1].kind \in K
    BY <1>2
  <2>2. i + 1 = j + 1  BY <2>1 DEF Once
  <2> QED  BY <1>3, <2>2
<1>6. ASSUME s[1].kind \in K
      PROVE  None(t, K)
  <2> SUFFICES ASSUME NEW m \in ToSet(t), m.kind \in K
               PROVE  FALSE
    BY DEF None
  <2>1. PICK i \in 1..Len(t) : m = t[i]  BY <1>3, SetOfSeq
  <2>2. i + 1 \in 1..Len(s) /\ s[i + 1].kind \in K  BY <1>2, <2>1
  <2>3. i + 1 = 1  BY <1>4, <1>6, <2>2 DEF Once
  <2> QED  BY <1>3, <2>3
<1> QED  BY <1>1, <1>5, <1>6 DEF t

(* Numbers have a least element in every set of them (the relation stays a *)
(* name: the provers know < itself better).                                *)
LessThan == OpToRel(<, Nat)

LEMMA LessThanIsWellFounded == IsWellFoundedOn(LessThan, Nat)
BY Zenon, NatLessThanWellFounded DEF LessThan

LEMMA LessThanIsLess == \A x, y \in Nat : y < x => <<y, x>> \in LessThan
BY Zenon DEF LessThan, OpToRel

LEMMA LeastNumber ==
    ASSUME NEW T \in SUBSET Nat, T # {}
    PROVE  \E m \in T : \A j \in T : m <= j
<1>1. PICK x \in T : \A y \in T : ~(<<y, x>> \in LessThan)
  BY WFMin, LessThanIsWellFounded
<1>2. ASSUME NEW y \in T
      PROVE  x <= y
  <2>1. x \in Nat /\ y \in Nat  OBVIOUS
  <2>2. ~(y < x)  BY Zenon, <1>1, <2>1, LessThanIsLess
  <2> QED  BY ONLY <2>1, <2>2
<1> QED  BY <1>2

LEMMA FirstIsOne ==
    ASSUME NEW T \in SUBSET Nat, T # {}
    PROVE  First(T) \in T
BY LeastNumber DEF First
-----------------------------------------------------------------------------
(* What the pieces of the actions do to the two directions. *)

LEMMA InKnown ==
    ASSUME WireTypes
    PROVE  /\ In \in Seq(DownMessage)
           /\ ToSet(In) = ToSet(buffered) \cup ToSet(down)
           /\ ToSet(buffered) \subseteq DownMessage /\ ToSet(down) \subseteq DownMessage
           /\ ToSet(up) \subseteq UpMessage
BY SetOfConcat, SetOfSeq, ConcatProperties DEF WireTypes, In

LEMMA InSame ==
    ASSUME buffered' = buffered, down' = down
    PROVE  In' = In
BY DEF In

LEMMA NoMessages == \A K : None(<<>>, K) /\ Once(<<>>, K)
BY SetOfEmpty DEF None, Once

(* Messages other than commands and the opening of a handshake are added.  *)
Others == UpKind \ (Command \cup {"C0C1"})
AddsOthers == /\ up' \in Seq(UpMessage)
              /\ \A m \in ToSet(up') : m \in ToSet(up) \/ m.kind \in Others
              /\ Once(up, Command) => Once(up', Command)

LEMMA OneOther ==
    ASSUME WireTypes, NEW kind \in Others, up' = Written(<<Message(kind)>>) \/ up' = up
    PROVE  AddsOthers
<1> DEFINE ms == <<Message(kind)>>
<1>1. ms \in Seq(UpMessage)  BY DEF Others, UpMessage, Message
<1>2. \A m \in ToSet(ms) : m.kind \in Others  BY SetOfOne DEF Message
<1>3. None(ms, Command)  BY <1>2 DEF None, Others
<1>4. up \in Seq(UpMessage)  BY DEF WireTypes
<1>5. up' = up \o ms \/ up' = up  BY DEF Written
<1> HIDE DEF ms
<1>6. CASE up' = up  BY <1>4, <1>6 DEF AddsOthers
<1>7. CASE up' = up \o ms
  <2>1. /\ up \o ms \in Seq(UpMessage) /\ ToSet(up \o ms) = ToSet(up) \cup ToSet(ms)
        /\ Once(up, Command) => Once(up \o ms, Command)
    BY <1>1, <1>3, <1>4, SetOfConcat, ConcatProperties, OnceInConcat
  <2> QED  BY <1>2, <1>7, <2>1 DEF AddsOthers
<1> QED  BY <1>5, <1>6, <1>7

(* RTMP_Close *)
Closed == /\ link' \notin {"up", "lost"} /\ link' \in {"none", "closed"}
          /\ socket' = FALSE /\ buffered' = <<>>
          /\ streamId' = -1 /\ numInvokes' = 0 /\ calls' = <<>>
          /\ playing' = FALSE /\ bwChecks' = 0 /\ misaligned' = FALSE

LEMMA CloseDoes ==
    ASSUME WireTypes, RtmpClose
    PROVE  /\ AddsOthers /\ Closed
           /\ calls' \in Seq(Call) /\ buffered' \in Seq(DownMessage)
<1>1. "FCUnpublish" \in Others  BY DEF Others, UpKind, Command
<1>2. AddsOthers  BY <1>1, OneOther DEF RtmpClose
<1>3. Closed  BY DEF RtmpClose, Closed, WireTypes
<1> QED  BY <1>2, <1>3 DEF Closed

LEMMA CloseTypes ==
    ASSUME WireTypes, RtmpClose
    PROVE  SessionTypes'
BY CloseDoes DEF Closed, SessionTypes

LEMMA CloseLeaves ==
    ASSUME WireTypes, RtmpClose, down' = down
    PROVE  /\ In' = down /\ ToSet(In') \subseteq ToSet(In)
           /\ \A K : Once(In, K) => Once(In', K)
<1>1. buffered \in Seq(DownMessage) /\ down \in Seq(DownMessage)  BY DEF WireTypes
<1>2. In' = down  BY <1>1, ConcatEmptySeq DEF In, RtmpClose
<1> QED  BY <1>1, <1>2, InKnown, OnceInConcat DEF In

(* One command is sent and added to the calls, with the next number.       *)
AddsCommand(name, cs) ==
    /\ numInvokes' \in Nat /\ numInvokes' > numInvokes
    /\ up' \in Seq(UpMessage)
    /\ \A m \in ToSet(up') : \/ m \in ToSet(up)
                             \/ m.kind \in Others
                             \/ m.kind = name /\ m.txn = numInvokes'
    /\ None(up, Command) => Once(up', Command)
    /\ calls' \in Seq(Call)
    /\ \A c \in ToSet(calls') : \/ c \in ToSet(cs)
                                \/ c = [name |-> name, num |-> numInvokes', on |-> connection]

LEMMA InvokeDoes ==
    ASSUME Types, NEW name \in Command, NEW others \in Seq(Others),
           NEW cs \in Seq(Call), NEW ok, Invoke(others, <<name>>, cs, ok)
    PROVE  AddsCommand(name, cs)
<1> DEFINE n == Len(others)
           names == others \o <<name>>
           ms == [i \in 1..Len(names) |-> [kind |-> names[i], txn |-> numInvokes + i, id |-> 0]]
           new == [i \in 1..1 |-> [name |-> <<name>>[i], num |-> numInvokes + n + i,
                                   on |-> connection]]
<1>1. /\ n \in Nat /\ numInvokes \in Nat /\ connection \in Nat
      /\ \A i \in 1..n : others[i] \in Others /\ others[i] \in UpKind
  BY LenProperties, ElementOfSeq DEF Types, ThreadTypes, SessionTypes, Others
<1>2. /\ Len(names) = n + 1
      /\ \A i \in 1..n : names[i] = others[i]
      /\ names[n + 1] = name
  <2>1. others \in Seq(UpKind) /\ <<name>> \in Seq(UpKind) /\ Len(<<name>>) = 1
        /\ <<name>>[1] = name /\ 1 \in 1..1
    BY DEF UpKind, Others
  <2> QED  BY <2>1, ConcatProperties
<1>3. Len(<<name>>) = 1 /\ <<name>>[1] = name  OBVIOUS
<1>4. /\ numInvokes' = numInvokes + (n + 1)
      /\ up' = IF ok THEN Written(ms) ELSE up
      /\ calls' = IF ok THEN cs \o new ELSE cs
  BY <1>2, <1>3 DEF Invoke
<1> HIDE DEF n, names
<1>5. /\ ms \in Seq(UpMessage) /\ Len(ms) = n + 1
      /\ \A i \in 1..n : ms[i].kind \in Others
      /\ ms[n + 1].kind = name /\ ms[n + 1].txn = numInvokes + (n + 1)
  <2>1. \A i \in 1..n + 1 : i \in 1..n \/ i = n + 1  BY <1>1
  <2>2. \A i \in 1..n + 1 : names[i] \in UpKind /\ numInvokes + i \in Nat
    BY <1>1, <1>2, <2>1 DEF UpKind
  <2>3. \A i \in 1..n + 1 : ms[i] \in UpMessage /\ ms[i].kind = names[i]
                             /\ ms[i].txn = numInvokes + i
    BY <1>2, <2>2 DEF UpMessage
  <2>4. ms = [i \in 1..n + 1 |-> ms[i]]  BY <1>2
  <2> HIDE DEF ms
  <2>5. ms \in [1..n + 1 -> UpMessage]  BY <2>3, <2>4
  <2>6. n + 1 \in Nat /\ n + 1 \in 1..n + 1 /\ \A i \in 1..n : i \in 1..n + 1
    BY <1>1
  <2>7. ms \in Seq(UpMessage)  BY <2>5, <2>6, SMTT(30)
  <2>8. Len(ms) = n + 1  BY SMTT(60), <2>5, <2>6
  <2>9. \A i \in 1..n : ms[i].kind \in Others  BY <1>1, <1>2, <2>3, <2>6
  <2>10. ms[n + 1].kind = name /\ ms[n + 1].txn = numInvokes + (n + 1)
    BY <1>2, <2>3, <2>6
  <2> QED  BY <2>7, <2>8, <2>9, <2>10
<1>6. /\ new \in Seq(Call) /\ Len(new) = 1
      /\ new[1] = [name |-> name, num |-> numInvokes + (n + 1), on |-> connection]
  <2>1. new = <<[name |-> name, num |-> numInvokes + (n + 1), on |-> connection]>>
    BY <1>1
  <2>2. [name |-> name, num |-> numInvokes + (n + 1), on |-> connection] \in Call
    BY <1>1 DEF Call
  <2> QED  BY <2>1, <2>2
<1> HIDE DEF ms, new
<1>7. up \in Seq(UpMessage)  BY DEF Types, WireTypes
<1>8. numInvokes' \in Nat /\ numInvokes' > numInvokes  BY <1>1, <1>4
<1>9. /\ calls' \in Seq(Call)
      /\ \A c \in ToSet(calls') : \/ c \in ToSet(cs)
                                  \/ c = [name |-> name, num |-> numInvokes', on |-> connection]
  <2>1. ToSet(new) = {[name |-> name, num |-> numInvokes', on |-> connection]}
    BY <1>4, <1>6, SetOfOne, SetOfSeq
  <2>2. cs \o new \in Seq(Call) /\ ToSet(cs \o new) = ToSet(cs) \cup ToSet(new)
    BY <1>6, ConcatProperties, SetOfConcat
  <2> QED  BY <1>4, <2>1, <2>2
<1>10. \A m \in ToSet(ms) : \/ m.kind \in Others
                            \/ m.kind = name /\ m.txn = numInvokes'
  <2> TAKE m \in ToSet(ms)
  <2>1. PICK i \in 1..n + 1 : m = ms[i]  BY <1>5, SetOfSeq
  <2>2. i \in 1..n \/ i = n + 1  BY <1>1
  <2> QED  BY <1>4, <1>5, <2>1, <2>2
<1>11. Once(ms, Command)
  <2>1. \A i \in 1..n + 1 : ms[i].kind \in Command => i = n + 1
    <3> TAKE i \in 1..n + 1
    <3>1. i \in 1..n \/ i = n + 1  BY <1>1
    <3> QED  BY <1>5, <3>1 DEF Others
  <2> QED  BY <1>5, <2>1 DEF Once
<1>12. /\ up \o ms \in Seq(UpMessage) /\ ToSet(up \o ms) = ToSet(up) \cup ToSet(ms)
       /\ None(up, Command) => Once(up \o ms, Command)
  BY <1>5, <1>7, <1>11, ConcatProperties, SetOfConcat, OnceInConcat
<1>13. up' = up \/ up' = up \o ms  BY <1>4 DEF Written
<1>14. /\ up' \in Seq(UpMessage)
       /\ \A m \in ToSet(up') : \/ m \in ToSet(up)
                                \/ m.kind \in Others
                                \/ m.kind = name /\ m.txn = numInvokes'
       /\ None(up, Command) => Once(up', Command)
  BY <1>7, <1>10, <1>12, <1>13, NoneIsOnce
<1> QED  BY <1>8, <1>9, <1>14 DEF AddsCommand

(* A call whose answer nobody waits for *)
LEMMA InvokeOther ==
    ASSUME Types, NEW ok, Invoke(<<"_checkbw">>, <<>>, calls, ok)
    PROVE  /\ numInvokes' = numInvokes + 1 /\ calls' = calls
           /\ AddsOthers
<1> DEFINE names == <<"_checkbw">> \o <<>>
           m == [kind |-> "_checkbw", txn |-> numInvokes + 1, id |-> 0]
           ms == [i \in 1..Len(names) |-> [kind |-> names[i], txn |-> numInvokes + i, id |-> 0]]
           none == [i \in 1..0 |-> [name |-> <<>>[i], num |-> numInvokes + 1 + i,
                                     on |-> connection]]
<1>1. numInvokes \in Nat /\ calls \in Seq(Call) /\ up \in Seq(UpMessage)
  BY DEF Types, SessionTypes, WireTypes
<1>2. names = <<"_checkbw">> /\ Len(names) = 1 /\ names[1] = "_checkbw"  OBVIOUS
<1>3. Len(<<"_checkbw">>) = 1 /\ Len(<<>>) = 0  OBVIOUS
<1>4. /\ numInvokes' = numInvokes + 1
      /\ up' = IF ok THEN Written(ms) ELSE up
      /\ calls' = IF ok THEN calls \o none ELSE calls
  BY <1>2, <1>3 DEF Invoke
<1> HIDE DEF names
<1>5. ms = <<m>>  BY <1>2
<1>6. none = <<>>  OBVIOUS
<1> HIDE DEF none
<1>7. calls' = calls  BY <1>1, <1>4, <1>6, ConcatEmptySeq
<1>8. ms \in Seq(UpMessage) /\ ToSet(ms) = {m} /\ None(ms, Command)
  <2>1. m \in UpMessage  BY <1>1 DEF UpMessage, UpKind
  <2>2. m.kind \notin Command  BY DEF Command
  <2> HIDE DEF m, ms
  <2>3. ms \in Seq(UpMessage) /\ ToSet(ms) = {m}  BY <1>5, <2>1, SetOfOne
  <2> QED  BY <2>2, <2>3 DEF None
<1>9. m.kind \in Others  BY DEF Others, UpKind, Command
<1> HIDE DEF m, ms
<1>10. /\ up \o ms \in Seq(UpMessage) /\ ToSet(up \o ms) = ToSet(up) \cup ToSet(ms)
       /\ Once(up, Command) => Once(up \o ms, Command)
  BY <1>1, <1>8, ConcatProperties, SetOfConcat, OnceInConcat
<1>11. up' = up \/ up' = up \o ms  BY <1>4 DEF Written
<1>12. AddsOthers  BY <1>1, <1>8, <1>9, <1>10, <1>11 DEF AddsOthers
<1> QED  BY <1>4, <1>7, <1>12

(* The server takes a message and answers.                                 *)
LEMMA TakenByServer ==
    ASSUME WireTypes, up # <<>>, up' = Tail(up)
    PROVE  /\ up' \in Seq(UpMessage) /\ Head(up) \in UpMessage
           /\ Head(up) \in ToSet(up) /\ ToSet(up') \subseteq ToSet(up)
           /\ Once(up, Command) => Once(up', Command)
           /\ Once(up, Command) /\ Head(up).kind \in Command => None(up', Command)
BY SetOfTail, OnceInTail DEF WireTypes

LEMMA AnswersDo ==
    ASSUME WireTypes, NEW ms \in Seq(DownMessage), buffered' = buffered,
           down' = Answered(ms)
    PROVE  /\ down' \in Seq(DownMessage)
           /\ ToSet(In') \subseteq ToSet(In) \cup ToSet(ms)
           /\ None(ms, Answer) /\ Once(In, Answer) => Once(In', Answer)
           /\ None(In, Answer) /\ Once(ms, Answer) => Once(In', Answer)
<1>1. buffered \in Seq(DownMessage) /\ down \in Seq(DownMessage)  BY DEF WireTypes
<1>2. In \in Seq(DownMessage)  BY InKnown
<1>3. CASE down' = down
  <2>1. In' = In  BY <1>3 DEF In
  <2> QED  BY <1>1, <1>2, <1>3, <2>1, NoneIsOnce
<1>4. CASE down' = down \o ms
  <2>1. In' = In \o ms  BY SMTT(60), <1>1, <1>4, ConcatAssociative DEF In
  <2>2. down \o ms \in Seq(DownMessage) /\ ToSet(In \o ms) = ToSet(In) \cup ToSet(ms)
    BY <1>1, <1>2, ConcatProperties, SetOfConcat
  <2>3. /\ None(ms, Answer) /\ Once(In, Answer) => Once(In \o ms, Answer)
        /\ None(In, Answer) /\ Once(ms, Answer) => Once(In \o ms, Answer)
    BY <1>2, OnceInConcat
  <2> QED  BY <1>4, <2>1, <2>2, <2>3
<1> QED  BY <1>3, <1>4 DEF Answered

(* The client reads a message, or lets recv take some of those on the way. *)
LEMMA TakenByClient ==
    ASSUME WireTypes, buffered # <<>>, buffered' = Tail(buffered), down' = down
    PROVE  /\ buffered' \in Seq(DownMessage) /\ Head(buffered) \in DownMessage
           /\ Head(buffered) \in ToSet(buffered) /\ Head(buffered) \in ToSet(In)
           /\ ToSet(buffered') \subseteq ToSet(buffered) /\ ToSet(In') \subseteq ToSet(In)
           /\ Once(In, Answer) => Once(In', Answer)
           /\ Once(In, Answer) /\ Head(buffered).kind \in Answer
                => None(buffered', Answer) /\ None(In', Answer)
<1>1. buffered \in Seq(DownMessage) /\ down \in Seq(DownMessage)  BY DEF WireTypes
<1>2. /\ Tail(buffered) \in Seq(DownMessage) /\ Head(buffered) \in DownMessage
      /\ Head(buffered) \in ToSet(buffered) /\ ToSet(Tail(buffered)) \subseteq ToSet(buffered)
  BY <1>1, SetOfTail
<1>3. ToSet(In) = ToSet(buffered) \cup ToSet(down)  BY InKnown
<1>4. In # <<>> /\ In' = Tail(In) /\ Head(In) = Head(buffered)
  <2>1. Len(buffered) \in Nat /\ Len(buffered) >= 1 /\ Len(down) \in Nat
        /\ Head(buffered) = buffered[1]
    BY <1>1, LenProperties, EmptySeq, HeadTailProperties
  <2>2. /\ Len(In) = Len(buffered) + Len(down)
        /\ \A i \in 1..Len(buffered) : In[i] = buffered[i]
        /\ \A i \in 1..Len(down) : In[Len(buffered) + i] = down[i]
    BY <1>1, ConcatProperties DEF In
  <2>3. In[1] = buffered[1] /\ In # <<>> /\ In \in Seq(DownMessage)
    BY <2>1, <2>2, InKnown, EmptySeq
  <2>4. Head(In) = In[1]  BY <2>3
  <2>5. Tail(buffered) \o down = Tail(In)
    <3> DEFINE t == Tail(buffered)
    <3>1. t \in Seq(DownMessage) /\ Len(t) = Len(buffered) - 1
          /\ \A i \in 1..Len(buffered) - 1 : t[i] = buffered[i + 1]
      BY <1>1, HeadTailProperties
    <3>2. Tail(In) \in Seq(DownMessage) /\ Len(Tail(In)) = Len(In) - 1
          /\ \A i \in 1..Len(In) - 1 : Tail(In)[i] = In[i + 1]
      BY <2>3, HeadTailProperties
    <3> HIDE DEF t
    <3>3. /\ t \o down \in Seq(DownMessage) /\ Len(t \o down) = Len(t) + Len(down)
          /\ \A i \in 1..Len(t) : (t \o down)[i] = t[i]
          /\ \A i \in 1..Len(down) : (t \o down)[Len(t) + i] = down[i]
      <4>1. t \in Seq(DownMessage) /\ down \in Seq(DownMessage)
        BY <1>1, <3>1
      <4> QED  BY <4>1, ConcatProperties
    <3>4. Len(t \o down) = Len(Tail(In))  BY <2>1, <2>2, <3>1, <3>2, <3>3
    <3>5. ASSUME NEW i \in 1..Len(t \o down)
          PROVE  (t \o down)[i] = Tail(In)[i]
      <4>1. i \in Nat /\ i >= 1 /\ i <= Len(buffered) - 1 + Len(down)
            /\ Tail(In)[i] = In[i + 1]
        BY <2>1, <2>2, <3>1, <3>2, <3>3
      <4>2. CASE i <= Len(buffered) - 1
        <5>1. i \in 1..Len(t) /\ i + 1 \in 1..Len(buffered)
              /\ i \in 1..Len(buffered) - 1
          BY <2>1, <3>1, <4>1, <4>2
        <5> QED  BY <2>2, <3>1, <3>3, <4>1, <5>1
      <4>3. CASE ~(i <= Len(buffered) - 1)
        <5>1. /\ i - Len(t) \in 1..Len(down) /\ i = Len(t) + (i - Len(t))
              /\ i + 1 = Len(buffered) + (i - Len(t))
          BY <2>1, <3>1, <4>1, <4>3
        <5>2. (t \o down)[i] = down[i - Len(t)]  BY <3>3, <5>1
        <5>3. In[i + 1] = down[i - Len(t)]
          <6> DEFINE k == i - Len(t)
          <6>1. k \in 1..Len(down) /\ i + 1 = Len(buffered) + k  BY <5>1
          <6> HIDE DEF k
          <6>2. In[i + 1] = down[k]  BY <2>2, <6>1
          <6> QED  BY <6>2 DEF k
        <5> QED  BY <4>1, <5>2, <5>3
      <4> QED  BY <4>2, <4>3
    <3> QED  BY <3>2, <3>3, <3>4, <3>5, SeqEqual DEF t
  <2> QED  BY <2>3, <2>4, <2>5 DEF In
<1>5. In \in Seq(DownMessage)  BY InKnown
<1>6. ToSet(In') \subseteq ToSet(In)  BY <1>4, <1>5, SetOfTail
<1>7. /\ Once(In, Answer) => Once(In', Answer)
      /\ Once(In, Answer) /\ Head(buffered).kind \in Answer => None(In', Answer)
  BY <1>4, <1>5, OnceInTail
<1>8. ToSet(buffered') \subseteq ToSet(In')
  <2>1. PICK t \in Seq(DownMessage) : t = buffered'  BY <1>2
  <2>2. ToSet(t) \subseteq ToSet(t \o down)  BY <1>1, SetOfConcat
  <2> QED  BY <2>1, <2>2 DEF In
<1> QED  BY <1>2, <1>3, <1>6, <1>7, <1>8 DEF None

LEMMA FillDoes ==
    ASSUME WireTypes, Fill
    PROVE  /\ buffered' \in Seq(DownMessage) /\ down' \in Seq(DownMessage)
           /\ In' = In /\ ToSet(buffered') \subseteq ToSet(In)
<1>1. buffered \in Seq(DownMessage) /\ down \in Seq(DownMessage) /\ Len(down) \in Nat
  BY LenProperties DEF WireTypes
<1>2. PICK n \in 1..Len(down) : /\ buffered' = buffered \o SubSeq(down, 1, n)
                               /\ down' = SubSeq(down, n + 1, Len(down))
  BY DEF Fill
<1> DEFINE a == SubSeq(down, 1, n)
           b == SubSeq(down, n + 1, Len(down))
<1>3. a \in Seq(DownMessage) /\ b \in Seq(DownMessage)
  BY <1>1, SetOfPart
<1>4. a \o b = down
  <2>1. /\ 1 \in 1..Len(down) + 1 /\ n \in 1 - 1..Len(down) /\ Len(down) \in n..Len(down)
        /\ n \in 0..Len(down)
    BY <1>1
  <2>2. a \o b = SubSeq(down, 1, Len(down))
    BY <1>1, <2>1, ConcatAdjacentSubSeq
  <2> QED  BY <1>1, <2>2, SubSeqFull
<1>5. buffered' = buffered \o a /\ down' = b  BY <1>2
<1> HIDE DEF a, b
<1>6. (buffered \o a) \o b = buffered \o down
  <2>1. \A s, t, u \in Seq(DownMessage) : (s \o t) \o u = s \o (t \o u)
    BY SMTT(60), ConcatAssociative
  <2>2. (buffered \o a) \o b = buffered \o (a \o b)  BY Zenon, <1>1, <1>3, <2>1
  <2> QED  BY <1>4, <2>2
<1>7. In' = In  BY <1>5, <1>6 DEF In
<1>8. buffered \o a \in Seq(DownMessage) /\ ToSet(buffered \o a) \subseteq ToSet((buffered \o a) \o b)
  <2> DEFINE c == buffered \o a
  <2>1. c \in Seq(DownMessage)  BY <1>1, <1>3, ConcatProperties
  <2> HIDE DEF c
  <2>2. ToSet(c \o b) = ToSet(c) \cup ToSet(b)  BY <1>3, <2>1, SetOfConcat
  <2> QED  BY <2>1, <2>2 DEF c
<1> QED  BY <1>3, <1>5, <1>6, <1>7, <1>8 DEF In

LEMMA HandshakeTaken ==
    ASSUME WireTypes, Awaited # "any", HasAwaited, TakeHandshake, down' = down
    PROVE  /\ buffered' \in Seq(DownMessage) /\ ToSet(In') \subseteq ToSet(In)
           /\ ToSet(buffered') \subseteq ToSet(buffered)
           /\ \E k \in 1..Len(buffered) :
                /\ buffered[k].kind = Awaited
                /\ buffered' = SubSeq(buffered, k + 1, Len(buffered))
                /\ misaligned' = (misaligned \/ k > 1)
<1>1. buffered \in Seq(DownMessage) /\ down \in Seq(DownMessage) /\ Len(buffered) \in Nat
  BY LenProperties DEF WireTypes
<1>2. Len(Kinds(buffered)) = Len(buffered)  BY <1>1 DEF Kinds
<1>3. \E i \in 1..Len(buffered) : buffered[i].kind = Awaited
  BY <1>2 DEF HasAwaited, Contains, Kinds
<1> DEFINE k == CHOOSE i \in 1..Len(buffered) : buffered[i].kind = Awaited
<1>4. k \in 1..Len(buffered) /\ buffered[k].kind = Awaited  BY <1>3
<1>5. buffered' = SubSeq(buffered, k + 1, Len(buffered)) /\ misaligned' = (misaligned \/ k > 1)
  BY DEF TakeHandshake
<1> HIDE DEF k
<1>6. /\ buffered' \in Seq(DownMessage) /\ ToSet(buffered') \subseteq ToSet(buffered)
  BY <1>1, <1>4, <1>5, SetOfPart
<1>7. ToSet(buffered' \o down) = ToSet(buffered') \cup ToSet(down)
  BY <1>1, <1>6, SetOfConcat
<1>8. ToSet(In') \subseteq ToSet(In)  BY <1>6, <1>7, InKnown DEF In
<1> QED  BY <1>4, <1>5, <1>6, <1>8

(* The calls that stay when one is erased *)
LEMMA EraseDoes ==
    ASSUME Types, NEW s \in SUBSET (1..Len(calls))
    PROVE  Erase(s) \in Seq(Call) /\ ToSet(Erase(s)) \subseteq ToSet(calls)
<1>1. calls \in Seq(Call)  BY DEF Types, SessionTypes
<1>2. CASE s = {}  BY <1>1, <1>2 DEF Erase
<1>3. CASE s # {}
  <2>1. s \in SUBSET Nat  BY <1>1, LenProperties
  <2>2. First(s) \in 1..Len(calls)  BY <1>3, <2>1, FirstIsOne
  <2> QED  BY <1>1, <1>3, <2>2, SetOfRest DEF Erase
<1> QED  BY <1>2, <1>3

LEMMA AskedIs ==
    ASSUME Types, NEW txn, Asked(txn) # {}
    PROVE  /\ calls[First(Asked(txn))] \in ToSet(calls)
           /\ calls[First(Asked(txn))] \in Call
           /\ calls[First(Asked(txn))].num = txn
<1>1. calls \in Seq(Call)  BY DEF Types, SessionTypes
<1>2. Asked(txn) \in SUBSET Nat  BY <1>1, LenProperties DEF Asked
<1>3. First(Asked(txn)) \in Asked(txn)  BY <1>2, FirstIsOne
<1>4. First(Asked(txn)) \in 1..Len(calls) /\ calls[First(Asked(txn))].num = txn
  BY <1>3 DEF Asked
<1> HIDE DEF Asked
<1> QED  BY <1>1, <1>4, SetOfSeq

(* What a result leads to, by the name of the call it answers *)
CalledName == LET s == Asked(Head(buffered).txn)
              IN  IF s = {} THEN "none" ELSE calls[First(s)].name

LEMMA ResultDoes ==
    ASSUME Types, ReceiveResult
    PROVE  /\ CalledName = "connect" =>
                AddsCommand("createStream", calls) /\ streamId' = streamId /\ playing' = playing
           /\ CalledName = "createStream" =>
                AddsCommand("publish", calls) /\ streamId' = Head(buffered).id
                /\ playing' = playing
           /\ CalledName \notin {"connect", "createStream"} =>
                /\ calls' \in Seq(Call) /\ ToSet(calls') \subseteq ToSet(calls)
                /\ UNCHANGED <<numInvokes, up, streamId>>
                /\ CalledName \notin {"play", "publish"} => playing' = playing
<1> DEFINE s == Asked(Head(buffered).txn)
<1>1. playing \in BOOLEAN  BY DEF Types, FlagTypes
<1>2. PICK ok \in WriteWorks :
        /\ CalledName = "connect" =>
             Invoke(<<"releaseStream", "FCPublish">>, <<"createStream">>, Erase(s), ok)
        /\ CalledName = "createStream" => Invoke(<<>>, <<"publish">>, Erase(s), ok)
        /\ CalledName \notin {"connect", "createStream"} =>
             calls' = Erase(s) /\ UNCHANGED <<numInvokes, up>>
        /\ streamId' = IF CalledName = "createStream" THEN Head(buffered).id ELSE streamId
        /\ playing' = (playing \/ CalledName \in {"play", "publish"})
  BY DEF ReceiveResult, CalledName, IdOf, StartsPlaying, OnceConnected
<1>3. Erase(s) \in Seq(Call) /\ ToSet(Erase(s)) \subseteq ToSet(calls)
  BY EraseDoes DEF Asked
<1> HIDE DEF s
<1>4. \A name \in Command : AddsCommand(name, Erase(s)) => AddsCommand(name, calls)
  BY <1>3 DEF AddsCommand
<1>5. CASE CalledName = "connect"
  <2>1. <<"releaseStream", "FCPublish">> \in Seq(Others)
    BY DEF Others, UpKind, Command
  <2>2. AddsCommand("createStream", Erase(s))
    BY <1>2, <1>3, <1>5, <2>1, InvokeDoes DEF Command
  <2> QED  BY <1>1, <1>2, <1>4, <1>5, <2>2 DEF Command
<1>6. CASE CalledName = "createStream"
  <2>1. <<>> \in Seq(Others)  OBVIOUS
  <2>2. AddsCommand("publish", Erase(s))
    BY <1>2, <1>3, <1>6, <2>1, InvokeDoes DEF Command
  <2> QED  BY <1>1, <1>2, <1>4, <1>6, <2>2 DEF Command
<1>7. CASE CalledName \notin {"connect", "createStream"}
  <2>1. CalledName \notin {"play", "publish"} => playing' = playing  BY <1>1, <1>2
  <2> QED  BY <1>2, <1>3, <1>7, <2>1
<1> QED  BY <1>5, <1>6, <1>7

(* One message written, whatever its kind *)
LEMMA OneWritten ==
    ASSUME WireTypes, NEW kind \in UpKind
    PROVE  /\ Written(<<Message(kind)>>) \in Seq(UpMessage)
           /\ ToSet(Written(<<Message(kind)>>)) \subseteq ToSet(up) \cup {Message(kind)}
           /\ kind \notin Command /\ Once(up, Command)
                => Once(Written(<<Message(kind)>>), Command)
<1>1. Message(kind) \in UpMessage /\ Message(kind).kind = kind
  BY DEF Message, UpMessage
<1> DEFINE ms == <<Message(kind)>>
<1>2. ms \in Seq(UpMessage) /\ ToSet(ms) = {Message(kind)}  BY <1>1, SetOfOne
<1>3. kind \notin Command => None(ms, Command)  BY <1>1, <1>2 DEF None
<1> HIDE DEF ms
<1>4. up \in Seq(UpMessage)  BY DEF WireTypes
<1>5. /\ up \o ms \in Seq(UpMessage) /\ ToSet(up \o ms) = ToSet(up) \cup ToSet(ms)
      /\ Once(up, Command) /\ None(ms, Command) => Once(up \o ms, Command)
  BY <1>2, <1>4, ConcatProperties, SetOfConcat, OnceInConcat
<1>6. Written(ms) = up \/ Written(ms) = up \o ms  BY DEF Written
<1>7. /\ Written(ms) \in Seq(UpMessage) /\ ToSet(Written(ms)) \subseteq ToSet(up) \cup {Message(kind)}
      /\ kind \notin Command /\ Once(up, Command) => Once(Written(ms), Command)
  BY <1>2, <1>3, <1>4, <1>5, <1>6
<1> QED  BY <1>7 DEF ms

(* The three answers that tell the client how far it has come: each holds  *)
(* one that counts, the last.                                              *)
AddsAnswer(m) == /\ down' \in Seq(DownMessage)
                 /\ \A x \in ToSet(In') : x \in ToSet(In) \/ x = m \/ x.kind \notin Answer
                 /\ None(In, Answer) => Once(In', Answer)

LEMMA AnswerAdded ==
    ASSUME WireTypes, buffered' = buffered, NEW others \in Seq(DownMessage),
           None(others, Answer),
           NEW m \in DownMessage, down' = Answered(others \o <<m>>)
    PROVE  AddsAnswer(m)
<1> DEFINE one == <<m>>
<1>1. one \in Seq(DownMessage) /\ ToSet(one) = {m} /\ Once(one, Answer)
  <2>1. Len(one) = 1  OBVIOUS
  <2> QED  BY <2>1, SetOfOne DEF Once
<1> HIDE DEF one
<1> DEFINE ms == others \o one
<1>2. ms \in Seq(DownMessage) /\ ToSet(ms) = ToSet(others) \cup {m} /\ Once(ms, Answer)
  BY <1>1, ConcatProperties, SetOfConcat, OnceInConcat
<1>3. down' = Answered(ms)  BY DEF one
<1> HIDE DEF ms
<1>4. /\ down' \in Seq(DownMessage) /\ ToSet(In') \subseteq ToSet(In) \cup ToSet(ms)
      /\ None(In, Answer) /\ Once(ms, Answer) => Once(In', Answer)
  BY <1>2, <1>3, AnswersDo
<1> QED  BY <1>2, <1>4 DEF AddsAnswer, None

LEMMA ConnectAnswered ==
    ASSUME Types, ServeConnect
    PROVE  AddsAnswer(Result("connect", Head(up).txn, 0))
<1> DEFINE others == <<Message("chunkSize"), Message("serverBW"), Message("clientBW")>>
           m == Result("connect", Head(up).txn, 0)
<1>1. Head(up) \in UpMessage /\ Head(up).kind = "connect" /\ buffered' = buffered
  BY TakenByServer DEF ServeConnect, ServerReads, clientVars, Types
<1>2. m \in DownMessage  BY <1>1 DEF UpMessage, DownMessage, Result
<1>3. /\ Message("chunkSize") \in DownMessage /\ Message("chunkSize").kind \notin Answer
      /\ Message("serverBW") \in DownMessage /\ Message("serverBW").kind \notin Answer
      /\ Message("clientBW") \in DownMessage /\ Message("clientBW").kind \notin Answer
  BY DEF Message, DownMessage, DownKind, Answer
<1>4. others \in Seq(DownMessage) /\ None(others, Answer)
  <2>1. others \in Seq(DownMessage) /\ Len(others) = 3  BY <1>3
  <2>2. \A i \in 1..3 : others[i].kind \notin Answer  BY <1>3
  <2> HIDE DEF others
  <2> QED  BY <2>1, <2>2, SetOfSeq DEF None
<1>5. <<Message("chunkSize"), Message("serverBW"), Message("clientBW"), m>> = others \o <<m>>
  OBVIOUS
<1>6. down' = Answered(others \o <<m>>)  BY <1>5 DEF ServeConnect
<1> HIDE DEF others, m
<1>7. AddsAnswer(m)  BY <1>1, <1>2, <1>4, <1>6, AnswerAdded DEF Types
<1> QED  BY <1>7 DEF m

LEMMA CreateAnswered ==
    ASSUME Types, ServeCreateStream
    PROVE  AddsAnswer(Result("createStream", Head(up).txn, server.streamId + 1))
<1> DEFINE m == Result("createStream", Head(up).txn, server.streamId + 1)
<1>1. Head(up) \in UpMessage /\ Head(up).kind = "createStream" /\ buffered' = buffered
  BY TakenByServer DEF ServeCreateStream, ServerReads, clientVars, Types
<1>2. server.streamId \in Nat  BY DEF Types, WireTypes, Server
<1>3. m \in DownMessage  BY <1>1, <1>2 DEF UpMessage, DownMessage, Result
<1>4. <<>> \in Seq(DownMessage) /\ None(<<>>, Answer) /\ <<m>> = <<>> \o <<m>>
  BY NoMessages
<1>5. down' = Answered(<<>> \o <<m>>)  BY <1>4 DEF ServeCreateStream
<1> HIDE DEF m
<1>6. AddsAnswer(m)  BY <1>1, <1>3, <1>4, <1>5, AnswerAdded DEF Types
<1> QED  BY <1>6 DEF m

LEMMA PublishAnswered ==
    ASSUME Types, ServePublish
    PROVE  \/ /\ AddsAnswer(Message("Publish.Start"))
              /\ server' = [server EXCEPT !.begun = @ + 1]
           \/ UNCHANGED <<server, down, buffered>>
<1> DEFINE others == <<Message("streamBegin")>>
           m == Message("Publish.Start")
<1> SUFFICES ASSUME ~UNCHANGED <<server, down, buffered>>
             PROVE  /\ AddsAnswer(Message("Publish.Start"))
                    /\ server' = [server EXCEPT !.begun = @ + 1]
  OBVIOUS
<1>1. /\ buffered' = buffered /\ server' = [server EXCEPT !.begun = @ + 1]
      /\ down' = Answered(<<Message("streamBegin"), m>>)
  BY DEF ServePublish, ServerReads, clientVars
<1>2. /\ m \in DownMessage
      /\ Message("streamBegin") \in DownMessage /\ Message("streamBegin").kind \notin Answer
  BY DEF Message, DownMessage, DownKind, Answer
<1>3. others \in Seq(DownMessage) /\ None(others, Answer)
  BY <1>2, SetOfOne DEF None
<1>4. <<Message("streamBegin"), m>> = others \o <<m>>  OBVIOUS
<1>5. down' = Answered(others \o <<m>>)  BY <1>1, <1>4
<1> HIDE DEF others, m
<1>6. AddsAnswer(m)  BY <1>1, <1>2, <1>3, <1>5, AnswerAdded DEF Types
<1> QED  BY <1>1, <1>6 DEF m

LEMMA ExtraSaid ==
    ASSUME Types, PeerSays
    PROVE  /\ down' \in Seq(DownMessage)
           /\ \A m \in ToSet(In') : m \in ToSet(In) \/ m.kind \notin Answer
           /\ Once(In, Answer) => Once(In', Answer)
<1>1. PICK kind \in Extra : down' = Append(down, Message(kind))  BY DEF PeerSays
<1>2. kind \in ExtraKind  BY <1>1, SessionAssumption DEF SessionAssumption
<1> DEFINE ms == <<Message(kind)>>
<1>3. Message(kind) \in DownMessage /\ Message(kind).kind \notin Answer
  BY <1>2 DEF Message, DownMessage, DownKind, ExtraKind, Answer
<1>4. ms \in Seq(DownMessage) /\ ToSet(ms) = {Message(kind)}  BY <1>3, SetOfOne
<1>5. None(ms, Answer)  BY <1>3, <1>4 DEF None
<1>6. down \in Seq(DownMessage) /\ buffered' = buffered
  BY DEF Types, WireTypes, PeerSays, clientVars
<1>7. down' = Answered(ms)
  <2>1. Append(down, Message(kind)) = down \o ms  BY <1>3, <1>6, AppendIsConcat
  <2> QED  BY <1>1, <2>1 DEF Answered, PeerSays
<1> HIDE DEF ms
<1>8. /\ down' \in Seq(DownMessage) /\ ToSet(In') \subseteq ToSet(In) \cup ToSet(ms)
      /\ Once(In, Answer) => Once(In', Answer)
  BY <1>4, <1>5, <1>6, <1>7, AnswersDo DEF Types
<1> QED  BY <1>3, <1>4, <1>8

(* What the server counts *)
LEMMA ServerTypes ==
    ASSUME Types
    PROVE  /\ [server EXCEPT !.connects = @ + 1] \in Server
           /\ [server EXCEPT !.streamId = @ + 1] \in Server
           /\ [server EXCEPT !.begun = @ + 1] \in Server
<1>1. server \in Server  BY DEF Types, WireTypes
<1>2. \A n \in Nat : /\ [server EXCEPT !.connects = n] \in Server
                     /\ [server EXCEPT !.streamId = n] \in Server
                     /\ [server EXCEPT !.begun = n] \in Server
  BY <1>1 DEF Server
<1>3. /\ server.connects + 1 \in Nat /\ server.streamId + 1 \in Nat
      /\ server.begun + 1 \in Nat
  BY <1>1 DEF Server
<1> QED  BY <1>2, <1>3
-----------------------------------------------------------------------------
(* The types are kept. *)

LEMMA ThreadTypesStep ==
    ASSUME Types, Next
    PROVE  ThreadTypes'
<1> USE DEF At, Goto, Use, rtmpVars, linkVars, serverVars, clientVars, Receive,
           Consume, ServerReads, ConnectFailed, Types, ThreadTypes, Phase,
           Handshaking
<1>0. CASE NoSocket  BY <1>0 DEF NoSocket, Bounds
<1>1. CASE ConnectSocket  BY <1>1 DEF ConnectSocket
<1>2. CASE InterfaceConnects  BY <1>2 DEF InterfaceConnects, FreshServer
<1>3. CASE InterfaceFails  BY <1>3 DEF InterfaceFails, Bounds
<1>4. CASE NoInterface  BY <1>4 DEF NoInterface
<1>5. CASE SendC0C1  BY <1>5 DEF SendC0C1, CloseAndFail
<1>6. CASE ReadS0S1  BY <1>6 DEF ReadS0S1, CloseAndFail
<1>7. CASE ReadS2  BY <1>7 DEF ReadS2
<1>8. CASE SendConnectPacket
  BY <1>8 DEF SendConnectPacket, CloseAndFail, AfterConnect
<1>9. CASE AnnounceChunkSize  BY <1>9 DEF AnnounceChunkSize
<1>10. CASE Fill  BY <1>10 DEF Fill
<1>11. CASE ReadFails  BY <1>11 DEF ReadFails
<1>12. CASE ReceiveResult  BY <1>12 DEF ReceiveResult, DownKind, ExtraKind
<1>13. CASE ReceivePublishStart  BY <1>13 DEF ReceivePublishStart, DownKind
<1>14. CASE ReceiveOnBWDone  BY <1>14 DEF ReceiveOnBWDone, DownKind, ExtraKind
<1>15. CASE ReceiveOnbwcheck  BY <1>15 DEF ReceiveOnbwcheck, DownKind, ExtraKind
<1>16. CASE ReceiveOnbwdone  BY <1>16 DEF ReceiveOnbwdone, DownKind, ExtraKind
<1>17. CASE ReceivePing  BY <1>17 DEF ReceivePing, DownKind, ExtraKind
<1>18. CASE ReceiveNothing  BY <1>18 DEF ReceiveNothing, DownKind, ExtraKind
<1>19. CASE ReceiveClose  BY <1>19 DEF ReceiveClose, DownKind, ExtraKind
<1>20. CASE StreamPlays  BY <1>20 DEF StreamPlays
<1>21. CASE SendMedia  BY <1>21, SetOfTail DEF SendMedia
<1>22. CASE Loop  BY <1>22 DEF Loop
<1>23. CASE HandshakeTimesOut  BY <1>23 DEF HandshakeTimesOut, CloseAndFail, Bounds
<1>24. CASE StreamTimesOut  BY <1>24 DEF StreamTimesOut, Bounds
<1>25. CASE SendTimesOut  BY <1>25 DEF SendTimesOut, Bounds
<1>26. CASE ServerHandshake  BY <1>26 DEF ServerHandshake
<1>27. CASE ServeConnect  BY <1>27 DEF ServeConnect
<1>28. CASE ServeCreateStream  BY <1>28 DEF ServeCreateStream
<1>29. CASE ServePublish  BY <1>29 DEF ServePublish
<1>30. CASE ServeMedia  BY <1>30 DEF ServeMedia
<1>31. CASE ServeNothing  BY <1>31 DEF ServeNothing
<1>32. CASE ServerStops  BY <1>32 DEF ServerStops
<1>33. CASE Push  BY <1>33 DEF Push, FlagTypes, SessionTypes, Packet, Bounds
<1>34. CASE PeerSays  BY <1>34 DEF PeerSays, Bounds
<1>35. CASE Break  BY <1>35 DEF Break, Bounds
<1> QED
  BY <1>0, <1>1, <1>2, <1>3, <1>4, <1>5, <1>6, <1>7, <1>8, <1>9, <1>10, <1>11, <1>12,
     <1>13, <1>14, <1>15, <1>16, <1>17, <1>18, <1>19, <1>20, <1>21, <1>22, <1>23, <1>24,
     <1>25, <1>26, <1>27, <1>28, <1>29, <1>30, <1>31, <1>32, <1>33, <1>34, <1>35 DEF Next,
     ClientStep, Connecting, Receiving, Timeout, ServerStep

LEMMA FlagTypesStep ==
    ASSUME Types, Next
    PROVE  FlagTypes'
<1> USE DEF At, Goto, Use, rtmpVars, linkVars, serverVars, clientVars, Receive,
           Consume, ServerReads, ConnectFailed, Types, FlagTypes
<1>0. CASE NoSocket  BY <1>0 DEF NoSocket
<1>1. CASE ConnectSocket  BY <1>1 DEF ConnectSocket
<1>2. CASE InterfaceConnects  BY <1>2 DEF InterfaceConnects, FreshServer
<1>3. CASE InterfaceFails
  <2>1. CASE RtmpClose  BY <1>3, <2>1, CloseDoes DEF InterfaceFails, Closed
  <2>2. CASE ~RtmpClose  BY <1>3, <2>2 DEF InterfaceFails
  <2> QED  BY <2>1, <2>2
<1>4. CASE NoInterface  BY <1>4 DEF NoInterface
<1>5. CASE SendC0C1
  <2>1. CASE RtmpClose  BY <1>5, <2>1, CloseDoes DEF SendC0C1, CloseAndFail, Closed
  <2>2. CASE ~RtmpClose  BY <1>5, <2>2 DEF SendC0C1, CloseAndFail
  <2> QED  BY <2>1, <2>2
<1>6. CASE ReadS0S1
  <2>1. CASE RtmpClose
    BY <1>6, <2>1, CloseDoes, HandshakeTaken DEF ReadS0S1, CloseAndFail, Closed,
         Awaited
  <2>2. CASE ~RtmpClose
    BY <1>6, <2>2, HandshakeTaken DEF ReadS0S1, CloseAndFail, Awaited
  <2> QED  BY <2>1, <2>2
<1>7. CASE ReadS2  BY <1>7, HandshakeTaken DEF ReadS2, Awaited
<1>8. CASE SendConnectPacket
  <2>1. CASE RtmpClose
    BY <1>8, <2>1, CloseDoes DEF SendConnectPacket, CloseAndFail, AfterConnect, Closed
  <2>2. CASE ~RtmpClose
    BY <1>8, <2>2 DEF SendConnectPacket, CloseAndFail, AfterConnect
  <2> QED  BY <2>1, <2>2
<1>9. CASE AnnounceChunkSize  BY <1>9 DEF AnnounceChunkSize
<1>10. CASE Fill  BY <1>10 DEF Fill
<1>11. CASE ReadFails  BY <1>11, CloseDoes DEF ReadFails, Closed
<1>12. CASE ReceiveResult  BY <1>12 DEF ReceiveResult
<1>13. CASE ReceivePublishStart  BY <1>13 DEF ReceivePublishStart
<1>14. CASE ReceiveOnBWDone  BY <1>14 DEF ReceiveOnBWDone
<1>15. CASE ReceiveOnbwcheck  BY <1>15 DEF ReceiveOnbwcheck
<1>16. CASE ReceiveOnbwdone  BY <1>16 DEF ReceiveOnbwdone
<1>17. CASE ReceivePing  BY <1>17 DEF ReceivePing
<1>18. CASE ReceiveNothing  BY <1>18 DEF ReceiveNothing
<1>19. CASE ReceiveClose  BY <1>19, CloseDoes DEF ReceiveClose, Closed
<1>20. CASE StreamPlays  BY <1>20 DEF StreamPlays
<1>21. CASE SendMedia  BY <1>21 DEF SendMedia
<1>22. CASE Loop  BY <1>22, CloseDoes DEF Loop, Closed
<1>23. CASE HandshakeTimesOut
  BY <1>23, CloseDoes DEF HandshakeTimesOut, CloseAndFail, Closed
<1>24. CASE StreamTimesOut  BY <1>24 DEF StreamTimesOut
<1>25. CASE SendTimesOut  BY <1>25 DEF SendTimesOut
<1>26. CASE ServerHandshake  BY <1>26 DEF ServerHandshake
<1>27. CASE ServeConnect  BY <1>27 DEF ServeConnect
<1>28. CASE ServeCreateStream  BY <1>28 DEF ServeCreateStream
<1>29. CASE ServePublish  BY <1>29 DEF ServePublish
<1>30. CASE ServeMedia  BY <1>30 DEF ServeMedia
<1>31. CASE ServeNothing  BY <1>31 DEF ServeNothing
<1>32. CASE ServerStops  BY <1>32 DEF ServerStops
<1>33. CASE Push  BY <1>33 DEF Push
<1>34. CASE PeerSays  BY <1>34 DEF PeerSays
<1>35. CASE Break  BY <1>35 DEF Break
<1> QED
  BY <1>0, <1>1, <1>2, <1>3, <1>4, <1>5, <1>6, <1>7, <1>8, <1>9, <1>10, <1>11, <1>12,
     <1>13, <1>14, <1>15, <1>16, <1>17, <1>18, <1>19, <1>20, <1>21, <1>22, <1>23, <1>24,
     <1>25, <1>26, <1>27, <1>28, <1>29, <1>30, <1>31, <1>32, <1>33, <1>34, <1>35 DEF Next,
     ClientStep, Connecting, Receiving, Timeout, ServerStep

LEMMA SessionTypesStep ==
    ASSUME Types, Next
    PROVE  SessionTypes'
<1> USE DEF At, Goto, Use, rtmpVars, linkVars, serverVars, clientVars, Receive,
           Consume, ServerReads, ConnectFailed, Types, SessionTypes
<1>0. CASE NoSocket  BY <1>0 DEF NoSocket
<1>1. CASE ConnectSocket  BY <1>1 DEF ConnectSocket
<1>2. CASE InterfaceConnects  BY <1>2 DEF InterfaceConnects, FreshServer
<1>3. CASE InterfaceFails
  <2>1. CASE RtmpClose  BY <1>3, <2>1, CloseTypes DEF InterfaceFails
  <2>2. CASE ~RtmpClose  BY <1>3, <2>2 DEF InterfaceFails
  <2> QED  BY <2>1, <2>2
<1>4. CASE NoInterface  BY <1>4 DEF NoInterface
<1>5. CASE SendC0C1
  <2>1. CASE RtmpClose  BY <1>5, <2>1, CloseTypes DEF SendC0C1, CloseAndFail
  <2>2. CASE ~RtmpClose  BY <1>5, <2>2 DEF SendC0C1, CloseAndFail
  <2> QED  BY <2>1, <2>2
<1>6. CASE ReadS0S1
  <2>1. CASE RtmpClose  BY <1>6, <2>1, CloseTypes DEF ReadS0S1, CloseAndFail
  <2>2. CASE ~RtmpClose  BY <1>6, <2>2 DEF ReadS0S1, CloseAndFail
  <2> QED  BY <2>1, <2>2
<1>7. CASE ReadS2  BY <1>7 DEF ReadS2
<1>8. CASE SendConnectPacket
  <2>1. <<>> \in Seq(Others) /\ calls \in Seq(Call)  OBVIOUS
  <2>2. CASE Invoke(<<>>, <<"connect">>, calls, TRUE) /\ UNCHANGED <<streamId, bwChecks>>
    <3>1. AddsCommand("connect", calls)  BY <2>1, <2>2, InvokeDoes DEF Command
    <3> QED  BY <2>2, <3>1 DEF AddsCommand
  <2>3. CASE RtmpClose  BY <2>3, CloseTypes
  <2> QED  BY <1>8, <2>2, <2>3 DEF SendConnectPacket, CloseAndFail
<1>9. CASE AnnounceChunkSize  BY <1>9 DEF AnnounceChunkSize
<1>10. CASE Fill  BY <1>10 DEF Fill
<1>11. CASE ReadFails  BY <1>11, CloseTypes DEF ReadFails
<1>12. CASE ReceiveResult
  <2>1. Head(buffered).kind = "_result" /\ Head(buffered) \in DownMessage
    BY <1>12, SetOfTail DEF ReceiveResult, WireTypes
  <2>2. Head(buffered).id \in Int  BY <2>1 DEF DownMessage, DownKind, ExtraKind
  <2>3. bwChecks' = bwChecks  BY <1>12 DEF ReceiveResult
  <2> QED  BY <1>12, <2>2, <2>3, ResultDoes DEF AddsCommand
<1>13. CASE ReceivePublishStart  BY <1>13, EraseDoes DEF ReceivePublishStart, Named
<1>14. CASE ReceiveOnBWDone  BY <1>14, InvokeOther DEF ReceiveOnBWDone
<1>15. CASE ReceiveOnbwcheck  BY <1>15 DEF ReceiveOnbwcheck
<1>16. CASE ReceiveOnbwdone  BY <1>16, EraseDoes DEF ReceiveOnbwdone, Named
<1>17. CASE ReceivePing  BY <1>17 DEF ReceivePing
<1>18. CASE ReceiveNothing  BY <1>18 DEF ReceiveNothing
<1>19. CASE ReceiveClose  BY <1>19, CloseTypes DEF ReceiveClose
<1>20. CASE StreamPlays  BY <1>20 DEF StreamPlays
<1>21. CASE SendMedia  BY <1>21 DEF SendMedia
<1>22. CASE Loop  BY <1>22, CloseTypes DEF Loop
<1>23. CASE HandshakeTimesOut
  BY <1>23, CloseTypes DEF HandshakeTimesOut, CloseAndFail
<1>24. CASE StreamTimesOut  BY <1>24 DEF StreamTimesOut
<1>25. CASE SendTimesOut  BY <1>25 DEF SendTimesOut
<1>26. CASE ServerHandshake  BY <1>26 DEF ServerHandshake
<1>27. CASE ServeConnect  BY <1>27 DEF ServeConnect
<1>28. CASE ServeCreateStream  BY <1>28 DEF ServeCreateStream
<1>29. CASE ServePublish  BY <1>29 DEF ServePublish
<1>30. CASE ServeMedia  BY <1>30 DEF ServeMedia
<1>31. CASE ServeNothing  BY <1>31 DEF ServeNothing
<1>32. CASE ServerStops  BY <1>32 DEF ServerStops
<1>33. CASE Push  BY <1>33 DEF Push
<1>34. CASE PeerSays  BY <1>34 DEF PeerSays
<1>35. CASE Break  BY <1>35 DEF Break
<1> QED
  BY <1>0, <1>1, <1>2, <1>3, <1>4, <1>5, <1>6, <1>7, <1>8, <1>9, <1>10, <1>11, <1>12,
     <1>13, <1>14, <1>15, <1>16, <1>17, <1>18, <1>19, <1>20, <1>21, <1>22, <1>23, <1>24,
     <1>25, <1>26, <1>27, <1>28, <1>29, <1>30, <1>31, <1>32, <1>33, <1>34, <1>35 DEF Next,
     ClientStep, Connecting, Receiving, Timeout, ServerStep

LEMMA WireTypesStep ==
    ASSUME Types, Next
    PROVE  WireTypes'
<1> USE DEF At, Goto, Use, rtmpVars, linkVars, serverVars, clientVars, Receive,
           Consume, ServerReads, ConnectFailed, Types, WireTypes
<1>0. CASE NoSocket  BY <1>0 DEF NoSocket
<1>1. CASE ConnectSocket  BY <1>1 DEF ConnectSocket
<1>2. CASE InterfaceConnects  BY <1>2 DEF InterfaceConnects, FreshServer, Server
<1>3. CASE InterfaceFails
  <2>1. CASE RtmpClose
    BY <1>3, <2>1, CloseDoes DEF InterfaceFails, Closed, AddsOthers
  <2>2. CASE ~RtmpClose  BY <1>3, <2>2 DEF InterfaceFails
  <2> QED  BY <2>1, <2>2
<1>4. CASE NoInterface  BY <1>4 DEF NoInterface
<1>5. CASE SendC0C1
  <2>1. CASE RtmpClose
    BY <1>5, <2>1, CloseDoes, OneWritten DEF SendC0C1, CloseAndFail, Closed,
         AddsOthers, UpKind
  <2>2. CASE ~RtmpClose
    BY <1>5, <2>2, OneWritten DEF SendC0C1, CloseAndFail, UpKind
  <2> QED  BY <2>1, <2>2
<1>6. CASE ReadS0S1
  <2>1. CASE RtmpClose
    BY <1>6, <2>1, CloseDoes, OneWritten, HandshakeTaken DEF ReadS0S1, CloseAndFail,
         Closed, AddsOthers, UpKind, Awaited
  <2>2. CASE ~RtmpClose
    BY <1>6, <2>2, OneWritten, HandshakeTaken DEF ReadS0S1, CloseAndFail, UpKind,
         Awaited
  <2> QED  BY <2>1, <2>2
<1>7. CASE ReadS2  BY <1>7, HandshakeTaken DEF ReadS2, Awaited
<1>8. CASE SendConnectPacket
  <2>1. CASE RtmpClose
    BY <1>8, <2>1, CloseDoes DEF SendConnectPacket, CloseAndFail, AfterConnect,
         Closed, AddsOthers
  <2>2. CASE ~RtmpClose
    <3>1. <<>> \in Seq(Others) /\ calls \in Seq(Call)  BY DEF SessionTypes
    <3>2. Invoke(<<>>, <<"connect">>, calls, TRUE) /\ UNCHANGED <<buffered, link>>
      BY <1>8, <2>2 DEF SendConnectPacket, CloseAndFail
    <3>3. AddsCommand("connect", calls)  BY <3>1, <3>2, InvokeDoes DEF Command
    <3> QED
      BY <1>8, <3>2, <3>3 DEF SendConnectPacket, AddsCommand
  <2> QED  BY <2>1, <2>2
<1>9. CASE AnnounceChunkSize  BY <1>9, OneWritten DEF AnnounceChunkSize, UpKind
<1>10. CASE Fill  BY <1>10, FillDoes DEF Fill
<1>11. CASE ReadFails  BY <1>11, CloseDoes DEF ReadFails, Closed, AddsOthers
<1>12. CASE ReceiveResult
  BY <1>12, ResultDoes, SetOfTail DEF ReceiveResult, AddsCommand
<1>13. CASE ReceivePublishStart  BY <1>13, SetOfTail DEF ReceivePublishStart
<1>14. CASE ReceiveOnBWDone
  BY <1>14, SetOfTail, InvokeOther DEF ReceiveOnBWDone, AddsOthers
<1>15. CASE ReceiveOnbwcheck
  BY <1>15, SetOfTail, OneWritten DEF ReceiveOnbwcheck, UpKind
<1>16. CASE ReceiveOnbwdone  BY <1>16, SetOfTail DEF ReceiveOnbwdone
<1>17. CASE ReceivePing  BY <1>17, SetOfTail, OneWritten DEF ReceivePing, UpKind
<1>18. CASE ReceiveNothing  BY <1>18, SetOfTail DEF ReceiveNothing
<1>19. CASE ReceiveClose  BY <1>19, CloseDoes DEF ReceiveClose, Closed, AddsOthers
<1>20. CASE StreamPlays  BY <1>20 DEF StreamPlays
<1>21. CASE SendMedia
  <2> DEFINE m == [kind |-> "media", txn |-> 0, id |-> 0, packet |-> Head(fifo)]
  <2>1. Head(fifo) \in Packet  BY <1>21, SetOfTail DEF SendMedia, ThreadTypes
  <2>2. m \in UpMessage  BY <2>1 DEF UpMessage
  <2>3. up' = Written(<<m>>) \/ up' = up  BY <1>21 DEF SendMedia
  <2> HIDE DEF m
  <2>4. <<m>> \in Seq(UpMessage)  BY <2>2
  <2>5. up' \in Seq(UpMessage)
    BY <2>3, <2>4, ConcatProperties DEF Written
  <2> QED  BY <1>21, <2>5 DEF SendMedia
<1>22. CASE Loop  BY <1>22, CloseDoes DEF Loop, Closed, AddsOthers
<1>23. CASE HandshakeTimesOut
  BY <1>23, CloseDoes DEF HandshakeTimesOut, CloseAndFail, Closed, AddsOthers
<1>24. CASE StreamTimesOut  BY <1>24 DEF StreamTimesOut
<1>25. CASE SendTimesOut  BY <1>25 DEF SendTimesOut
<1>26. CASE ServerHandshake
  <2>1. Message("S0S1") \in DownMessage /\ Message("S2") \in DownMessage
    BY DEF Message, DownMessage, DownKind
  <2>2. <<Message("S0S1"), Message("S2")>> \in Seq(DownMessage)  BY <2>1
  <2>3. down' \in Seq(DownMessage)
    BY <1>26, <2>2, AnswersDo DEF ServerHandshake
  <2> QED
    BY <1>26, <2>3, TakenByServer DEF ServerHandshake, Server
<1>27. CASE ServeConnect
  BY <1>27, ConnectAnswered, TakenByServer, ServerTypes DEF ServeConnect, AddsAnswer
<1>28. CASE ServeCreateStream
  BY <1>28, CreateAnswered, TakenByServer, ServerTypes DEF ServeCreateStream,
       AddsAnswer
<1>29. CASE ServePublish
  <2>1. up' \in Seq(UpMessage) /\ UNCHANGED <<buffered, link, served>>
    BY <1>29, TakenByServer DEF ServePublish
  <2>2. CASE AddsAnswer(Message("Publish.Start")) /\ server' = [server EXCEPT !.begun = @ + 1]
    BY <2>1, <2>2, ServerTypes DEF AddsAnswer
  <2>3. CASE UNCHANGED <<server, down, buffered>>  BY <2>1, <2>3
  <2> QED  BY <1>29, <2>2, <2>3, PublishAnswered
<1>30. CASE ServeMedia
  <2>1. Head(up) \in UpMessage /\ Head(up).kind = "media" /\ up' \in Seq(UpMessage)
    BY <1>30, TakenByServer DEF ServeMedia
  <2>2. Head(up).packet \in Packet  BY <2>1 DEF UpMessage, UpKind, Command
  <2>3. served' \in Seq(Packet)  BY <1>30, <2>2 DEF ServeMedia
  <2> QED  BY <1>30, <2>1, <2>3 DEF ServeMedia
<1>31. CASE ServeNothing  BY <1>31, TakenByServer DEF ServeNothing
<1>32. CASE ServerStops  BY <1>32 DEF ServerStops, Server
<1>33. CASE Push  BY <1>33 DEF Push
<1>34. CASE PeerSays  BY <1>34, ExtraSaid DEF PeerSays
<1>35. CASE Break
  <2>1. UNCHANGED <<buffered, server, served>> /\ link' = "lost"
    BY <1>35 DEF Break
  <2>2. /\ up' = up \/ up' = <<>>
        /\ down' = down \/ down' = <<>>
    BY <1>35 DEF Break
  <2>3. <<>> \in Seq(UpMessage) /\ <<>> \in Seq(DownMessage)  OBVIOUS
  <2>4. up' \in Seq(UpMessage)  BY Zenon, <2>2, <2>3
  <2>5. down' \in Seq(DownMessage)  BY Zenon, <2>2, <2>3
  <2> QED  BY <2>1, <2>4, <2>5
<1> QED
  BY <1>0, <1>1, <1>2, <1>3, <1>4, <1>5, <1>6, <1>7, <1>8, <1>9, <1>10, <1>11, <1>12,
     <1>13, <1>14, <1>15, <1>16, <1>17, <1>18, <1>19, <1>20, <1>21, <1>22, <1>23, <1>24,
     <1>25, <1>26, <1>27, <1>28, <1>29, <1>30, <1>31, <1>32, <1>33, <1>34, <1>35 DEF Next,
     ClientStep, Connecting, Receiving, Timeout, ServerStep

-----------------------------------------------------------------------------
(* Each part of the invariant is kept. *)

LEMMA PhaseKnownStep ==
    ASSUME Types, PhaseKnown, Next
    PROVE  PhaseKnown'
<1> USE DEF At, Goto, Use, rtmpVars, linkVars, serverVars, clientVars, Receive,
           Consume, ServerReads, ConnectFailed, Types, FlagTypes, PhaseKnown,
           HasPeer, Handshaking
<1>0. CASE NoSocket  BY <1>0 DEF NoSocket
<1>1. CASE ConnectSocket  BY <1>1 DEF ConnectSocket
<1>2. CASE InterfaceConnects  BY <1>2 DEF InterfaceConnects, FreshServer
<1>3. CASE InterfaceFails
  <2>1. CASE RtmpClose  BY <1>3, <2>1, CloseDoes DEF InterfaceFails, Closed
  <2>2. CASE ~RtmpClose  BY <1>3, <2>2 DEF InterfaceFails
  <2> QED  BY <2>1, <2>2
<1>4. CASE NoInterface  BY <1>4 DEF NoInterface
<1>5. CASE SendC0C1
  <2>1. CASE RtmpClose  BY <1>5, <2>1, CloseDoes DEF SendC0C1, CloseAndFail, Closed
  <2>2. CASE ~RtmpClose  BY <1>5, <2>2 DEF SendC0C1, CloseAndFail
  <2> QED  BY <2>1, <2>2
<1>6. CASE ReadS0S1
  <2>1. CASE RtmpClose  BY <1>6, <2>1, CloseDoes DEF ReadS0S1, CloseAndFail, Closed
  <2>2. CASE ~RtmpClose  BY <1>6, <2>2 DEF ReadS0S1, CloseAndFail
  <2> QED  BY <2>1, <2>2
<1>7. CASE ReadS2  BY <1>7 DEF ReadS2
<1>8. CASE SendConnectPacket
  <2>1. CASE RtmpClose
    BY <1>8, <2>1, CloseDoes DEF SendConnectPacket, CloseAndFail, AfterConnect, Closed
  <2>2. CASE ~RtmpClose
    BY <1>8, <2>2 DEF SendConnectPacket, CloseAndFail, AfterConnect
  <2> QED  BY <2>1, <2>2
<1>9. CASE AnnounceChunkSize  BY <1>9 DEF AnnounceChunkSize
<1>10. CASE Fill  BY <1>10 DEF Fill
<1>11. CASE ReadFails  BY <1>11, CloseDoes DEF ReadFails, Closed
<1>12. CASE ReceiveResult  BY <1>12, ResultDoes DEF ReceiveResult
<1>13. CASE ReceivePublishStart  BY <1>13 DEF ReceivePublishStart
<1>14. CASE ReceiveOnBWDone  BY <1>14 DEF ReceiveOnBWDone
<1>15. CASE ReceiveOnbwcheck  BY <1>15 DEF ReceiveOnbwcheck
<1>16. CASE ReceiveOnbwdone  BY <1>16 DEF ReceiveOnbwdone
<1>17. CASE ReceivePing  BY <1>17 DEF ReceivePing
<1>18. CASE ReceiveNothing  BY <1>18 DEF ReceiveNothing
<1>19. CASE ReceiveClose  BY <1>19, CloseDoes DEF ReceiveClose, Closed
<1>20. CASE StreamPlays  BY <1>20 DEF StreamPlays
<1>21. CASE SendMedia  BY <1>21 DEF SendMedia
<1>22. CASE Loop  BY <1>22, CloseDoes DEF Loop, Closed
<1>23. CASE HandshakeTimesOut
  BY <1>23, CloseDoes DEF HandshakeTimesOut, CloseAndFail, Closed
<1>24. CASE StreamTimesOut  BY <1>24 DEF StreamTimesOut
<1>25. CASE SendTimesOut  BY <1>25 DEF SendTimesOut
<1>26. CASE ServerHandshake  BY <1>26 DEF ServerHandshake
<1>27. CASE ServeConnect  BY <1>27 DEF ServeConnect
<1>28. CASE ServeCreateStream  BY <1>28 DEF ServeCreateStream
<1>29. CASE ServePublish  BY <1>29 DEF ServePublish
<1>30. CASE ServeMedia  BY <1>30 DEF ServeMedia
<1>31. CASE ServeNothing  BY <1>31 DEF ServeNothing
<1>32. CASE ServerStops  BY <1>32 DEF ServerStops
<1>33. CASE Push  BY <1>33 DEF Push
<1>34. CASE PeerSays  BY <1>34 DEF PeerSays
<1>35. CASE Break  BY <1>35 DEF Break
<1> QED
  BY <1>0, <1>1, <1>2, <1>3, <1>4, <1>5, <1>6, <1>7, <1>8, <1>9, <1>10, <1>11, <1>12,
     <1>13, <1>14, <1>15, <1>16, <1>17, <1>18, <1>19, <1>20, <1>21, <1>22, <1>23, <1>24,
     <1>25, <1>26, <1>27, <1>28, <1>29, <1>30, <1>31, <1>32, <1>33, <1>34, <1>35 DEF Next,
     ClientStep, Connecting, Receiving, Timeout, ServerStep


(* A result under way answers a call of connect or of createStream. *)
LEMMA ResultNamed ==
    ASSUME Types, CallsKnown, PathKnown, ReceiveResult
    PROVE  /\ Head(buffered) \in ToSet(In) /\ Head(buffered).kind = "_result"
           /\ CalledName \in {"none", "connect", "createStream"}
           /\ CalledName # "none" => CalledName = Head(buffered).of
<1> DEFINE r == Head(buffered)
<1>1. r \in ToSet(In) /\ r.kind = "_result" /\ r \in DownMessage
  BY TakenByClient DEF ReceiveResult, Receive, Consume, Types
<1>2. r.of \in {"connect", "createStream"}
  BY <1>1 DEF DownMessage, DownKind, ExtraKind
<1>3. CASE Asked(r.txn) = {}  BY <1>1, <1>3 DEF CalledName
<1>4. CASE Asked(r.txn) # {}
  <2> DEFINE c == calls[First(Asked(r.txn))]
  <2>1. c \in ToSet(calls) /\ c.num = r.txn  BY <1>4, AskedIs
  <2>2. CalledName = c.name  BY <1>4 DEF CalledName
  <2> HIDE DEF c, r
  <2>3. c.name = r.of  BY <1>1, <2>1 DEF CallsKnown, Awaits, CallIs
  <2> QED  BY <1>1, <1>2, <2>2, <2>3 DEF r
<1> QED  BY <1>3, <1>4

LEMMA PlayingKnownStep ==
    ASSUME Types, PhaseKnown, PathKnown, CallsKnown, PlayingKnown, Next
    PROVE  PlayingKnown'
<1> USE DEF At, Goto, Use, rtmpVars, linkVars, serverVars, clientVars, Receive,
           Consume, ServerReads, ConnectFailed, PlayingKnown
<1>0. CASE NoSocket  BY <1>0 DEF NoSocket
<1>1. CASE ConnectSocket  BY <1>1 DEF ConnectSocket
<1>2. CASE InterfaceConnects
  BY <1>2 DEF InterfaceConnects, FreshServer, PhaseKnown, Handshaking
<1>3. CASE InterfaceFails
  <2>1. CASE RtmpClose  BY <1>3, <2>1, CloseDoes DEF InterfaceFails, Closed, Types
  <2>2. CASE ~RtmpClose  BY <1>3, <2>2 DEF InterfaceFails
  <2> QED  BY <2>1, <2>2
<1>4. CASE NoInterface  BY <1>4 DEF NoInterface
<1>5. CASE SendC0C1
  <2>1. CASE RtmpClose
    BY <1>5, <2>1, CloseDoes DEF SendC0C1, CloseAndFail, Closed, Types
  <2>2. CASE ~RtmpClose  BY <1>5, <2>2 DEF SendC0C1, CloseAndFail
  <2> QED  BY <2>1, <2>2
<1>6. CASE ReadS0S1
  <2>1. CASE RtmpClose
    BY <1>6, <2>1, CloseDoes DEF ReadS0S1, CloseAndFail, Closed, Types
  <2>2. CASE ~RtmpClose  BY <1>6, <2>2 DEF ReadS0S1, CloseAndFail
  <2> QED  BY <2>1, <2>2
<1>7. CASE ReadS2  BY <1>7 DEF ReadS2
<1>8. CASE SendConnectPacket
  <2>1. CASE RtmpClose
    BY <1>8, <2>1, CloseDoes DEF SendConnectPacket, CloseAndFail, AfterConnect,
         Closed, Types, PhaseKnown, Handshaking
  <2>2. CASE ~RtmpClose
    BY <1>8, <2>2 DEF SendConnectPacket, CloseAndFail, AfterConnect, PhaseKnown,
         Handshaking
  <2> QED  BY <2>1, <2>2
<1>9. CASE AnnounceChunkSize  BY <1>9 DEF AnnounceChunkSize
<1>10. CASE Fill  BY <1>10 DEF Fill
<1>11. CASE ReadFails  BY <1>11, CloseDoes DEF ReadFails, Closed, Types
<1>12. CASE ReceiveResult
  <2>1. CalledName \notin {"play", "publish"}
    BY <1>12, ResultNamed
  <2>2. playing' = playing  BY <1>12, <2>1, ResultDoes
  <2> QED  BY <1>12, <2>2 DEF ReceiveResult
<1>13. CASE ReceivePublishStart
  <2>1. Head(buffered) \in ToSet(In) /\ Head(buffered).kind = "Publish.Start"
    BY <1>13, TakenByClient DEF ReceivePublishStart, Types
  <2>2. server.begun = 1  BY <2>1 DEF PathKnown, AnswerFits
  <2> QED  BY <1>13, <2>2 DEF ReceivePublishStart
<1>14. CASE ReceiveOnBWDone  BY <1>14 DEF ReceiveOnBWDone
<1>15. CASE ReceiveOnbwcheck  BY <1>15 DEF ReceiveOnbwcheck
<1>16. CASE ReceiveOnbwdone  BY <1>16 DEF ReceiveOnbwdone
<1>17. CASE ReceivePing  BY <1>17 DEF ReceivePing
<1>18. CASE ReceiveNothing  BY <1>18 DEF ReceiveNothing
<1>19. CASE ReceiveClose  BY <1>19, CloseDoes DEF ReceiveClose, Closed, Types
<1>20. CASE StreamPlays  BY <1>20 DEF StreamPlays
<1>21. CASE SendMedia  BY <1>21 DEF SendMedia
<1>22. CASE Loop  BY <1>22, CloseDoes DEF Loop, Closed, Types
<1>23. CASE HandshakeTimesOut
  BY <1>23, CloseDoes DEF HandshakeTimesOut, CloseAndFail, Closed, Types
<1>24. CASE StreamTimesOut  BY <1>24 DEF StreamTimesOut
<1>25. CASE SendTimesOut  BY <1>25 DEF SendTimesOut
<1>26. CASE ServerHandshake  BY <1>26 DEF ServerHandshake, Types, WireTypes, Server
<1>27. CASE ServeConnect  BY <1>27 DEF ServeConnect, Types, WireTypes, Server
<1>28. CASE ServeCreateStream
  BY <1>28 DEF ServeCreateStream, Types, WireTypes, Server
<1>29. CASE ServePublish
  <2>1. Head(up) \in ToSet(up) /\ Head(up).kind = "publish"
    BY <1>29, TakenByServer DEF ServePublish, Types
  <2>2. server.begun = 0 /\ server \in Server
    BY <2>1 DEF PathKnown, CommandFits, Types, WireTypes
  <2>3. UNCHANGED <<playing, caller>>  BY <1>29 DEF ServePublish
  <2>4. server' = server \/ server' = [server EXCEPT !.begun = @ + 1]
    BY <1>29 DEF ServePublish
  <2>5. server'.begun = 1 \/ server' = server  BY <2>2, <2>4 DEF Server
  <2> QED  BY <2>2, <2>3, <2>5
<1>30. CASE ServeMedia  BY <1>30 DEF ServeMedia
<1>31. CASE ServeNothing  BY <1>31 DEF ServeNothing
<1>32. CASE ServerStops  BY <1>32 DEF ServerStops, Types, WireTypes, Server
<1>33. CASE Push  BY <1>33 DEF Push
<1>34. CASE PeerSays  BY <1>34 DEF PeerSays
<1>35. CASE Break  BY <1>35 DEF Break
<1> QED
  BY <1>0, <1>1, <1>2, <1>3, <1>4, <1>5, <1>6, <1>7, <1>8, <1>9, <1>10, <1>11, <1>12,
     <1>13, <1>14, <1>15, <1>16, <1>17, <1>18, <1>19, <1>20, <1>21, <1>22, <1>23, <1>24,
     <1>25, <1>26, <1>27, <1>28, <1>29, <1>30, <1>31, <1>32, <1>33, <1>34, <1>35 DEF Next,
     ClientStep, Connecting, Receiving, Timeout, ServerStep

(* The steps that send no command and no answer *)
UpQuiet == /\ \A m \in ToSet(up') : \/ m \in ToSet(up)
                                    \/ /\ m.kind \notin Command
                                       /\ m.kind = "media" => m.packet \in ToSet(fifo)
           /\ Once(up, Command) => Once(up', Command)
InQuiet == /\ \A m \in ToSet(In') : m \in ToSet(In) \/ m.kind \notin Answer
           /\ Once(In, Answer) => Once(In', Answer)

LEMMA OneQuiet ==
    ASSUME Types, NEW kind \in UpKind \ Command, up' = Written(<<Message(kind)>>)
    PROVE  UpQuiet
<1>1. Message(kind).kind \notin Command /\ Message(kind).kind # "media"
  BY DEF Message, UpKind, Command
<1> QED  BY <1>1, OneWritten DEF UpQuiet, Types

LEMMA OthersAreQuiet ==
    ASSUME AddsOthers
    PROVE  UpQuiet
BY DEF AddsOthers, UpQuiet, Others, UpKind, Command

LEMMA CloseIsQuiet ==
    ASSUME Types, RtmpClose, down' = down
    PROVE  UpQuiet /\ InQuiet
BY CloseDoes, OthersAreQuiet, CloseLeaves DEF InQuiet, Types

LEMMA SameIsQuiet == /\ up' = up => UpQuiet
                     /\ buffered' = buffered /\ down' = down => InQuiet
BY InSame DEF UpQuiet, InQuiet

LEMMA ReadIsQuiet ==
    ASSUME Types, buffered # <<>>, buffered' = Tail(buffered), down' = down
    PROVE  InQuiet
BY TakenByClient DEF Types, InQuiet

LEMMA ServingIsQuiet ==
    ASSUME Types, up # <<>>, up' = Tail(up)
    PROVE  UpQuiet
BY TakenByServer DEF Types, UpQuiet

LEMMA HandshakeIsQuiet ==
    ASSUME Types, PlaceKnown, phase \in {"s0s1", "s2"}, HasAwaited, TakeHandshake,
           down' = down,
           buffered' \in Seq(DownMessage)
    PROVE  InQuiet
<1>1. Awaited # "any"  BY DEF Awaited, At
<1>2. ToSet(In') \subseteq ToSet(In)  BY <1>1, HandshakeTaken DEF Types
<1>3. None(In, Answer)  BY DEF PlaceKnown, Handshaking
<1>4. None(In', Answer)  BY <1>2, <1>3 DEF None
<1>5. In' \in Seq(DownMessage)  BY ConcatProperties DEF In, Types, WireTypes
<1>6. Once(In', Answer)  BY <1>4, <1>5, NoneIsOnce
<1> QED  BY <1>2, <1>6 DEF InQuiet

(* The others *)
Loud == \/ SendConnectPacket /\ ~RtmpClose
        \/ ReceiveResult \/ ServeConnect \/ ServeCreateStream \/ ServePublish

LEMMA QuietStep ==
    ASSUME Types, WireTypes', PlaceKnown, Next
    PROVE  Loud \/ (UpQuiet /\ InQuiet)
<1> USE DEF At, Goto, Use, rtmpVars, linkVars, serverVars, clientVars, Receive,
           Consume, ServerReads, ConnectFailed
<1>0. CASE NoSocket  BY <1>0, SameIsQuiet DEF NoSocket
<1>1. CASE ConnectSocket  BY <1>1, SameIsQuiet DEF ConnectSocket
<1>2. CASE InterfaceConnects
  <2>1. up' = <<>> /\ In' = buffered
    BY <1>2, ConcatEmptySeq DEF InterfaceConnects, In, Types, WireTypes
  <2>2. Once(In, Answer) => Once(buffered, Answer)
    BY OnceInConcat DEF In, Types, WireTypes
  <2> QED
    BY <2>1, <2>2, SetOfEmpty, NoMessages, InKnown DEF UpQuiet, InQuiet, Types
<1>3. CASE InterfaceFails
  <2>1. CASE RtmpClose  BY <1>3, <2>1, CloseIsQuiet, SameIsQuiet DEF InterfaceFails
  <2>2. CASE ~RtmpClose  BY <1>3, <2>2, SameIsQuiet DEF InterfaceFails
  <2> QED  BY <2>1, <2>2
<1>4. CASE NoInterface  BY <1>4, SameIsQuiet DEF NoInterface
<1>5. CASE SendC0C1
  <2>1. CASE RtmpClose
    BY <1>5, <2>1, CloseIsQuiet, OneQuiet, SameIsQuiet DEF SendC0C1, CloseAndFail,
         UpKind, Command
  <2>2. CASE ~RtmpClose
    BY <1>5, <2>2, OneQuiet, SameIsQuiet DEF SendC0C1, CloseAndFail, UpKind, Command
  <2> QED  BY <2>1, <2>2
<1>6. CASE ReadS0S1
  <2>1. CASE RtmpClose
    BY <1>6, <2>1, CloseIsQuiet, OneQuiet, HandshakeIsQuiet DEF ReadS0S1,
         CloseAndFail, UpKind, Command, Types, WireTypes
  <2>2. CASE ~RtmpClose
    BY <1>6, <2>2, OneQuiet, HandshakeIsQuiet DEF ReadS0S1, CloseAndFail, UpKind,
         Command, Types, WireTypes
  <2> QED  BY <2>1, <2>2
<1>7. CASE ReadS2
  BY <1>7, HandshakeIsQuiet, SameIsQuiet DEF ReadS2, Types, WireTypes
<1>8. CASE AnnounceChunkSize
  BY <1>8, OneQuiet, SameIsQuiet DEF AnnounceChunkSize, UpKind, Command
<1>9. CASE Fill
  <2>1. In' = In /\ up' = up  BY <1>9, FillDoes DEF Fill, Types
  <2> QED  BY <2>1, SameIsQuiet DEF InQuiet
<1>10. CASE ReadFails  BY <1>10, CloseIsQuiet DEF ReadFails
<1>11. CASE ReceivePublishStart
  BY <1>11, ReadIsQuiet, SameIsQuiet DEF ReceivePublishStart
<1>12. CASE ReceiveOnBWDone
  BY <1>12, ReadIsQuiet, SameIsQuiet, InvokeOther, OthersAreQuiet DEF
       ReceiveOnBWDone
<1>13. CASE ReceiveOnbwcheck
  BY <1>13, ReadIsQuiet, OneQuiet DEF ReceiveOnbwcheck, UpKind, Command
<1>14. CASE ReceiveOnbwdone  BY <1>14, ReadIsQuiet, SameIsQuiet DEF ReceiveOnbwdone
<1>15. CASE ReceivePing
  BY <1>15, ReadIsQuiet, OneQuiet DEF ReceivePing, UpKind, Command
<1>16. CASE ReceiveNothing  BY <1>16, ReadIsQuiet, SameIsQuiet DEF ReceiveNothing
<1>17. CASE ReceiveClose  BY <1>17, CloseIsQuiet DEF ReceiveClose
<1>18. CASE StreamPlays  BY <1>18, SameIsQuiet DEF StreamPlays
<1>19. CASE SendMedia
  <2> DEFINE m == [kind |-> "media", txn |-> 0, id |-> 0, packet |-> Head(fifo)]
  <2>1. Head(fifo) \in Packet /\ Head(fifo) \in ToSet(fifo)
    BY <1>19, SetOfTail DEF SendMedia, Types, ThreadTypes
  <2>2. m \in UpMessage  BY <2>1 DEF UpMessage
  <2>3. m.kind \notin Command /\ m.packet \in ToSet(fifo)  BY <2>1 DEF Command
  <2>4. up' = Written(<<m>>) \/ up' = up  BY <1>19 DEF SendMedia
  <2>5. InQuiet  BY <1>19, SameIsQuiet DEF SendMedia
  <2> HIDE DEF m
  <2> DEFINE ms == <<m>>
  <2>6. ms \in Seq(UpMessage) /\ ToSet(ms) = {m}  BY <2>2, SetOfOne
  <2>7. None(ms, Command)  BY <2>3, <2>6 DEF None
  <2>8. up' = up \o ms \/ up' = up  BY <2>4 DEF Written
  <2> HIDE DEF ms
  <2>9. /\ ToSet(up \o ms) = ToSet(up) \cup {m}
        /\ Once(up, Command) => Once(up \o ms, Command)
    BY <2>6, <2>7, SetOfConcat, OnceInConcat DEF Types, WireTypes
  <2>10. UpQuiet  BY <2>3, <2>8, <2>9 DEF UpQuiet
  <2> QED  BY <2>5, <2>10
<1>20. CASE Loop  BY <1>20, CloseIsQuiet DEF Loop
<1>21. CASE HandshakeTimesOut
  BY <1>21, CloseIsQuiet DEF HandshakeTimesOut, CloseAndFail
<1>22. CASE StreamTimesOut  BY <1>22, SameIsQuiet DEF StreamTimesOut
<1>23. CASE SendTimesOut  BY <1>23, SameIsQuiet DEF SendTimesOut
<1>24. CASE ServerHandshake
  <2> DEFINE ms == <<Message("S0S1"), Message("S2")>>
  <2>1. /\ Message("S0S1") \in DownMessage /\ Message("S2") \in DownMessage
        /\ Message("S0S1").kind \notin Answer /\ Message("S2").kind \notin Answer
    BY DEF Message, DownMessage, DownKind, Answer
  <2>2. ms \in Seq(DownMessage) /\ Len(ms) = 2 /\ \A i \in 1..2 : ms[i].kind \notin Answer
    BY <2>1
  <2>3. buffered' = buffered /\ (down' = Answered(ms) \/ down' = down)
    BY <1>24 DEF ServerHandshake
  <2> HIDE DEF ms
  <2>4. \A m \in ToSet(ms) : m.kind \notin Answer  BY <2>2, SetOfSeq
  <2>5. InQuiet
    BY <2>2, <2>3, <2>4, AnswersDo, SameIsQuiet DEF InQuiet, Types, None
  <2> QED  BY <1>24, <2>5, ServingIsQuiet DEF ServerHandshake
<1>25. CASE ServeMedia  BY <1>25, ServingIsQuiet, SameIsQuiet DEF ServeMedia
<1>26. CASE ServeNothing  BY <1>26, ServingIsQuiet, SameIsQuiet DEF ServeNothing
<1>27. CASE ServerStops  BY <1>27, SameIsQuiet DEF ServerStops
<1>28. CASE Push  BY <1>28, SameIsQuiet DEF Push
<1>29. CASE PeerSays  BY <1>29, ExtraSaid, SameIsQuiet DEF PeerSays, InQuiet
<1>30. CASE Break
  <2>1. /\ buffered' = buffered
        /\ UNCHANGED <<up, down>> \/ (up' = <<>> /\ down' = <<>>)
    BY <1>30 DEF Break
  <2>2. CASE up' = <<>> /\ down' = <<>>
    <3>1. In' = buffered  BY <2>1, <2>2, ConcatEmptySeq DEF In, Types, WireTypes
    <3>2. Once(In, Answer) => Once(buffered, Answer)
      BY OnceInConcat DEF In, Types, WireTypes
    <3> QED
      BY <2>2, <3>1, <3>2, SetOfEmpty, NoMessages, InKnown DEF UpQuiet, InQuiet,
           Types
  <2> QED  BY <2>1, <2>2, SameIsQuiet
<1>31. CASE SendConnectPacket  BY <1>31, CloseIsQuiet DEF SendConnectPacket, Loud
<1> QED
  BY <1>0, <1>1, <1>2, <1>3, <1>4, <1>5, <1>6, <1>7, <1>8, <1>9, <1>10, <1>11, <1>12,
     <1>13, <1>14, <1>15, <1>16, <1>17, <1>18, <1>19, <1>20, <1>21, <1>22, <1>23, <1>24,
     <1>25, <1>26, <1>27, <1>28, <1>29, <1>30, <1>31 DEF Next, ClientStep,
     Connecting, Receiving,
     Timeout, ServerStep, Loud

SameCounts == /\ server'.connects = server.connects /\ server'.streamId = server.streamId
              /\ server'.begun = server.begun

LEMMA CountsStep ==
    ASSUME Types, Next
    PROVE  Loud \/ InterfaceConnects \/ SameCounts
<1> USE DEF At, Goto, Use, rtmpVars, linkVars, serverVars, clientVars, Receive,
           Consume, ServerReads, ConnectFailed, SameCounts
<1>0. CASE NoSocket  BY <1>0 DEF NoSocket
<1>1. CASE ConnectSocket  BY <1>1 DEF ConnectSocket
<1>2. CASE InterfaceFails  BY <1>2 DEF InterfaceFails
<1>3. CASE NoInterface  BY <1>3 DEF NoInterface
<1>4. CASE SendC0C1  BY <1>4 DEF SendC0C1, CloseAndFail
<1>5. CASE ReadS0S1  BY <1>5 DEF ReadS0S1, CloseAndFail
<1>6. CASE ReadS2  BY <1>6 DEF ReadS2
<1>7. CASE AnnounceChunkSize  BY <1>7 DEF AnnounceChunkSize
<1>8. CASE Fill  BY <1>8 DEF Fill
<1>9. CASE ReadFails  BY <1>9 DEF ReadFails
<1>10. CASE ReceivePublishStart  BY <1>10 DEF ReceivePublishStart
<1>11. CASE ReceiveOnBWDone  BY <1>11 DEF ReceiveOnBWDone
<1>12. CASE ReceiveOnbwcheck  BY <1>12 DEF ReceiveOnbwcheck
<1>13. CASE ReceiveOnbwdone  BY <1>13 DEF ReceiveOnbwdone
<1>14. CASE ReceivePing  BY <1>14 DEF ReceivePing
<1>15. CASE ReceiveNothing  BY <1>15 DEF ReceiveNothing
<1>16. CASE ReceiveClose  BY <1>16 DEF ReceiveClose
<1>17. CASE StreamPlays  BY <1>17 DEF StreamPlays
<1>18. CASE SendMedia  BY <1>18 DEF SendMedia
<1>19. CASE Loop  BY <1>19 DEF Loop
<1>20. CASE HandshakeTimesOut  BY <1>20 DEF HandshakeTimesOut, CloseAndFail
<1>21. CASE StreamTimesOut  BY <1>21 DEF StreamTimesOut
<1>22. CASE SendTimesOut  BY <1>22 DEF SendTimesOut
<1>23. CASE ServerHandshake  BY <1>23 DEF ServerHandshake, Types, WireTypes, Server
<1>24. CASE ServeMedia  BY <1>24 DEF ServeMedia
<1>25. CASE ServeNothing  BY <1>25 DEF ServeNothing
<1>26. CASE ServerStops  BY <1>26 DEF ServerStops, Types, WireTypes, Server
<1>27. CASE Push  BY <1>27 DEF Push
<1>28. CASE PeerSays  BY <1>28 DEF PeerSays
<1>29. CASE Break  BY <1>29 DEF Break
<1>30. CASE SendConnectPacket  BY <1>30 DEF SendConnectPacket
<1> QED
  BY <1>0, <1>1, <1>2, <1>3, <1>4, <1>5, <1>6, <1>7, <1>8, <1>9, <1>10, <1>11, <1>12,
     <1>13, <1>14, <1>15, <1>16, <1>17, <1>18, <1>19, <1>20, <1>21, <1>22, <1>23, <1>24,
     <1>25, <1>26, <1>27, <1>28, <1>29, <1>30 DEF Next, ClientStep, Connecting,
     Receiving, Timeout,
     ServerStep, Loud


LEMMA PathStays ==
    ASSUME PathKnown, UpQuiet, InQuiet, SameCounts
    PROVE  PathKnown'
<1>1. OneUnderWay'  BY DEF PathKnown, OneUnderWay, UpQuiet, InQuiet, None
<1>2. ServerCounts'  BY DEF PathKnown, ServerCounts, SameCounts
<1>3. \A m \in ToSet(up') : CommandFits(m)'
  BY DEF PathKnown, UpQuiet, SameCounts, CommandFits, Command
<1>4. \A m \in ToSet(In') : AnswerFits(m)'
  BY DEF PathKnown, InQuiet, SameCounts, AnswerFits, Answer
<1> QED  BY <1>1, <1>2, <1>3, <1>4 DEF PathKnown

(* A command takes the turn of what was under way.                         *)
LEMMA PathCommand ==
    ASSUME Types, WireTypes', PathKnown, NEW name \in Command,
           AddsCommand(name, calls), server' = server,
           None(up, Command), None(In', Answer),
           \A m : m.kind = name => CommandFits(m)
    PROVE  PathKnown'
<1>1. Once(up', Command)  BY DEF AddsCommand
<1>2. Once(In', Answer)
  <2>1. In' \in Seq(DownMessage)  BY ConcatProperties DEF In, WireTypes
  <2> QED  BY <2>1, NoneIsOnce
<1>3. OneUnderWay' /\ ServerCounts'
  BY <1>1, <1>2 DEF PathKnown, OneUnderWay, ServerCounts
<1>4. \A m \in ToSet(up') : CommandFits(m)'
  <2> TAKE m \in ToSet(up')
  <2>1. m \in ToSet(up) \/ m.kind \in Others \/ m.kind = name  BY DEF AddsCommand
  <2>2. CommandFits(m)  BY <2>1 DEF PathKnown, CommandFits, Others, Command
  <2> QED  BY <2>2 DEF CommandFits
<1>5. \A m \in ToSet(In') : AnswerFits(m)'  BY DEF None, AnswerFits, Answer
<1> QED  BY <1>3, <1>4, <1>5 DEF PathKnown

(* The server takes the command and its answer takes the turn.             *)
LEMMA PathAnswer ==
    ASSUME Types, WireTypes', PathKnown, up # <<>>, up' = Tail(up),
           Head(up).kind \in Command,
           NEW a, AddsAnswer(a), AnswerFits(a)', ServerCounts'
    PROVE  PathKnown'
<1>1. /\ ToSet(up') \subseteq ToSet(up) /\ Head(up) \in ToSet(up)
      /\ None(up', Command) /\ Once(up', Command)
  BY TakenByServer DEF PathKnown, OneUnderWay, Types
<1>2. None(In, Answer)  BY <1>1 DEF PathKnown, OneUnderWay, None
<1>3. Once(In', Answer)  BY <1>2 DEF AddsAnswer
<1>4. OneUnderWay'  BY <1>1, <1>3 DEF OneUnderWay
<1>5. \A m \in ToSet(up') : CommandFits(m)'  BY <1>1 DEF None, CommandFits, Command
<1>6. \A m \in ToSet(In') : AnswerFits(m)'
  <2> TAKE m \in ToSet(In')
  <2>1. m = a \/ m.kind \notin Answer  BY <1>2 DEF AddsAnswer, None
  <2> QED  BY <2>1 DEF AnswerFits, Answer
<1> QED  BY <1>4, <1>5, <1>6 DEF PathKnown

(* The server serves each command when it should. *)
CountsAre(connects, created, begun) == /\ server.connects = connects
                                       /\ server.streamId = created /\ server.begun = begun

LEMMA ConnectServed ==
    ASSUME Types, PathKnown, ServeConnect
    PROVE  /\ up # <<>> /\ up' = Tail(up) /\ Head(up).kind = "connect"
           /\ CountsAre(0, 0, 0) /\ CountsAre(1, 0, 0)'
<1>1. up # <<>> /\ up' = Tail(up) /\ Head(up).kind = "connect"
  BY DEF ServeConnect, ServerReads, clientVars, rtmpVars
<1>2. Head(up) \in ToSet(up)  BY <1>1, TakenByServer DEF Types
<1>3. server.connects = 0 /\ server \in Server
  BY <1>1, <1>2 DEF PathKnown, CommandFits, Types, WireTypes
<1>4. server.streamId = 0 /\ server.begun = 0
  BY <1>3 DEF PathKnown, ServerCounts, Server
<1> QED  BY <1>1, <1>3, <1>4 DEF CountsAre, ServeConnect, Server

LEMMA CreateServed ==
    ASSUME Types, PathKnown, ServeCreateStream
    PROVE  /\ up # <<>> /\ up' = Tail(up) /\ Head(up).kind = "createStream"
           /\ CountsAre(1, 0, 0) /\ CountsAre(1, 1, 0)'
<1>1. up # <<>> /\ up' = Tail(up) /\ Head(up).kind = "createStream"
  BY DEF ServeCreateStream, ServerReads, clientVars, rtmpVars
<1>2. Head(up) \in ToSet(up)  BY <1>1, TakenByServer DEF Types
<1>3. server.connects = 1 /\ server.streamId = 0 /\ server \in Server
  BY <1>1, <1>2 DEF PathKnown, CommandFits, Types, WireTypes
<1>4. server.begun = 0  BY <1>3 DEF PathKnown, ServerCounts, Server
<1> QED  BY <1>1, <1>3, <1>4 DEF CountsAre, ServeCreateStream, Server

LEMMA PublishServed ==
    ASSUME Types, PathKnown, ServePublish
    PROVE  /\ up # <<>> /\ up' = Tail(up) /\ Head(up).kind = "publish"
           /\ CountsAre(1, 1, 0)
           /\ \/ AddsAnswer(Message("Publish.Start")) /\ CountsAre(1, 1, 1)'
              \/ UNCHANGED <<server, down, buffered>>
<1>1. up # <<>> /\ up' = Tail(up) /\ Head(up).kind = "publish"
  BY DEF ServePublish, ServerReads, clientVars, rtmpVars
<1>2. Head(up) \in ToSet(up)  BY <1>1, TakenByServer DEF Types
<1>3. server.streamId = 1 /\ server.begun = 0 /\ server \in Server
  BY <1>1, <1>2 DEF PathKnown, CommandFits, Types, WireTypes
<1>4. server.connects = 1  BY <1>3 DEF PathKnown, ServerCounts, Server
<1>5. CountsAre(1, 1, 0)  BY <1>3, <1>4 DEF CountsAre
<1>6. CASE /\ AddsAnswer(Message("Publish.Start"))
           /\ server' = [server EXCEPT !.begun = @ + 1]
  <2>1. CountsAre(1, 1, 1)'  BY <1>3, <1>4, <1>6 DEF CountsAre, Server
  <2> QED  BY <1>1, <1>5, <1>6, <2>1
<1> QED  BY <1>1, <1>5, <1>6, PublishAnswered

LEMMA PathKnownStep ==
    ASSUME Types, WireTypes', PlaceKnown, CallsKnown, PathKnown, Next
    PROVE  PathKnown'
<1>1. CASE InterfaceConnects
  <2>1. up' = <<>> /\ In' = buffered /\ server' = FreshServer
    BY <1>1, ConcatEmptySeq DEF InterfaceConnects, In, Types, WireTypes
  <2>2. None(buffered, Answer)  BY <1>1 DEF InterfaceConnects, At, PlaceKnown
  <2>3. None(In', Answer) /\ Once(In', Answer)
    BY <2>1, <2>2, NoneIsOnce DEF Types, WireTypes
  <2>4. ServerCounts'  BY <2>1 DEF FreshServer, ServerCounts
  <2>5. OneUnderWay'  BY <2>1, <2>3, NoMessages DEF OneUnderWay
  <2>6. \A m \in ToSet(In') : AnswerFits(m)'  BY <2>3 DEF None, AnswerFits, Answer
  <2> QED  BY <2>1, <2>4, <2>5, <2>6, SetOfEmpty DEF PathKnown
<1>2. CASE SendConnectPacket /\ ~RtmpClose
  <2>1. /\ Invoke(<<>>, <<"connect">>, calls, TRUE) /\ buffered' = buffered /\ down' = down
        /\ server' = server /\ phase = "command"
    BY <1>2 DEF SendConnectPacket, CloseAndFail, serverVars, At
  <2>2. <<>> \in Seq(Others) /\ calls \in Seq(Call)  BY DEF Types, SessionTypes
  <2>3. AddsCommand("connect", calls)  BY <2>1, <2>2, InvokeDoes DEF Command
  <2>4. None(up, Command) /\ None(In', Answer) /\ server.connects = 0
    BY <2>1, InSame DEF PlaceKnown, Handshaking
  <2>5. \A m : m.kind = "connect" => CommandFits(m)  BY <2>4 DEF CommandFits
  <2> QED  BY <2>1, <2>3, <2>4, <2>5, PathCommand DEF Command
<1>3. CASE ReceiveResult
  <2> DEFINE r == Head(buffered)
  <2>1. /\ r \in ToSet(In) /\ r.kind = "_result"
        /\ CalledName \in {"none", "connect", "createStream"}
        /\ CalledName # "none" => CalledName = r.of
    BY <1>3, ResultNamed
  <2>2. buffered # <<>> /\ buffered' = Tail(buffered) /\ down' = down /\ server' = server
    BY <1>3 DEF ReceiveResult, Receive, Consume, At, serverVars
  <2>3. None(In', Answer)
    BY <2>1, <2>2, TakenByClient DEF Types, PathKnown, OneUnderWay, Answer
  <2>4. None(up, Command)  BY <2>1 DEF PathKnown, OneUnderWay, None, Answer
  <2>5. AnswerFits(r)  BY <2>1 DEF PathKnown
  <2> HIDE DEF r
  <2>6. CASE CalledName = "connect"
    <3>1. AddsCommand("createStream", calls)  BY <1>3, <2>6, ResultDoes
    <3>2. \A m : m.kind = "createStream" => CommandFits(m)
      BY <2>1, <2>5, <2>6 DEF AnswerFits, CommandFits
    <3> QED  BY <2>2, <2>3, <2>4, <3>1, <3>2, PathCommand DEF Command
  <2>7. CASE CalledName = "createStream"
    <3>1. AddsCommand("publish", calls)  BY <1>3, <2>7, ResultDoes
    <3>2. \A m : m.kind = "publish" => CommandFits(m)
      BY <2>1, <2>5, <2>7 DEF AnswerFits, CommandFits
    <3> QED  BY <2>2, <2>3, <2>4, <3>1, <3>2, PathCommand DEF Command
  <2>8. CASE CalledName = "none"
    <3>1. up' = up  BY <1>3, <2>8, ResultDoes
    <3> QED  BY <2>2, <3>1, SameIsQuiet, ReadIsQuiet, PathStays DEF SameCounts
  <2> QED  BY <2>1, <2>6, <2>7, <2>8
<1>4. CASE ServeConnect
  <2>1. PICK a : a = Result("connect", Head(up).txn, 0)  OBVIOUS
  <2>2. AddsAnswer(a)  BY <1>4, <2>1, ConnectAnswered
  <2>3. ServerCounts' /\ AnswerFits(a)'
    BY <1>4, <2>1, ConnectServed DEF CountsAre, ServerCounts, AnswerFits, Result
  <2> QED  BY <1>4, <2>2, <2>3, ConnectServed, PathAnswer DEF Command
<1>5. CASE ServeCreateStream
  <2>1. PICK a : a = Result("createStream", Head(up).txn, server.streamId + 1)  OBVIOUS
  <2>2. AddsAnswer(a)  BY <1>5, <2>1, CreateAnswered
  <2>3. ServerCounts' /\ AnswerFits(a)'
    BY <1>5, <2>1, CreateServed DEF CountsAre, ServerCounts, AnswerFits, Result
  <2> QED  BY <1>5, <2>2, <2>3, CreateServed, PathAnswer DEF Command
<1>6. CASE ServePublish
  <2>1. CASE UNCHANGED <<server, down, buffered>>
    BY <1>6, <2>1, PublishServed, SameIsQuiet, ServingIsQuiet, PathStays DEF
         SameCounts
  <2>2. CASE AddsAnswer(Message("Publish.Start")) /\ CountsAre(1, 1, 1)'
    <3>1. ServerCounts' /\ AnswerFits(Message("Publish.Start"))'
      BY <2>2 DEF CountsAre, ServerCounts, AnswerFits, Message
    <3> QED  BY <1>6, <2>2, <3>1, PublishServed, PathAnswer DEF Command
  <2> QED  BY <1>6, <2>1, <2>2, PublishServed
<1>7. CASE UpQuiet /\ InQuiet /\ SameCounts  BY <1>7, PathStays
<1> QED
  BY <1>1, <1>2, <1>3, <1>4, <1>5, <1>6, <1>7, QuietStep, CountsStep DEF Loud


LEMMA InKnownNext ==
    ASSUME WireTypes'
    PROVE  ToSet(In') = ToSet(buffered') \cup ToSet(down')
BY SetOfConcat DEF WireTypes, In

LEMMA PlaceStays ==
    ASSUME WireTypes', PlaceKnown, UpQuiet, InQuiet, SameCounts, phase \in Handshaking
    PROVE  PlaceKnown'
<1>1. None(up', Command) /\ None(In', Answer) /\ server'.connects = 0
  BY DEF PlaceKnown, UpQuiet, InQuiet, SameCounts, None
<1>2. None(buffered', Answer)  BY <1>1, InKnownNext DEF None
<1> QED  BY <1>1, <1>2 DEF PlaceKnown

(* The thread is past the handshake and its buffer is as it was, or empty. *)
LEMMA PlaceLeft ==
    ASSUME PlaceKnown, phase' \notin Handshaking, buffered' = buffered \/ buffered' = <<>>,
           playing' \/ phase' # "stream" => playing \/ phase # "stream"
    PROVE  PlaceKnown'
BY NoMessages DEF PlaceKnown

LEMMA PlaceClosed ==
    ASSUME WireTypes, RtmpClose, phase' \notin Handshaking
    PROVE  PlaceKnown'
BY CloseDoes, NoMessages DEF PlaceKnown, Closed


LEMMA QuietKeepsPlace ==
    ASSUME Types, WireTypes', PlaceKnown, Next, phase \in Handshaking, ~Loud,
           ~InterfaceConnects
    PROVE  PlaceKnown'
BY QuietStep, CountsStep, PlaceStays

(* The server serves no command of a client that is shaking hands.         *)
LEMMA NothingToServe ==
    ASSUME Types, PlaceKnown, phase \in Handshaking
    PROVE  ~ServeConnect /\ ~ServeCreateStream /\ ~ServePublish
<1>1. None(up, Command)  BY DEF PlaceKnown
<1>2. up # <<>> => Head(up).kind \notin Command
  BY <1>1, SetOfTail DEF Types, WireTypes, None
<1> QED
  BY <1>2 DEF ServeConnect, ServeCreateStream, ServePublish, ServerReads, Command

LEMMA PlaceKnownStep ==
    ASSUME Types, WireTypes', PathKnown, PlaceKnown, CallsKnown, Next
    PROVE  PlaceKnown'
<1> USE DEF At, Goto, Use, rtmpVars, linkVars, serverVars, clientVars, Receive,
           Consume, ServerReads, ConnectFailed, Handshaking
<1>0. CASE NoSocket  BY <1>0, PlaceLeft DEF NoSocket
<1>1. CASE ConnectSocket  BY <1>1, PlaceLeft DEF ConnectSocket
<1>2. CASE InterfaceConnects
  <2>1. up' = <<>> /\ In' = buffered /\ server' = FreshServer /\ buffered' = buffered
    BY <1>2, ConcatEmptySeq DEF InterfaceConnects, In, Types, WireTypes
  <2>2. None(buffered, Answer)  BY <1>2 DEF InterfaceConnects, PlaceKnown
  <2> QED  BY <2>1, <2>2, NoMessages DEF PlaceKnown, FreshServer
<1>3. CASE InterfaceFails
  <2>1. CASE RtmpClose
    BY <1>3, <2>1, PlaceClosed, PlaceLeft DEF InterfaceFails, Types
  <2>2. CASE ~RtmpClose  BY <1>3, <2>2, PlaceLeft DEF InterfaceFails
  <2> QED  BY <2>1, <2>2
<1>4. CASE NoInterface  BY <1>4, PlaceLeft DEF NoInterface
<1>5. CASE SendC0C1
  <2>1. CASE CloseAndFail
    BY <1>5, <2>1, PlaceClosed DEF SendC0C1, CloseAndFail, Types
  <2>2. CASE ~CloseAndFail
    <3>1. phase \in Handshaking  BY <1>5 DEF SendC0C1
    <3>2. ~Loud /\ ~InterfaceConnects
      BY <1>5, <3>1, NothingToServe DEF SendC0C1, Loud, SendConnectPacket,
           ReceiveResult, InterfaceConnects
    <3> QED  BY <3>1, <3>2, QuietKeepsPlace
  <2> QED  BY <2>1, <2>2
<1>6. CASE ReadS0S1
  <2>1. CASE CloseAndFail
    BY <1>6, <2>1, PlaceClosed DEF ReadS0S1, CloseAndFail, Types
  <2>2. CASE ~CloseAndFail
    <3>1. phase \in Handshaking  BY <1>6 DEF ReadS0S1
    <3>2. ~Loud /\ ~InterfaceConnects
      BY <1>6, <3>1, NothingToServe DEF ReadS0S1, Loud, SendConnectPacket,
           ReceiveResult, InterfaceConnects
    <3> QED  BY <3>1, <3>2, QuietKeepsPlace
  <2> QED  BY <2>1, <2>2
<1>7. CASE ReadS2
  <2>1. phase \in Handshaking  BY <1>7 DEF ReadS2
  <2>2. ~Loud /\ ~InterfaceConnects
    BY <1>7, <2>1, NothingToServe DEF ReadS2, Loud, SendConnectPacket,
         ReceiveResult, InterfaceConnects
  <2> QED  BY <2>1, <2>2, QuietKeepsPlace
<1>8. CASE SendConnectPacket
  <2>1. CASE RtmpClose
    BY <1>8, <2>1, PlaceClosed, PlaceLeft DEF SendConnectPacket, CloseAndFail,
         AfterConnect, Types, ThreadTypes
  <2>2. CASE ~RtmpClose
    BY <1>8, <2>2, PlaceLeft DEF SendConnectPacket, CloseAndFail, AfterConnect,
         Types, ThreadTypes
  <2> QED  BY <2>1, <2>2
<1>9. CASE AnnounceChunkSize  BY <1>9, PlaceLeft DEF AnnounceChunkSize
<1>10. CASE Fill
  <2>1. CASE At("stream")  BY <1>10, <2>1 DEF Fill, Reading, PlaceKnown
  <2>2. CASE ~At("stream")
    <3>1. phase \in Handshaking /\ phase' = phase /\ playing' = playing /\ up' = up
          /\ server' = server
      BY <1>10, <2>2 DEF Fill, Reading
    <3>2. In' = In /\ ToSet(buffered') \subseteq ToSet(In)
      BY <1>10, FillDoes DEF Types
    <3> QED  BY <3>1, <3>2 DEF PlaceKnown, None
  <2> QED  BY <2>1, <2>2
<1>11. CASE ReadFails  BY <1>11, PlaceClosed DEF ReadFails, Types
<1>12. CASE ReceiveResult
  <2>1. playing' = playing  BY <1>12, ResultNamed, ResultDoes
  <2> QED  BY <1>12, <2>1 DEF ReceiveResult, PlaceKnown
<1>13. CASE ReceivePublishStart
  <2>1. None(buffered', Answer)
    BY <1>13, TakenByClient DEF ReceivePublishStart, Types, PathKnown, OneUnderWay,
         Answer
  <2> QED  BY <1>13, <2>1 DEF ReceivePublishStart, PlaceKnown
<1>14. CASE ReceiveOnBWDone  BY <1>14 DEF ReceiveOnBWDone, PlaceKnown
<1>15. CASE ReceiveOnbwcheck  BY <1>15 DEF ReceiveOnbwcheck, PlaceKnown
<1>16. CASE ReceiveOnbwdone  BY <1>16 DEF ReceiveOnbwdone, PlaceKnown
<1>17. CASE ReceivePing  BY <1>17 DEF ReceivePing, PlaceKnown
<1>18. CASE ReceiveNothing  BY <1>18 DEF ReceiveNothing, PlaceKnown
<1>19. CASE ReceiveClose  BY <1>19, PlaceClosed DEF ReceiveClose, Types
<1>20. CASE StreamPlays  BY <1>20, PlaceLeft DEF StreamPlays
<1>21. CASE SendMedia  BY <1>21, PlaceLeft DEF SendMedia
<1>22. CASE Loop  BY <1>22, PlaceClosed DEF Loop, Types
<1>23. CASE HandshakeTimesOut
  BY <1>23, PlaceClosed DEF HandshakeTimesOut, CloseAndFail, Types
<1>24. CASE StreamTimesOut  BY <1>24, NoMessages DEF StreamTimesOut, PlaceKnown
<1>25. CASE SendTimesOut  BY <1>25, PlaceLeft DEF SendTimesOut
<1>26. CASE ServerStep \/ Push \/ PeerSays \/ Break
  <2>1. UNCHANGED <<phase, playing, buffered>>
    BY <1>26 DEF ServerStep, ServerHandshake, ServeConnect, ServeCreateStream,
         ServePublish, ServeMedia, ServeNothing, ServerStops, Push, PeerSays, Break
  <2>2. CASE phase \in Handshaking
    <3>1. ~(SendConnectPacket /\ ~RtmpClose) /\ ~ReceiveResult /\ ~InterfaceConnects
      BY <2>1, <2>2 DEF SendConnectPacket, CloseAndFail, AfterConnect,
           ReceiveResult, InterfaceConnects, Types, ThreadTypes
    <3> QED  BY <2>2, <3>1, NothingToServe, QuietKeepsPlace DEF Loud
  <2>3. CASE phase \notin Handshaking  BY <2>1, <2>3, PlaceLeft
  <2> QED  BY <2>2, <2>3
<1> QED
  BY <1>0, <1>1, <1>2, <1>3, <1>4, <1>5, <1>6, <1>7, <1>8, <1>9, <1>10, <1>11, <1>12,
     <1>13, <1>14, <1>15, <1>16, <1>17, <1>18, <1>19, <1>20, <1>21, <1>22, <1>23, <1>24,
     <1>25, <1>26 DEF Next, ClientStep, Connecting, Receiving, Timeout


(* The handshake is read from what this connection brought. *)
Shaking == {"c0c1", "s0s1", "s2"}

LEMMA HandshakePast ==
    ASSUME phase' \notin Shaking, misaligned' => playing',
           ~playing' /\ phase' # "stream" => buffered' = <<>>
    PROVE  HandshakeKnown'
BY DEF HandshakeKnown, Shaking

LEMMA HandshakeClosed ==
    ASSUME WireTypes, RtmpClose, phase' \notin Shaking
    PROVE  HandshakeKnown'
BY CloseDoes, HandshakePast DEF Closed

LEMMA InParts ==
    ASSUME WireTypes
    PROVE  /\ Len(buffered) \in Nat /\ Len(down) \in Nat /\ Len(up) \in Nat
           /\ Len(In) = Len(buffered) + Len(down)
           /\ \A i \in 1..Len(buffered) : In[i] = buffered[i]
           /\ \A i \in 1..Len(down) : In[Len(buffered) + i] = down[i]
           /\ In = <<>> => buffered = <<>> /\ down = <<>>
           /\ down = <<>> => In = buffered
           /\ buffered = <<>> => In = down
           /\ buffered # <<>> => Len(buffered) >= 1 /\ Len(In) >= 1
<1>1. /\ Len(buffered) \in Nat /\ Len(down) \in Nat /\ Len(up) \in Nat
      /\ buffered \in Seq(DownMessage) /\ down \in Seq(DownMessage)
  BY LenProperties DEF WireTypes
<1>2. /\ Len(In) = Len(buffered) + Len(down)
      /\ \A i \in 1..Len(buffered) : In[i] = buffered[i]
      /\ \A i \in 1..Len(down) : In[Len(buffered) + i] = down[i]
  BY <1>1, ConcatProperties DEF In
<1>3. /\ down = <<>> => In = buffered
      /\ buffered = <<>> => In = down
  BY <1>1, ConcatEmptySeq DEF In
<1>4. /\ buffered = <<>> <=> Len(buffered) = 0
      /\ down = <<>> <=> Len(down) = 0
      /\ In = <<>> => Len(In) = 0
  BY <1>1, EmptySeq
<1> QED  BY <1>1, <1>2, <1>3, <1>4

LEMMA InPartsNext ==
    ASSUME WireTypes'
    PROVE  /\ Len(buffered') \in Nat /\ Len(down') \in Nat
           /\ Len(In') = Len(buffered') + Len(down')
           /\ \A i \in 1..Len(buffered') : In'[i] = buffered'[i]
           /\ \A i \in 1..Len(down') : In'[Len(buffered') + i] = down'[i]
           /\ down' = <<>> => In' = buffered'
           /\ buffered' = <<>> => In' = down'
BY ConcatProperties, LenProperties, ConcatEmptySeq, EmptySeq DEF WireTypes, In

LEMMA OneOrTwo == \A n \in Nat : n >= 1 /\ n <= 2 => n = 1 \/ n = 2
OBVIOUS

LEMMA FromTwo == \A n \in Nat : n >= 1 /\ n # 1 => 2 \in 1..n /\ n \in 2..n
OBVIOUS

(* The answer awaited is the first of what is there to be read.            *)
LEMMA FirstIsTaken ==
    ASSUME WireTypes, WireTypes', phase \in {"s0s1", "s2"}, HasAwaited, TakeHandshake,
           down' = down, Len(In) = 1 \/ Len(In) = 2, In[1].kind = Awaited,
           Len(In) = 2 => In[2].kind # Awaited
    PROVE  /\ misaligned' => misaligned
           /\ Len(In') = Len(In) - 1
           /\ Len(In') = 1 => In'[1] = In[2]
<1>1. Awaited # "any"  BY DEF Awaited, At
<1>2. PICK k \in 1..Len(buffered) : /\ buffered[k].kind = Awaited
                                    /\ buffered' = SubSeq(buffered, k + 1, Len(buffered))
                                    /\ misaligned' = (misaligned \/ k > 1)
  BY <1>1, HandshakeTaken
<1>3. k = 1
  <2>1. In[k].kind = Awaited /\ k <= Len(In)  BY <1>2, InParts
  <2>2. k = 1 \/ (k = 2 /\ Len(In) = 2)
    <3>1. k \in Nat /\ k >= 1  BY InParts
    <3>2. CASE Len(In) = 1  BY <2>1, <3>1, <3>2
    <3>3. CASE Len(In) = 2  BY <2>1, <3>1, <3>3
    <3> QED  BY <3>2, <3>3
  <2> QED  BY <2>1, <2>2
<1>4. Len(buffered) >= 1 /\ Len(buffered) \in Nat  BY <1>2, InParts
<1>5. /\ Len(buffered') = Len(buffered) - 1
      /\ \A i \in 1..Len(buffered') : buffered'[i] = buffered[i + 1]
  <2>1. CASE Len(buffered) = 1
    <3>1. buffered' = <<>>  BY <1>2, <1>3, <2>1, SubSeqEmpty DEF WireTypes
    <3> QED  BY <2>1, <3>1
  <2>2. CASE Len(buffered) # 1
    <3>1. 2 \in 1..Len(buffered) /\ Len(buffered) \in 2..Len(buffered)
      BY <1>4, <2>2, FromTwo
    <3>2. /\ Len(buffered') = Len(buffered) - 2 + 1
          /\ \A i \in 1..Len(buffered) - 2 + 1 : buffered'[i] = buffered[2 + i - 1]
      BY <1>2, <1>3, <3>1, SubSeqProperties DEF WireTypes
    <3> QED  BY <3>1, <3>2, InParts
  <2> QED  BY <2>1, <2>2
<1>6. Len(In') = Len(In) - 1  BY <1>5, InParts, InPartsNext
<1>7. ASSUME Len(In') = 1
      PROVE  In'[1] = In[2]
  <2>1. CASE Len(buffered) = 2
    BY <1>5, <2>1, InParts, InPartsNext
  <2>2. CASE Len(buffered) = 1
    <3>1. Len(buffered') = 0 /\ Len(down) = 1 /\ Len(buffered) + 1 = 2
      BY <1>5, <1>6, <1>7, <2>2, InParts, InPartsNext
    <3>2. In[Len(buffered) + 1] = down[1] /\ In'[Len(buffered') + 1] = down[1]
      BY <3>1, InParts, InPartsNext
    <3> QED  BY <3>1, <3>2
  <2>3. Len(buffered) <= 2  BY SMTT(60), <1>6, <1>7, InParts
  <2> QED  BY <1>4, <2>1, <2>2, <2>3, OneOrTwo
<1>8. ~(k > 1)  BY <1>3
<1>9. misaligned' => misaligned  BY Zenon, <1>2, <1>8
<1> QED  BY <1>6, <1>7, <1>9

(* Of what is on the way to the server, only the opening may be served     *)
(* while the client waits for the answer to it.                            *)
LEMMA NotOpening ==
    ASSUME WireTypes, HandshakeKnown,
           server.at \notin {"c0c1", "closed"} \/ Head(up).kind # "C0C1",
           up # <<>>, up' = Tail(up), UNCHANGED <<phase, playing, buffered, misaligned>>,
           server'.at # "c0c1", phase = "s2" => down' = down
    PROVE  HandshakeKnown'
<1>1. phase # "c0c1"  BY DEF HandshakeKnown
<1>2. phase # "s0s1"
  <2>1. Len(up) = 1 => Head(up) = up[1]  BY HeadTailProperties DEF WireTypes
  <2> QED  BY <2>1 DEF HandshakeKnown
<1>3. CASE phase = "s2"
  <2>1. In' = In  BY <1>3, InSame
  <2>2. None(up, {"C0C1"}) => None(up', {"C0C1"})  BY TakenByServer DEF None
  <2> QED  BY <1>1, <1>2, <1>3, <2>1, <2>2 DEF HandshakeKnown
<1> QED  BY <1>1, <1>2, <1>3, HandshakePast DEF HandshakeKnown, Shaking

LEMMA OpeningServed ==
    ASSUME WireTypes, WireTypes', HandshakeKnown, up # <<>>, Head(up).kind = "C0C1",
           up' = Tail(up),
           UNCHANGED <<phase, playing, buffered, misaligned>>,
           down' = Answered(<<Message("S0S1"), Message("S2")>>)
    PROVE  HandshakeKnown'
<1>1. phase # "c0c1"  BY DEF HandshakeKnown
<1>2. CASE phase = "s0s1"
  <2>1. Len(up) = 1 /\ down = <<>>  BY <1>2 DEF HandshakeKnown
  <2>2. up' = <<>>
    <3>1. up' \in Seq(UpMessage) /\ Len(up') = 0
      BY <2>1, HeadTailProperties DEF WireTypes
    <3> QED  BY <3>1, EmptySeq
  <2>3. ~playing => buffered = <<>>  BY <1>2, InParts DEF HandshakeKnown
  <2> DEFINE ms == <<Message("S0S1"), Message("S2")>>
  <2>4. /\ ms \in Seq(DownMessage) /\ Len(ms) = 2
        /\ ms[1].kind = "S0S1" /\ ms[2].kind = "S2"
    BY DEF Message, DownMessage, DownKind, ExtraKind
  <2> HIDE DEF ms
  <2>5. down' = ms \/ down' = <<>>
    BY <2>1, <2>4, ConcatEmptySeq DEF Answered, ms
  <2>6. ~playing => In' = ms \/ In' = <<>>
    BY <2>3, <2>4, <2>5, InPartsNext
  <2>7. /\ phase' = "s0s1" /\ misaligned' = misaligned /\ playing' = playing
        /\ misaligned => playing
    BY <1>2 DEF HandshakeKnown
  <2> DEFINE Opens(s) == /\ Len(s) <= 2
                         /\ Len(s) >= 1 => s[1].kind = "S0S1"
                         /\ Len(s) = 2 => s[2].kind = "S2"
  <2>8. Opens(ms) /\ Opens(<<>>)  BY <2>4
  <2>9. ~playing' => Opens(In')
    <3> HIDE DEF Opens
    <3> QED  BY <2>6, <2>7, <2>8
  <2> QED  BY <2>2, <2>7, <2>9 DEF HandshakeKnown
<1>3. CASE phase = "s2"
  <2>1. playing
    <3>1. Head(up) \in ToSet(up)  BY TakenByServer
    <3> QED  BY <1>3, <3>1 DEF HandshakeKnown, None
  <2> QED  BY <1>3, <2>1 DEF HandshakeKnown
<1>4. CASE phase \notin Shaking
  BY <1>4, HandshakePast DEF HandshakeKnown, Shaking
<1> QED  BY <1>1, <1>2, <1>3, <1>4 DEF Shaking

LEMMA HandshakeKnownStep ==
    ASSUME Types, WireTypes', PlayingKnown, PhaseKnown, PlaceKnown, HandshakeKnown, Next
    PROVE  HandshakeKnown'
<1> USE DEF At, Goto, Use, rtmpVars, linkVars, serverVars, clientVars, Receive,
           Consume, ServerReads, ConnectFailed, Shaking
<1>0. CASE NoSocket  BY <1>0, HandshakePast DEF NoSocket, HandshakeKnown
<1>1. CASE ConnectSocket  BY <1>1, HandshakePast DEF ConnectSocket, HandshakeKnown
<1>2. CASE InterfaceConnects
  BY <1>2 DEF InterfaceConnects, FreshServer, HandshakeKnown
<1>3. CASE InterfaceFails
  <2>1. CASE RtmpClose
    BY <1>3, <2>1, HandshakeClosed, HandshakePast DEF InterfaceFails, Types,
         HandshakeKnown
  <2>2. CASE ~RtmpClose
    BY <1>3, <2>2, HandshakePast DEF InterfaceFails, HandshakeKnown
  <2> QED  BY <2>1, <2>2
<1>4. CASE NoInterface  BY <1>4, HandshakePast DEF NoInterface, HandshakeKnown
<1>5. CASE SendC0C1
  <2>1. CASE CloseAndFail  BY <1>5, <2>1, HandshakeClosed DEF CloseAndFail, Types
  <2>2. CASE ~CloseAndFail
    <3>1. /\ phase = "c0c1" /\ phase' = "s0s1" /\ up' = Written(<<Message("C0C1")>>)
          /\ UNCHANGED <<playing, buffered, misaligned, down, server>>
      BY <1>5, <2>2 DEF SendC0C1
    <3>2. /\ up = <<>> /\ down = <<>> /\ server.at \in {"c0c1", "closed"}
          /\ ~playing => buffered = <<>>
      BY <3>1 DEF HandshakeKnown
    <3> DEFINE one == <<Message("C0C1")>>
    <3>3. one \in Seq(UpMessage) /\ Len(one) = 1 /\ one[1].kind = "C0C1"
      BY DEF Message, UpMessage, UpKind
    <3> HIDE DEF one
    <3>4. up' = one \/ up' = <<>>
      BY <3>1, <3>2, <3>3, ConcatEmptySeq DEF Written, one
    <3>5. ~playing => In' = <<>>
      BY <3>1, <3>2, InPartsNext
    <3> QED  BY <3>1, <3>2, <3>3, <3>4, <3>5 DEF HandshakeKnown
  <2> QED  BY <2>1, <2>2
<1>6. CASE ReadS0S1
  <2>1. CASE CloseAndFail  BY <1>6, <2>1, HandshakeClosed DEF CloseAndFail, Types
  <2>2. CASE ~CloseAndFail
    <3>1. /\ phase = "s0s1" /\ phase' = "s2" /\ up' = Written(<<Message("C2")>>)
          /\ HasAwaited /\ TakeHandshake /\ UNCHANGED <<playing, down>>
      BY <1>6, <2>2 DEF ReadS0S1
    <3>2. CASE playing  BY <3>1, <3>2 DEF HandshakeKnown
    <3>3. CASE ~playing
      <4>1. Awaited = "S0S1"  BY <3>1 DEF Awaited
      <4>2. buffered # <<>>
        BY <3>1, <4>1, HandshakeTaken DEF Types
      <4>3. Len(In) = 1 \/ Len(In) = 2
        <5>1. Len(In) <= 2  BY <3>1, <3>3 DEF HandshakeKnown
        <5>2. Len(In) \in Nat /\ Len(In) >= 1  BY <4>2, InParts DEF Types
        <5> QED  BY <5>1, <5>2, OneOrTwo
      <4>4. In[1].kind = Awaited /\ (Len(In) = 2 => In[2].kind = "S2") /\ up = <<>>
        BY <3>1, <3>3, <4>1, <4>2, <4>3, InParts DEF HandshakeKnown, Types
      <4>5. /\ (misaligned' => misaligned) /\ Len(In') = Len(In) - 1
            /\ Len(In') = 1 => In'[1] = In[2]
        BY <3>1, <4>1, <4>3, <4>4, FirstIsTaken DEF Types
      <4>6. None(up', {"C0C1"})
        <5>1. up' = <<>> \/ up' = <<Message("C2")>>
          BY <3>1, <4>4 DEF Written
        <5> QED  BY <5>1, SetOfEmpty, SetOfOne DEF None, Message
      <4> QED  BY <3>1, <3>3, <4>3, <4>4, <4>5, <4>6 DEF HandshakeKnown
    <3> QED  BY <3>2, <3>3
  <2> QED  BY <2>1, <2>2
<1>7. CASE ReadS2
  <2>1. /\ phase = "s2" /\ phase' = "command" /\ HasAwaited /\ TakeHandshake
        /\ UNCHANGED <<playing, down>>
    BY <1>7 DEF ReadS2
  <2>2. CASE playing  BY <2>1, <2>2, HandshakePast
  <2>3. CASE ~playing
    <3>1. Awaited = "S2"  BY <2>1 DEF Awaited
    <3>2. buffered # <<>>  BY <2>1, <3>1, HandshakeTaken DEF Types
    <3>3. Len(In) = 1 /\ In[1].kind = "S2"
      <4>1. Len(In) \in Nat /\ Len(In) >= 1  BY <3>2, InParts DEF Types
      <4>2. Len(In) <= 1 /\ (Len(In) = 1 => In[1].kind = "S2")
        BY <2>1, <2>3 DEF HandshakeKnown
      <4> QED  BY <4>1, <4>2
    <3>4. (misaligned' => misaligned) /\ Len(In') = 0
      BY <2>1, <3>1, <3>3, FirstIsTaken DEF Types
    <3>5. buffered' = <<>>
      BY <3>4, InPartsNext, EmptySeq DEF WireTypes
    <3> QED  BY <2>1, <2>3, <3>4, <3>5, HandshakePast DEF HandshakeKnown
  <2> QED  BY <2>2, <2>3
<1>8. CASE SendConnectPacket
  <2>1. phase = "command" /\ phase' \notin Shaking
    BY <1>8 DEF SendConnectPacket, CloseAndFail, AfterConnect, Types, ThreadTypes
  <2>2. CASE RtmpClose  BY <2>1, <2>2, HandshakeClosed DEF Types
  <2>3. CASE ~RtmpClose
    <3>1. UNCHANGED <<buffered, misaligned, playing>>
      BY <1>8, <2>3 DEF SendConnectPacket, CloseAndFail
    <3> QED  BY <2>1, <3>1, HandshakePast DEF HandshakeKnown
  <2> QED  BY <2>2, <2>3
<1>9. CASE AnnounceChunkSize
  BY <1>9, HandshakePast DEF AnnounceChunkSize, HandshakeKnown
<1>10. CASE Fill
  <2>1. /\ down # <<>> /\ Reading
        /\ UNCHANGED <<phase, playing, misaligned, up, server>>
    BY <1>10 DEF Fill
  <2>2. In' = In  BY <1>10, FillDoes DEF Types
  <2>3. CASE phase = "s0s1"
    <3>1. up = <<>>  BY <2>1, <2>3 DEF HandshakeKnown
    <3> QED  BY <2>1, <2>2, <2>3, <3>1 DEF HandshakeKnown
  <2>4. CASE phase = "s2"  BY <2>1, <2>2, <2>4 DEF HandshakeKnown
  <2>5. CASE phase = "stream"  BY <2>1, <2>5, HandshakePast DEF HandshakeKnown
  <2> QED  BY <2>1, <2>3, <2>4, <2>5 DEF Reading
<1>11. CASE ReadFails  BY <1>11, HandshakeClosed DEF ReadFails, Types
<1>12. CASE ReceiveResult
  <2>1. /\ phase = "stream" /\ ~playing /\ phase' = phase
        /\ misaligned' = misaligned
    BY <1>12 DEF ReceiveResult
  <2> QED  BY <2>1, HandshakePast DEF HandshakeKnown
<1>13. CASE ReceivePublishStart
  <2>1. /\ phase = "stream" /\ ~playing /\ phase' = phase
        /\ misaligned' = misaligned
    BY <1>13 DEF ReceivePublishStart
  <2> QED  BY <2>1, HandshakePast DEF HandshakeKnown
<1>14. CASE ReceiveOnBWDone
  <2>1. /\ phase = "stream" /\ ~playing /\ phase' = phase
        /\ misaligned' = misaligned
    BY <1>14 DEF ReceiveOnBWDone
  <2> QED  BY <2>1, HandshakePast DEF HandshakeKnown
<1>15. CASE ReceiveOnbwcheck
  <2>1. /\ phase = "stream" /\ ~playing /\ phase' = phase
        /\ misaligned' = misaligned
    BY <1>15 DEF ReceiveOnbwcheck
  <2> QED  BY <2>1, HandshakePast DEF HandshakeKnown
<1>16. CASE ReceiveOnbwdone
  <2>1. /\ phase = "stream" /\ ~playing /\ phase' = phase
        /\ misaligned' = misaligned
    BY <1>16 DEF ReceiveOnbwdone
  <2> QED  BY <2>1, HandshakePast DEF HandshakeKnown
<1>17. CASE ReceivePing
  <2>1. /\ phase = "stream" /\ ~playing /\ phase' = phase
        /\ misaligned' = misaligned
    BY <1>17 DEF ReceivePing
  <2> QED  BY <2>1, HandshakePast DEF HandshakeKnown
<1>18. CASE ReceiveNothing
  <2>1. /\ phase = "stream" /\ ~playing /\ phase' = phase
        /\ misaligned' = misaligned
    BY <1>18 DEF ReceiveNothing
  <2> QED  BY <2>1, HandshakePast DEF HandshakeKnown
<1>19. CASE ReceiveClose  BY <1>19, HandshakeClosed DEF ReceiveClose, Types
<1>20. CASE StreamPlays  BY <1>20, HandshakePast DEF StreamPlays, HandshakeKnown
<1>21. CASE SendMedia  BY <1>21, HandshakePast DEF SendMedia, HandshakeKnown
<1>22. CASE Loop  BY <1>22, HandshakeClosed DEF Loop, Types
<1>23. CASE HandshakeTimesOut
  BY <1>23, HandshakeClosed DEF HandshakeTimesOut, CloseAndFail, Types
<1>24. CASE StreamTimesOut
  BY <1>24, HandshakePast DEF StreamTimesOut, HandshakeKnown
<1>25. CASE SendTimesOut  BY <1>25, HandshakePast DEF SendTimesOut, HandshakeKnown
<1>26. CASE ServerHandshake
  <2>1. /\ up # <<>> /\ up' = Tail(up)
        /\ UNCHANGED <<phase, playing, buffered, misaligned>>
    BY <1>26 DEF ServerHandshake
  <2>2. CASE Head(up).kind = "C0C1" /\ down' = Answered(<<Message("S0S1"), Message("S2")>>)
    BY <2>1, <2>2, OpeningServed DEF Types
  <2>3. CASE Head(up).kind = "C2" /\ down' = down /\ server'.at = "packets"
    BY <2>1, <2>3, NotOpening DEF Types
  <2>4. server \in Server  BY DEF Types, WireTypes
  <2> QED  BY <1>26, <2>2, <2>3, <2>4 DEF ServerHandshake, Server
<1>27. CASE ServeConnect
  <2>1. /\ up # <<>> /\ up' = Tail(up) /\ server.at = "packets"
        /\ UNCHANGED <<phase, playing, buffered, misaligned>>
        /\ server'.at = "packets"
    BY <1>27 DEF ServeConnect, Types, WireTypes, Server
  <2>2. phase # "s2"  BY <1>27, NothingToServe DEF Handshaking
  <2> QED  BY <2>1, <2>2, NotOpening DEF Types
<1>28. CASE ServeCreateStream
  <2>1. /\ up # <<>> /\ up' = Tail(up) /\ server.at = "packets"
        /\ UNCHANGED <<phase, playing, buffered, misaligned>>
        /\ server'.at = "packets"
    BY <1>28 DEF ServeCreateStream, Types, WireTypes, Server
  <2>2. phase # "s2"  BY <1>28, NothingToServe DEF Handshaking
  <2> QED  BY <2>1, <2>2, NotOpening DEF Types
<1>29. CASE ServePublish
  <2>1. /\ up # <<>> /\ up' = Tail(up) /\ server.at = "packets"
        /\ UNCHANGED <<phase, playing, buffered, misaligned>>
        /\ server'.at = "packets"
    BY <1>29 DEF ServePublish, Types, WireTypes, Server
  <2>2. phase # "s2"  BY <1>29, NothingToServe DEF Handshaking
  <2> QED  BY <2>1, <2>2, NotOpening DEF Types
<1>30. CASE ServeMedia
  <2>1. /\ up # <<>> /\ up' = Tail(up) /\ server.at = "packets"
        /\ UNCHANGED <<phase, playing, buffered, misaligned>>
        /\ server'.at = "packets" /\ down' = down
    BY <1>30 DEF ServeMedia, Types, WireTypes, Server
  <2> QED  BY <2>1, NotOpening DEF Types
<1>31. CASE ServeNothing
  <2>1. /\ up # <<>> /\ up' = Tail(up) /\ server.at = "packets"
        /\ UNCHANGED <<phase, playing, buffered, misaligned>>
        /\ server'.at = "packets" /\ down' = down
    BY <1>31 DEF ServeNothing, Types, WireTypes, Server
  <2> QED  BY <2>1, NotOpening DEF Types
<1>32. CASE ServerStops
  <2>1. /\ UNCHANGED <<phase, playing, buffered, misaligned>> /\ up' = up /\ up = <<>> /\ down' = down
        /\ server'.at = "closed"
    BY <1>32 DEF ServerStops, Types, WireTypes, Server
  <2>2. In' = In  BY <2>1, InSame
  <2> QED  BY <2>1, <2>2 DEF HandshakeKnown, None
<1>33. CASE Push
  <2>1. UNCHANGED <<phase, playing, buffered, misaligned>> /\ UNCHANGED <<up, down, server>>
    BY <1>33 DEF Push
  <2>2. In' = In  BY <2>1, InSame
  <2> QED  BY <2>1, <2>2 DEF HandshakeKnown, None
<1>34. CASE PeerSays
  <2>1. /\ UNCHANGED <<phase, playing, buffered, misaligned>>
        /\ phase \notin Handshaking
    BY <1>34 DEF PeerSays, PlaceKnown, Types, WireTypes, Server
  <2> QED  BY <2>1, HandshakePast DEF HandshakeKnown, Handshaking
<1>35. CASE Break
  <2>1. UNCHANGED <<phase, playing, buffered, misaligned>> /\ server' = server
    BY <1>35 DEF Break
  <2>2. CASE UNCHANGED <<up, down>>
    <3>1. In' = In  BY <2>1, <2>2, InSame
    <3> QED  BY <2>1, <2>2, <3>1 DEF HandshakeKnown, None
  <2>3. CASE up' = <<>> /\ down' = <<>>
    <3>1. In' = buffered  BY <2>1, <2>3, InPartsNext
    <3>2. /\ Len(In') <= Len(In) /\ Len(In') \in Nat /\ Len(In) \in Nat
          /\ \A i \in 1..Len(In') : In'[i] = In[i]
      BY <3>1, InParts DEF Types
    <3>3. /\ Len(In') >= 1 => In'[1] = In[1] /\ Len(In) >= 1
          /\ Len(In') = 2 => In'[2] = In[2] /\ Len(In) >= 2
      BY <3>2
    <3>4. None(up', {"C0C1"})  BY <2>3, NoMessages
    <3> QED  BY <2>1, <2>3, <3>2, <3>3, <3>4 DEF HandshakeKnown
  <2> QED  BY <1>35, <2>2, <2>3 DEF Break
<1> QED
  BY <1>0, <1>1, <1>2, <1>3, <1>4, <1>5, <1>6, <1>7, <1>8, <1>9, <1>10, <1>11, <1>12,
     <1>13, <1>14, <1>15, <1>16, <1>17, <1>18, <1>19, <1>20, <1>21, <1>22, <1>23, <1>24,
     <1>25, <1>26, <1>27, <1>28, <1>29, <1>30, <1>31, <1>32, <1>33, <1>34, <1>35 DEF Next,
     ClientStep, Connecting, Receiving, Timeout, ServerStep


(* The numbers of the calls *)
CallsShrink == /\ connection' = connection /\ numInvokes' >= numInvokes
               /\ ToSet(calls') \subseteq ToSet(calls)
               /\ HasPeer' => HasPeer

LEMMA TxnIsNumber ==
    ASSUME Types
    PROVE  /\ \A m \in ToSet(up) : m.txn \in Nat
           /\ \A m \in ToSet(In) : m.txn \in Nat
           /\ \A c \in ToSet(calls) : c.num \in Nat
           /\ numInvokes \in Nat
<1>1. ToSet(calls) \subseteq Call  BY SetOfSeq DEF Types, SessionTypes
<1>2. ToSet(up) \subseteq UpMessage /\ ToSet(In) \subseteq DownMessage
  BY InKnown DEF Types
<1> QED  BY <1>1, <1>2 DEF UpMessage, DownMessage, Call, Types, SessionTypes

LEMMA CallsStay ==
    ASSUME Types, SessionTypes', CallsKnown, UpQuiet, InQuiet, CallsShrink
    PROVE  CallsKnown'
<1>1. numInvokes' \in Nat /\ numInvokes' >= numInvokes /\ connection' = connection
  BY DEF SessionTypes, CallsShrink
<1>2. \A c \in ToSet(calls') : c \in ToSet(calls) /\ c.num \in Nat /\ c.num <= numInvokes
  BY TxnIsNumber DEF CallsShrink, CallsKnown
<1>3. \A c \in ToSet(calls') : c.num <= numInvokes'  BY <1>1, <1>2, TxnIsNumber
<1>4. ASSUME NEW m, NEW name, Awaits(m, name), m.txn \in Nat
      PROVE  Awaits(m, name)'
  <2>1. HasPeer' => m.txn <= numInvokes'
    BY <1>1, <1>4, TxnIsNumber DEF Awaits, CallsShrink
  <2>2. \A c \in ToSet(calls') : CallIs(c, name, m.txn)'
    BY <1>1, <1>2, <1>4 DEF Awaits, CallIs
  <2> QED  BY <2>1, <2>2 DEF Awaits
<1>5. ASSUME NEW m \in ToSet(up'), m.kind \in {"connect", "createStream"}
      PROVE  Awaits(m, m.kind)'
  <2>1. m \in ToSet(up)  BY <1>5 DEF UpQuiet, Command
  <2>2. Awaits(m, m.kind) /\ m.txn \in Nat
    BY <1>5, <2>1, TxnIsNumber DEF CallsKnown
  <2> QED  BY <1>4, <2>2
<1>6. ASSUME NEW m \in ToSet(In'), m.kind = "_result"
      PROVE  Awaits(m, m.of)'
  <2>1. m \in ToSet(In)  BY <1>6 DEF InQuiet, Answer
  <2>2. Awaits(m, m.of) /\ m.txn \in Nat  BY <1>6, <2>1, TxnIsNumber DEF CallsKnown
  <2> QED  BY <1>4, <2>2
<1> QED  BY <1>3, <1>5, <1>6 DEF CallsKnown

LEMMA CallsCommand ==
    ASSUME Types, CallsKnown, NEW name \in Command, AddsCommand(name, calls),
           None(up, Command), None(In', Answer), connection' = connection
    PROVE  CallsKnown'
<1>1. numInvokes' \in Nat /\ numInvokes' > numInvokes  BY DEF AddsCommand
<1>2. \A c \in ToSet(calls') :
        \/ c.num \in Nat /\ c.num <= numInvokes
        \/ c = [name |-> name, num |-> numInvokes', on |-> connection]
  BY TxnIsNumber DEF AddsCommand, CallsKnown
<1>3. \A c \in ToSet(calls') : c.num <= numInvokes'  BY <1>1, <1>2, TxnIsNumber
<1>4. \A c \in ToSet(calls') :
        c.num = numInvokes' => c = [name |-> name, num |-> numInvokes', on |-> connection]
  BY <1>1, <1>2, TxnIsNumber
<1>5. ASSUME NEW m \in ToSet(up'), m.kind \in {"connect", "createStream"}
      PROVE  Awaits(m, m.kind)'
  <2>1. m.kind = name /\ m.txn = numInvokes'
    BY <1>5 DEF AddsCommand, None, Others, Command
  <2> QED  BY <1>1, <1>4, <2>1 DEF Awaits, CallIs
<1>6. \A m \in ToSet(In') : m.kind # "_result"  BY DEF None, Answer
<1> QED  BY <1>3, <1>5, <1>6 DEF CallsKnown

LEMMA CallsAnswer ==
    ASSUME Types, CallsKnown, up # <<>>, up' = Tail(up), NEW a, AddsAnswer(a),
           a.kind = "_result" => /\ a.of = Head(up).kind /\ a.txn = Head(up).txn
                                 /\ Head(up).kind \in {"connect", "createStream"},
           UNCHANGED <<calls, numInvokes, connection, link>>
    PROVE  CallsKnown'
<1>1. /\ ToSet(up') \subseteq ToSet(up) /\ Head(up) \in ToSet(up)
  BY TakenByServer DEF Types
<1>2. \A m, name : Awaits(m, name) => Awaits(m, name)'
  BY DEF Awaits, CallIs, HasPeer
<1>3. ASSUME NEW m \in ToSet(In'), m.kind = "_result"
      PROVE  Awaits(m, m.of)'
  <2>1. m \in ToSet(In) \/ m = a  BY <1>3 DEF AddsAnswer, Answer
  <2>2. CASE m \in ToSet(In)  BY <1>2, <1>3, <2>2 DEF CallsKnown
  <2>3. CASE m = a
    <3>1. Awaits(Head(up), Head(up).kind)  BY <1>1, <1>3, <2>3 DEF CallsKnown
    <3>2. Awaits(m, m.of)  BY <1>3, <2>3, <3>1 DEF Awaits
    <3> QED  BY <1>2, <3>2
  <2> QED  BY <2>1, <2>2, <2>3
<1> QED  BY <1>1, <1>2, <1>3 DEF CallsKnown

LEMMA CallsForgotten ==
    ASSUME WireTypes, RtmpClose
    PROVE  CallsKnown'
<1>1. calls' = <<>> /\ ~HasPeer'  BY CloseDoes DEF Closed, HasPeer
<1> QED  BY <1>1, SetOfEmpty DEF CallsKnown, Awaits

LEMMA CallsShrinkStep ==
    ASSUME Types, Next
    PROVE  Loud \/ InterfaceConnects \/ RtmpClose \/ CallsShrink
<1> USE DEF At, Goto, Use, rtmpVars, linkVars, serverVars, clientVars, Receive,
           Consume, ServerReads, ConnectFailed, CallsShrink, HasPeer, Types,
           SessionTypes
<1>0. CASE NoSocket  BY <1>0 DEF NoSocket
<1>1. CASE ConnectSocket  BY <1>1 DEF ConnectSocket
<1>2. CASE InterfaceFails  BY <1>2 DEF InterfaceFails
<1>3. CASE NoInterface  BY <1>3 DEF NoInterface
<1>4. CASE SendC0C1  BY <1>4 DEF SendC0C1, CloseAndFail
<1>5. CASE ReadS0S1  BY <1>5 DEF ReadS0S1, CloseAndFail
<1>6. CASE ReadS2  BY <1>6 DEF ReadS2
<1>7. CASE AnnounceChunkSize  BY <1>7 DEF AnnounceChunkSize
<1>8. CASE Fill  BY <1>8 DEF Fill
<1>9. CASE ReceivePublishStart  BY <1>9, EraseDoes DEF ReceivePublishStart, Named
<1>10. CASE ReceiveOnBWDone  BY <1>10, InvokeOther DEF ReceiveOnBWDone
<1>11. CASE ReceiveOnbwcheck  BY <1>11 DEF ReceiveOnbwcheck
<1>12. CASE ReceiveOnbwdone  BY <1>12, EraseDoes DEF ReceiveOnbwdone, Named
<1>13. CASE ReceivePing  BY <1>13 DEF ReceivePing
<1>14. CASE ReceiveNothing  BY <1>14 DEF ReceiveNothing
<1>15. CASE StreamPlays  BY <1>15 DEF StreamPlays
<1>16. CASE SendMedia  BY <1>16 DEF SendMedia
<1>17. CASE StreamTimesOut  BY <1>17 DEF StreamTimesOut
<1>18. CASE SendTimesOut  BY <1>18 DEF SendTimesOut
<1>19. CASE ServerHandshake  BY <1>19 DEF ServerHandshake
<1>20. CASE ServeMedia  BY <1>20 DEF ServeMedia
<1>21. CASE ServeNothing  BY <1>21 DEF ServeNothing
<1>22. CASE ServerStops  BY <1>22 DEF ServerStops
<1>23. CASE Push  BY <1>23 DEF Push
<1>24. CASE PeerSays  BY <1>24 DEF PeerSays
<1>25. CASE Break  BY <1>25 DEF Break
<1>26. CASE ReadFails \/ Loop \/ HandshakeTimesOut \/ ReceiveClose
  BY <1>26 DEF ReadFails, Loop, HandshakeTimesOut, CloseAndFail, ReceiveClose
<1>27. CASE SendConnectPacket  BY <1>27 DEF Loud
<1> QED
  BY <1>0, <1>1, <1>2, <1>3, <1>4, <1>5, <1>6, <1>7, <1>8, <1>9, <1>10, <1>11, <1>12,
     <1>13, <1>14, <1>15, <1>16, <1>17, <1>18, <1>19, <1>20, <1>21, <1>22, <1>23, <1>24,
     <1>25, <1>26, <1>27 DEF Next, ClientStep, Connecting, Receiving, Timeout,
     ServerStep, Loud

LEMMA CallsKnownStep ==
    ASSUME Types, SessionTypes', WireTypes', PathKnown, PlaceKnown, CallsKnown, Next
    PROVE  CallsKnown'
<1>1. CASE SendConnectPacket /\ ~RtmpClose
  <2>1. /\ Invoke(<<>>, <<"connect">>, calls, TRUE) /\ buffered' = buffered /\ down' = down
        /\ phase = "command" /\ connection' = connection
    BY <1>1 DEF SendConnectPacket, CloseAndFail, At
  <2>2. <<>> \in Seq(Others) /\ calls \in Seq(Call)  BY DEF Types, SessionTypes
  <2>3. AddsCommand("connect", calls)  BY <2>1, <2>2, InvokeDoes DEF Command
  <2>4. None(up, Command) /\ None(In', Answer)
    BY <2>1, InSame DEF PlaceKnown, Handshaking
  <2> QED  BY <2>1, <2>3, <2>4, CallsCommand DEF Command
<1>2. CASE ReceiveResult
  <2> DEFINE r == Head(buffered)
  <2>1. /\ r \in ToSet(In) /\ r.kind = "_result"
        /\ CalledName \in {"none", "connect", "createStream"}
    BY <1>2, ResultNamed
  <2>2. /\ buffered # <<>> /\ buffered' = Tail(buffered) /\ down' = down
        /\ connection' = connection /\ link' = link
    BY <1>2 DEF ReceiveResult, Receive, Consume, At, serverVars
  <2>3. None(In', Answer)
    BY <2>1, <2>2, TakenByClient DEF Types, PathKnown, OneUnderWay, Answer
  <2>4. None(up, Command)  BY <2>1 DEF PathKnown, OneUnderWay, None, Answer
  <2> HIDE DEF r
  <2>5. CASE CalledName \in {"connect", "createStream"}
    <3>1. PICK name \in {"createStream", "publish"} : AddsCommand(name, calls)
      BY <1>2, <2>5, ResultDoes
    <3> QED  BY <2>2, <2>3, <2>4, <3>1, CallsCommand DEF Command
  <2>6. CASE CalledName = "none"
    <3>1. /\ up' = up /\ numInvokes' = numInvokes /\ ToSet(calls') \subseteq ToSet(calls)
          /\ numInvokes \in Nat
      BY <1>2, <2>6, ResultDoes DEF Types, SessionTypes
    <3>2. CallsShrink  BY <2>2, <3>1 DEF CallsShrink, HasPeer
    <3> QED  BY <2>2, <3>1, <3>2, SameIsQuiet, ReadIsQuiet, CallsStay
  <2> QED  BY <2>1, <2>5, <2>6
<1>3. CASE ServeConnect
  <2>1. /\ up # <<>> /\ up' = Tail(up) /\ Head(up).kind = "connect"
        /\ UNCHANGED <<calls, numInvokes, connection, link, buffered>>
    BY <1>3 DEF ServeConnect, ServerReads, clientVars, rtmpVars
  <2>2. PICK a : a = Result("connect", Head(up).txn, 0)  OBVIOUS
  <2>3. AddsAnswer(a)  BY <1>3, <2>2, ConnectAnswered
  <2> QED  BY <2>1, <2>2, <2>3, CallsAnswer DEF Result
<1>4. CASE ServeCreateStream
  <2>1. /\ up # <<>> /\ up' = Tail(up) /\ Head(up).kind = "createStream"
        /\ UNCHANGED <<calls, numInvokes, connection, link, buffered>>
    BY <1>4 DEF ServeCreateStream, ServerReads, clientVars, rtmpVars
  <2>2. PICK a : a = Result("createStream", Head(up).txn, server.streamId + 1)  OBVIOUS
  <2>3. AddsAnswer(a)  BY <1>4, <2>2, CreateAnswered
  <2> QED  BY <2>1, <2>2, <2>3, CallsAnswer DEF Result
<1>5. CASE ServePublish
  <2>1. /\ up # <<>> /\ up' = Tail(up) /\ Head(up).kind = "publish"
        /\ UNCHANGED <<calls, numInvokes, connection, link, buffered>>
    BY <1>5 DEF ServePublish, ServerReads, clientVars, rtmpVars
  <2>2. PICK a : a = Message("Publish.Start")  OBVIOUS
  <2>3. CASE AddsAnswer(a)  BY <2>1, <2>2, <2>3, CallsAnswer DEF Message
  <2>4. CASE UNCHANGED <<server, down, buffered>>
    <3>1. CallsShrink  BY <2>1 DEF CallsShrink, HasPeer, Types, SessionTypes
    <3> QED  BY <2>1, <2>4, <3>1, SameIsQuiet, ServingIsQuiet, CallsStay
  <2> QED  BY <1>5, <2>2, <2>3, <2>4, PublishAnswered
<1>6. CASE InterfaceConnects
  <2>1. /\ up' = <<>> /\ In' = buffered /\ UNCHANGED <<calls, numInvokes>>
        /\ None(buffered, Answer)
    BY <1>6, ConcatEmptySeq
    DEF InterfaceConnects, rtmpVars, At, PlaceKnown, In, Types, WireTypes
  <2>2. \A m \in ToSet(In') : m.kind # "_result"  BY <2>1 DEF None, Answer
  <2> QED  BY <2>1, <2>2, SetOfEmpty DEF CallsKnown
<1>7. CASE RtmpClose  BY <1>7, CallsForgotten DEF Types
<1>8. CASE UpQuiet /\ InQuiet /\ CallsShrink  BY <1>8, CallsStay
<1> QED
  BY <1>1, <1>2, <1>3, <1>4, <1>5, <1>6, <1>7, <1>8, QuietStep, CallsShrinkStep DEF
       Loud


(* The ids of the packets *)
IdsShrink == /\ streamId' = streamId /\ (HasPeer' => HasPeer)
             /\ playing' = playing
             /\ \A p \in ToSet(fifo') : \/ p \in ToSet(fifo)
                                        \/ p.stream = streamId /\ p.playing = playing
             /\ \A p \in ToSet(served') :
                  \/ p \in ToSet(served)
                  \/ \E m \in ToSet(up) : m.kind = "media" /\ m.packet = p
Closes == RtmpClose /\ UNCHANGED <<fifo, served>>

LEMMA MediaIds ==
    ASSUME IdsKnown, UpQuiet
    PROVE  \A m \in ToSet(up') : m.kind = "media" => IdIsOne(m.packet)
BY DEF IdsKnown, UpQuiet

LEMMA IdsStay ==
    ASSUME IdsKnown, UpQuiet, InQuiet, IdsShrink
    PROVE  IdsKnown'
<1>1. playing' => streamId' = 1  BY DEF IdsKnown, IdsShrink
<1>2. HasPeer' => /\ \A m \in ToSet(up') : m.kind = "publish" => streamId' = 1
                  /\ \A m \in ToSet(In') : m.kind = "Publish.Start" => streamId' = 1
  BY DEF IdsKnown, IdsShrink, UpQuiet, InQuiet, Command, Answer
<1>3. \A p \in ToSet(fifo') : IdIsOne(p)  BY DEF IdsKnown, IdsShrink, IdIsOne
<1>4. \A p \in ToSet(served') : IdIsOne(p)  BY DEF IdsKnown, IdsShrink
<1> QED  BY <1>1, <1>2, <1>3, <1>4, MediaIds DEF IdsKnown, IdIsOne

LEMMA IdsClosed ==
    ASSUME WireTypes, IdsKnown, UpQuiet, Closes
    PROVE  IdsKnown'
<1>1. ~HasPeer' /\ playing' = FALSE  BY CloseDoes DEF Closes, Closed, HasPeer
<1> QED  BY <1>1, MediaIds DEF IdsKnown, IdIsOne, Closes

LEMMA IdsCommand ==
    ASSUME IdsKnown, NEW name \in Command, AddsCommand(name, calls),
           UNCHANGED <<fifo, served>>,
           playing' = playing, HasPeer' => HasPeer,
           streamId' # 1 => streamId' = streamId /\ name # "publish" /\ None(In', Answer)
    PROVE  IdsKnown'
<1>1. playing' => streamId' = 1  BY DEF IdsKnown
<1>2. \A m \in ToSet(up') : m \in ToSet(up) \/ m.kind \in Others \/ m.kind = name
  BY DEF AddsCommand
<1>3. \A m \in ToSet(up') : m.kind = "media" => IdIsOne(m.packet)
  BY <1>2 DEF IdsKnown, Others, UpKind, Command
<1>4. HasPeer' => /\ \A m \in ToSet(up') : m.kind = "publish" => streamId' = 1
                  /\ \A m \in ToSet(In') : m.kind = "Publish.Start" => streamId' = 1
  BY <1>2 DEF IdsKnown, Others, Command, None, Answer
<1> QED  BY <1>1, <1>3, <1>4 DEF IdsKnown, IdIsOne

LEMMA IdsAnswer ==
    ASSUME Types, IdsKnown, up # <<>>, up' = Tail(up), NEW a, AddsAnswer(a),
           a.kind = "Publish.Start" => Head(up).kind = "publish",
           UNCHANGED <<streamId, playing, fifo, served, link>>
    PROVE  IdsKnown'
<1>1. ToSet(up') \subseteq ToSet(up) /\ Head(up) \in ToSet(up)
  BY TakenByServer DEF Types
<1>2. HasPeer' => /\ \A m \in ToSet(up') : m.kind = "publish" => streamId' = 1
                  /\ \A m \in ToSet(In') : m.kind = "Publish.Start" => streamId' = 1
  <2>1. HasPeer' => HasPeer  BY DEF HasPeer
  <2>2. \A x \in ToSet(In') : x \in ToSet(In) \/ x = a \/ x.kind # "Publish.Start"
    BY DEF AddsAnswer, Answer
  <2> QED  BY <1>1, <2>1, <2>2 DEF IdsKnown
<1>3. \A m \in ToSet(up') : m.kind = "media" => IdIsOne(m.packet)
  BY <1>1 DEF IdsKnown
<1> QED  BY <1>2, <1>3 DEF IdsKnown, IdIsOne


LEMMA SetOfAppend ==
    ASSUME NEW S, NEW s \in Seq(S), NEW m \in S
    PROVE  \A x \in ToSet(Append(s, m)) : x \in ToSet(s) \/ x = m
<1> DEFINE one == <<m>>
<1>1. one \in Seq(S) /\ ToSet(one) = {m} /\ Append(s, m) = s \o one
  BY SetOfOne, AppendIsConcat
<1> HIDE DEF one
<1> QED  BY <1>1, SetOfConcat

LEMMA IdsShrinkStep ==
    ASSUME Types, Next
    PROVE  Loud \/ InterfaceConnects \/ ReceivePublishStart \/ Closes \/ IdsShrink
<1> USE DEF At, Goto, Use, rtmpVars, linkVars, serverVars, clientVars, Receive,
           Consume, ServerReads, ConnectFailed, IdsShrink, HasPeer, Types, Closes
<1>0. CASE NoSocket  BY <1>0 DEF NoSocket
<1>1. CASE ConnectSocket  BY <1>1 DEF ConnectSocket
<1>2. CASE InterfaceFails  BY <1>2 DEF InterfaceFails
<1>3. CASE NoInterface  BY <1>3 DEF NoInterface
<1>4. CASE SendC0C1  BY <1>4 DEF SendC0C1, CloseAndFail
<1>5. CASE ReadS0S1  BY <1>5 DEF ReadS0S1, CloseAndFail
<1>6. CASE ReadS2  BY <1>6 DEF ReadS2
<1>7. CASE AnnounceChunkSize  BY <1>7 DEF AnnounceChunkSize
<1>8. CASE Fill  BY <1>8 DEF Fill
<1>9. CASE ReceiveOnBWDone  BY <1>9 DEF ReceiveOnBWDone
<1>10. CASE ReceiveOnbwcheck  BY <1>10 DEF ReceiveOnbwcheck
<1>11. CASE ReceiveOnbwdone  BY <1>11 DEF ReceiveOnbwdone
<1>12. CASE ReceivePing  BY <1>12 DEF ReceivePing
<1>13. CASE ReceiveNothing  BY <1>13 DEF ReceiveNothing
<1>14. CASE StreamPlays  BY <1>14 DEF StreamPlays
<1>15. CASE SendMedia  BY <1>15, SetOfTail DEF SendMedia, ThreadTypes
<1>16. CASE StreamTimesOut  BY <1>16 DEF StreamTimesOut
<1>17. CASE SendTimesOut  BY <1>17 DEF SendTimesOut
<1>18. CASE ServerHandshake  BY <1>18 DEF ServerHandshake
<1>19. CASE ServeMedia
  <2>1. /\ up # <<>> /\ Head(up).kind = "media"
        /\ served' = Append(served, Head(up).packet)
        /\ UNCHANGED <<streamId, playing, link, fifo>>
    BY <1>19 DEF ServeMedia
  <2>2. Head(up) \in ToSet(up) /\ Head(up) \in UpMessage
    BY <2>1, SetOfTail DEF WireTypes
  <2>3. Head(up).packet \in Packet  BY <2>1, <2>2 DEF UpMessage, UpKind, Command
  <2>4. \A p \in ToSet(served') : p \in ToSet(served) \/ p = Head(up).packet
    BY <2>1, <2>3, SetOfAppend DEF WireTypes
  <2> QED  BY <2>1, <2>2, <2>4
<1>20. CASE ServeNothing  BY <1>20 DEF ServeNothing
<1>21. CASE ServerStops  BY <1>21 DEF ServerStops
<1>22. CASE Push
  <2> DEFINE packet == [stream |-> streamId, playing |-> playing, on |-> connection]
  <2>1. fifo' = Append(fifo, packet) /\ UNCHANGED <<streamId, playing, link, served>>
    BY <1>22 DEF Push
  <2>2. packet \in Packet /\ packet.stream = streamId /\ packet.playing = playing
    BY DEF Packet, FlagTypes, SessionTypes, ThreadTypes
  <2> HIDE DEF packet
  <2>3. \A p \in ToSet(fifo') : p \in ToSet(fifo) \/ p = packet
    BY <2>1, <2>2, SetOfAppend DEF ThreadTypes
  <2> QED  BY <2>1, <2>2, <2>3
<1>23. CASE PeerSays  BY <1>23 DEF PeerSays
<1>24. CASE Break  BY <1>24 DEF Break
<1>25. CASE ReadFails \/ Loop \/ HandshakeTimesOut \/ ReceiveClose
  BY <1>25 DEF ReadFails, Loop, HandshakeTimesOut, CloseAndFail, ReceiveClose
<1>26. CASE SendConnectPacket  BY <1>26 DEF Loud, SendConnectPacket
<1> QED
  BY <1>0, <1>1, <1>2, <1>3, <1>4, <1>5, <1>6, <1>7, <1>8, <1>9, <1>10, <1>11, <1>12,
     <1>13, <1>14, <1>15, <1>16, <1>17, <1>18, <1>19, <1>20, <1>21, <1>22, <1>23,
     <1>24, <1>25, <1>26 DEF
     Next, ClientStep, Connecting, Receiving, Timeout, ServerStep, Loud

LEMMA IdsKnownStep ==
    ASSUME Types, WireTypes', PhaseKnown, PathKnown, PlaceKnown, CallsKnown, IdsKnown,
           Next
    PROVE  IdsKnown'
<1>1. CASE SendConnectPacket /\ ~RtmpClose
  <2>1. /\ Invoke(<<>>, <<"connect">>, calls, TRUE) /\ buffered' = buffered /\ down' = down
        /\ phase = "command" /\ UNCHANGED <<streamId, playing, fifo, served, link>>
    BY <1>1 DEF SendConnectPacket, CloseAndFail, At, serverVars
  <2>2. <<>> \in Seq(Others) /\ calls \in Seq(Call)  BY DEF Types, SessionTypes
  <2>3. AddsCommand("connect", calls)  BY <2>1, <2>2, InvokeDoes DEF Command
  <2>4. None(In', Answer)
    BY <2>1, InSame DEF PlaceKnown, Handshaking
  <2> QED  BY <2>1, <2>3, <2>4, IdsCommand DEF Command, HasPeer
<1>2. CASE ReceiveResult
  <2> DEFINE r == Head(buffered)
  <2>1. /\ r \in ToSet(In) /\ r.kind = "_result"
        /\ CalledName \in {"none", "connect", "createStream"}
        /\ CalledName # "none" => CalledName = r.of
    BY <1>2, ResultNamed
  <2>2. /\ buffered # <<>> /\ buffered' = Tail(buffered) /\ down' = down
        /\ UNCHANGED <<link, fifo, served>>
    BY <1>2 DEF ReceiveResult, Receive, Consume, At, serverVars
  <2>3. None(In', Answer)
    BY <2>1, <2>2, TakenByClient DEF Types, PathKnown, OneUnderWay, Answer
  <2>4. AnswerFits(r)  BY <2>1 DEF PathKnown
  <2>5. playing' = playing  BY <1>2, <2>1, ResultDoes
  <2>6. CASE CalledName = "connect"
    BY <1>2, <2>2, <2>3, <2>5, <2>6, ResultDoes, IdsCommand DEF Command, HasPeer
  <2>7. CASE CalledName = "createStream"
    <3>1. AddsCommand("publish", calls) /\ streamId' = r.id
      BY <1>2, <2>7, ResultDoes
    <3>2. r.id = 1  BY <2>1, <2>4, <2>7 DEF AnswerFits
    <3>3. streamId' = 1 /\ (HasPeer' => HasPeer)  BY <2>2, <3>1, <3>2 DEF HasPeer
    <3>4. AddsCommand("publish", calls)  BY <3>1
    <3>5. "publish" \in Command /\ UNCHANGED <<fifo, served>>  BY <2>2 DEF Command
    <3> QED  BY <2>5, <3>3, <3>4, <3>5, IdsCommand
  <2>8. CASE CalledName = "none"
    <3>1. up' = up /\ streamId' = streamId  BY <1>2, <2>8, ResultDoes
    <3>2. IdsShrink  BY <2>2, <2>5, <3>1 DEF IdsShrink, HasPeer
    <3> QED  BY <2>2, <3>1, <3>2, SameIsQuiet, ReadIsQuiet, IdsStay
  <2> QED  BY <2>1, <2>6, <2>7, <2>8
<1>3. CASE ServeConnect
  <2>1. /\ up # <<>> /\ up' = Tail(up) /\ Head(up).kind = "connect"
        /\ UNCHANGED <<streamId, playing, fifo, served, link, buffered>>
    BY <1>3 DEF ServeConnect, ServerReads, clientVars, rtmpVars
  <2>2. PICK a : a = Result("connect", Head(up).txn, 0)  OBVIOUS
  <2>3. AddsAnswer(a)  BY <1>3, <2>2, ConnectAnswered
  <2> QED  BY <2>1, <2>2, <2>3, IdsAnswer DEF Result
<1>4. CASE ServeCreateStream
  <2>1. /\ up # <<>> /\ up' = Tail(up) /\ Head(up).kind = "createStream"
        /\ UNCHANGED <<streamId, playing, fifo, served, link, buffered>>
    BY <1>4 DEF ServeCreateStream, ServerReads, clientVars, rtmpVars
  <2>2. PICK a : a = Result("createStream", Head(up).txn, server.streamId + 1)  OBVIOUS
  <2>3. AddsAnswer(a)  BY <1>4, <2>2, CreateAnswered
  <2> QED  BY <2>1, <2>2, <2>3, IdsAnswer DEF Result
<1>5. CASE ServePublish
  <2>1. /\ up # <<>> /\ up' = Tail(up) /\ Head(up).kind = "publish"
        /\ UNCHANGED <<streamId, playing, fifo, served, link, buffered>>
    BY <1>5 DEF ServePublish, ServerReads, clientVars, rtmpVars
  <2>2. PICK a : a = Message("Publish.Start")  OBVIOUS
  <2>3. CASE AddsAnswer(a)  BY <2>1, <2>2, <2>3, IdsAnswer DEF Message
  <2>4. CASE UNCHANGED <<server, down, buffered>>
    <3>1. IdsShrink  BY <2>1 DEF IdsShrink, HasPeer
    <3> QED  BY <2>1, <2>4, <3>1, SameIsQuiet, ServingIsQuiet, IdsStay
  <2> QED  BY <1>5, <2>2, <2>3, <2>4, PublishAnswered
<1>6. CASE InterfaceConnects
  <2>1. /\ up' = <<>> /\ In' = buffered /\ UNCHANGED <<streamId, playing, fifo>>
        /\ None(buffered, Answer) /\ served' = <<>>
    BY <1>6, ConcatEmptySeq
    DEF InterfaceConnects, rtmpVars, At, PlaceKnown, In, Types, WireTypes
  <2>2. \A m \in ToSet(In') : m.kind # "Publish.Start"  BY <2>1 DEF None, Answer
  <2> QED  BY <2>1, <2>2, SetOfEmpty DEF IdsKnown, IdIsOne
<1>7. CASE ReceivePublishStart
  <2>1. /\ buffered # <<>> /\ buffered' = Tail(buffered) /\ down' = down /\ up' = up
        /\ UNCHANGED <<streamId, link, fifo, served>> /\ phase = "stream"
        /\ Head(buffered).kind = "Publish.Start"
    BY <1>7 DEF ReceivePublishStart, Receive, Consume, At, serverVars
  <2>2. HasPeer /\ Head(buffered) \in ToSet(In) /\ ToSet(In') \subseteq ToSet(In)
    BY <2>1, TakenByClient DEF Types, PhaseKnown
  <2>3. streamId = 1  BY <2>1, <2>2 DEF IdsKnown
  <2> QED  BY <2>1, <2>3 DEF IdsKnown, IdIsOne
<1>8. CASE (UpQuiet /\ InQuiet) /\ Closes  BY <1>8, IdsClosed DEF Types
<1>9. CASE UpQuiet /\ InQuiet /\ IdsShrink  BY <1>9, IdsStay
<1> QED
  BY <1>1, <1>2, <1>3, <1>4, <1>5, <1>6, <1>7, <1>8, <1>9, QuietStep, IdsShrinkStep
       DEF Loud

-----------------------------------------------------------------------------
(* The invariant. *)

LEMMA InitSession == Init => Session
<1> SUFFICES ASSUME Init
             PROVE  Session
  OBVIOUS
<1> USE DEF Init
<1>1. In = <<>>  BY ConcatEmptySeq DEF In
<1>2. /\ <<>> \in Seq(Packet) /\ <<>> \in Seq(Call)
      /\ <<>> \in Seq(UpMessage) /\ <<>> \in Seq(DownMessage)
  OBVIOUS
<1>3. Types
  <2>1. ThreadTypes  BY <1>2 DEF ThreadTypes, Phase, Handshaking, Bounds
  <2>2. WireTypes  BY <1>2 DEF WireTypes, Server, FreshServer
  <2>3. FlagTypes  BY DEF FlagTypes
  <2>4. SessionTypes  BY <1>2 DEF SessionTypes
  <2> QED  BY <2>1, <2>2, <2>3, <2>4 DEF Types
<1>4. PhaseKnown /\ HandshakeKnown /\ PlayingKnown
  BY DEF PhaseKnown, Handshaking, HandshakeKnown, PlayingKnown
<1>5. PathKnown
  BY <1>1, SetOfEmpty, NoMessages DEF PathKnown, OneUnderWay, ServerCounts,
       FreshServer
<1>6. PlaceKnown  BY NoMessages DEF PlaceKnown, Handshaking
<1>7. CallsKnown /\ IdsKnown  BY <1>1, SetOfEmpty DEF CallsKnown, IdsKnown
<1> QED  BY <1>3, <1>4, <1>5, <1>6, <1>7 DEF Session

LEMMA SessionStays ==
    ASSUME Session, UNCHANGED vars
    PROVE  Session'
<1> USE DEF Session, vars, clientVars, rtmpVars, linkVars, serverVars
<1>1. In' = In  BY InSame
<1>2. Types'  BY DEF Types, ThreadTypes, FlagTypes, SessionTypes, WireTypes
<1>3. PhaseKnown' /\ PlayingKnown'  BY DEF PhaseKnown, PlayingKnown, HasPeer
<1>4. HandshakeKnown'  BY <1>1 DEF HandshakeKnown, None
<1>5. PathKnown'
  BY <1>1 DEF PathKnown, OneUnderWay, ServerCounts, CommandFits, AnswerFits, None,
       Once
<1>6. PlaceKnown'  BY <1>1 DEF PlaceKnown, None
<1>7. CallsKnown' /\ IdsKnown'
  BY <1>1 DEF CallsKnown, Awaits, CallIs, IdsKnown, IdIsOne, HasPeer
<1> QED  BY <1>2, <1>3, <1>4, <1>5, <1>6, <1>7

LEMMA SessionStep == Session /\ [Next]_vars => Session'
<1>1. ASSUME Session, Next
      PROVE  Session'
  <2>1. ThreadTypes' /\ FlagTypes' /\ SessionTypes' /\ WireTypes'
    BY <1>1, ThreadTypesStep, FlagTypesStep, SessionTypesStep, WireTypesStep DEF
         Session
  <2>2. Types'  BY <2>1 DEF Types
  <2>3. PhaseKnown' /\ HandshakeKnown'
    BY <1>1, <2>1, PhaseKnownStep, HandshakeKnownStep DEF Session
  <2>4. PathKnown' /\ PlaceKnown' /\ PlayingKnown'
    BY <1>1, <2>1, PathKnownStep, PlaceKnownStep, PlayingKnownStep DEF Session
  <2>5. CallsKnown' /\ IdsKnown'
    BY <1>1, <2>1, CallsKnownStep, IdsKnownStep DEF Session
  <2> QED  BY <2>2, <2>3, <2>4, <2>5 DEF Session
<1> QED  BY <1>1, SessionStays

(***************************************************************************)
(* Of RTMP_Connect, RTMP_ConnectStream and the server's readPacketThread:  *)
(* what the two sides, and what is between them, say fits together in      *)
(* every state.                                                            *)
(***************************************************************************)
THEOREM SessionInvariant == Spec => []Session
BY InitSession, SessionStep, PTL DEF Spec

(***************************************************************************)
(* Every variable has its type: whatever is received, and in whatever      *)
(* place the thread is when its connection is closed.                      *)
(***************************************************************************)
THEOREM SessionTypeCorrect == Spec => []Types
<1>1. Session => Types  BY DEF Session
<1> QED  BY <1>1, SessionInvariant, PTL

(***************************************************************************)
(* HandleInvoke takes a "_result" for the call it answers, although        *)
(* connectSocket keeps m_methodCalls and RTMP_Close starts the numbers     *)
(* over.                                                                   *)
(***************************************************************************)
THEOREM ResultsAnswerTheirCalls == Spec => []AnswersMatch
<1>1. Session => AnswersMatch
  <2> SUFFICES ASSUME Session, NEW r \in ToSet(buffered) \cup ToSet(down),
                      r.kind = "_result", Asked(r.txn) # {}
               PROVE  calls[First(Asked(r.txn))]
                        = [name |-> r.of, num |-> r.txn, on |-> connection]
    BY DEF AnswersMatch
  <2>1. r \in ToSet(In)  BY InKnown DEF Session, Types
  <2>2. \A c \in ToSet(calls) : CallIs(c, r.of, r.txn)
    BY <2>1 DEF Session, CallsKnown, Awaits
  <2> QED  BY <2>2, AskedIs DEF Session, CallIs
<1> QED  BY <1>1, SessionInvariant, PTL

(***************************************************************************)
(* m_bPlaying is only set on a connection on which the server called       *)
(* beginPublishFunc, or is left over from one, by connectSocket.           *)
(***************************************************************************)
THEOREM PlayingIsPublished == Spec => []PlayingMeansPublished
<1>1. Session => PlayingMeansPublished
  BY DEF Session, PlayingKnown, PlayingMeansPublished
<1> QED  BY <1>1, SessionInvariant, PTL

(***************************************************************************)
(* RTMP_ConnectStream never reads after a handshake that began with bytes  *)
(* of an earlier connection.                                               *)
(***************************************************************************)
THEOREM StreamReadsInSync == Spec => []ReadsInSync
<1>1. Session => ReadsInSync
  BY DEF Session, HandshakeKnown, ReadsInSync
<1> QED  BY <1>1, SessionInvariant, PTL

(***************************************************************************)
(* What videoFunc is given for a packet pushed while the client published  *)
(* bears the id of the stream that is published.                           *)
(***************************************************************************)
THEOREM WrongIdsAreOld == Spec => []StaleIdsAreOld
<1>1. Session => StaleIdsAreOld
  <2> SUFFICES ASSUME Session, NEW p \in ToSet(served), p.playing, server.begun # 0
               PROVE  p.stream = server.streamId
    BY DEF StaleIdsAreOld
  <2>1. p.stream = 1  BY DEF Session, IdsKnown, IdIsOne
  <2>2. server \in Server /\ ServerCounts
    BY DEF Session, Types, WireTypes, PathKnown
  <2>3. server.streamId = 1  BY <2>2 DEF Server, ServerCounts
  <2> QED  BY <2>1, <2>3
<1> QED  BY <1>1, SessionInvariant, PTL
-----------------------------------------------------------------------------
(* The order of the commands. *)

LEMMA StagesNamed ==
    /\ CountsAre(0, 0, 0) => stageOf = "open"
    /\ CountsAre(1, 0, 0) => stageOf = "connected"
    /\ CountsAre(1, 1, 0) => stageOf = "created"
    /\ CountsAre(1, 1, 1) => stageOf = "published"
BY DEF CountsAre, stageOf

LEMMA StagesNamedNext ==
    /\ CountsAre(0, 0, 0)' => stageOf' = "open"
    /\ CountsAre(1, 0, 0)' => stageOf' = "connected"
    /\ CountsAre(1, 1, 0)' => stageOf' = "created"
    /\ CountsAre(1, 1, 1)' => stageOf' = "published"
BY DEF CountsAre, stageOf

LEMMA StageStays ==
    ASSUME SameCounts
    PROVE  stageOf' = stageOf
BY DEF SameCounts, stageOf

LEMMA StageStep ==
    ASSUME Session, Next
    PROVE  Protocol!PPNext \/ stageOf' = stageOf
<1>1. CASE SameCounts  BY <1>1, StageStays
<1>2. CASE InterfaceConnects
  <2>1. CountsAre(0, 0, 0)'
    BY <1>2 DEF InterfaceConnects, FreshServer, CountsAre
  <2> QED  BY <2>1, StagesNamedNext DEF Protocol!PPNext, Protocol!Reconnect
<1>3. CASE SendConnectPacket \/ ReceiveResult
  <2>1. server' = server
    BY <1>3 DEF SendConnectPacket, ReceiveResult, Receive, serverVars
  <2> QED  BY <2>1, StageStays DEF SameCounts
<1>4. CASE ServeConnect
  <2>1. stageOf = "open" /\ stageOf' = "connected"
    BY <1>4, ConnectServed, StagesNamed, StagesNamedNext DEF Session
  <2> QED  BY <2>1 DEF Protocol!PPNext, Protocol!Command
<1>5. CASE ServeCreateStream
  <2>1. stageOf = "connected" /\ stageOf' = "created"
    BY <1>5, CreateServed, StagesNamed, StagesNamedNext DEF Session
  <2> QED  BY <2>1 DEF Protocol!PPNext, Protocol!Command
<1>6. CASE ServePublish
  <2>1. CASE UNCHANGED server  BY <2>1, StageStays DEF SameCounts
  <2>2. CASE CountsAre(1, 1, 1)'
    <3>1. stageOf = "created" /\ stageOf' = "published"
      BY <1>6, <2>2, PublishServed, StagesNamed, StagesNamedNext DEF Session
    <3> QED  BY <3>1 DEF Protocol!PPNext, Protocol!Command
  <2> QED  BY <1>6, <2>1, <2>2, PublishServed DEF Session
<1> QED  BY <1>1, <1>2, <1>3, <1>4, <1>5, <1>6, CountsStep DEF Loud, Session

(***************************************************************************)
(* ServeInvoke's view of a connection implements PublishProtocol: the      *)
(* client's commands come in order and once, on every connection,          *)
(* whatever was lost on the one before.                                    *)
(***************************************************************************)
THEOREM ProtocolIsImplemented == Spec => ImplementsProtocol
<1>1. Init => Protocol!PPInit
  <2>1. Init => CountsAre(0, 0, 0)  BY DEF Init, FreshServer, CountsAre
  <2> QED  BY <2>1, StagesNamed DEF Protocol!PPInit
<1>2. Session /\ [Next]_vars => [Protocol!PPNext]_stageOf
  <2>1. ASSUME UNCHANGED vars
        PROVE  stageOf' = stageOf
    <3>1. server' = server  BY <2>1 DEF vars, serverVars
    <3> QED  BY <3>1, StageStays DEF SameCounts
  <2> QED  BY <2>1, StageStep
<1> QED
  BY <1>1, <1>2, SessionInvariant, PTL DEF Spec, ImplementsProtocol, Protocol!PPSpec
=============================================================================

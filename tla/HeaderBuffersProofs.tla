------------------------- MODULE HeaderBuffersProofs ------------------------
(***************************************************************************)
(* Proofs about HeaderBuffers: for every series of frames, whatever the    *)
(* lengths of their parameter sets, and every interleaving of the accesses *)
(* of the two threads, which sets the header packet joins and when it is   *)
(* left out.                                                               *)
(***************************************************************************)
EXTENDS HeaderBuffers, TLAPS

(* where the application's thread is not at the buffers                    *)
Quiet == {"idle", "push", "clear", "flags", "close"}
Clearing == {"freeSps", "nullSps", "freePps", "nullPps"}
StoringSps == {"searchSps", "mallocSps", "copySps"}
StoringPps == {"searchPps", "mallocPps", "copyPps"}

(* where the sender is in getSpsAndPps and after it *)
Checking == {"checkSps", "checkSpsSize", "checkPps", "checkPpsSize"}
PackingSps == {"argsSps", "argSps", "argSpsSize", "packSps"}
PackingPps == {"argsPps", "argPps", "argPpsSize", "packPps"}
Making == Checking \cup PackingSps \cup PackingPps \cup {"sizeSps", "sizePps", "sendSps"}

Status == {"none", "raw", "filled", "freed"}
FrameOrNone == 0..MaxFrames

(* what a packet may have where a set belongs: a frame's, zeros or noise   *)
Part == -1..MaxFrames
Parts == [sps : Part, pps : Part]

FeederTypes ==
    /\ feeder \in Quiet \cup Clearing \cup StoringSps \cup StoringPps
    /\ task \in {"store", "pps", "reset"}
    /\ frame \in FrameOrNone
    /\ given \in [sps : FrameOrNone, pps : FrameOrNone]
    /\ sps \in FrameOrNone /\ spsSize \in Nat
    /\ pps \in FrameOrNone /\ ppsSize \in Nat
    /\ spsBuf \in [Frame -> Status] /\ ppsBuf \in [Frame -> Status]
    /\ restarts \in Nat

SenderTypes ==
    /\ sender \in {"loop", "clearFlags", "send", "flagSps"} \cup Making
    /\ room \in Int /\ arg \in FrameOrNone /\ argSize \in Nat
    /\ parts \in Parts
    /\ header \in Parts \cup {Unsent}
    /\ connections \in Nat

FlagTypes ==
    /\ video \in BOOLEAN /\ hasSendSps \in BOOLEAN /\ open \in BOOLEAN
    /\ overlap \in BOOLEAN /\ excused \in BOOLEAN /\ resumed \in BOOLEAN
    /\ corrupt \in BOOLEAN

Types == FeederTypes /\ SenderTypes /\ FlagTypes
-----------------------------------------------------------------------------
(* The application's thread: a set is there as it was given, or is not     *)
(* there, with its size, when the thread is elsewhere.                     *)

SpsWhole == /\ sps = given.sps
            /\ sps = 0 => spsSize = 0
            /\ sps # 0 => spsBuf[sps] = "filled" /\ spsSize = SpsLen[sps] /\ spsSize > 0
PpsWhole == /\ pps = given.pps
            /\ pps = 0 => ppsSize = 0
            /\ pps # 0 => ppsBuf[pps] = "filled" /\ ppsSize = PpsLen[pps] /\ ppsSize > 0

BuffersKnown ==
    /\ feeder \in Quiet => SpsWhole /\ PpsWhole
    /\ feeder \in Clearing =>
         /\ pps = 0 => ppsSize = 0
         /\ task = "store" => frame # 0 /\ SpsLen[frame] > 0
         /\ task = "pps" => frame # 0 /\ PpsLen[frame] > 0 /\ SpsWhole
         /\ task = "reset" => given = NoParts
    /\ feeder \in {"freeSps", "nullSps"} => task # "pps" /\ (sps = 0 => spsSize = 0)
    /\ feeder \in {"freePps", "nullPps"} /\ task # "pps" => sps = 0 /\ spsSize = 0
    /\ feeder \in StoringSps =>
         /\ frame # 0 /\ SpsLen[frame] > 0 /\ pps = 0 /\ ppsSize = 0
         /\ feeder # "searchSps" => spsSize = SpsLen[frame]
         /\ feeder = "copySps" => sps = frame
    /\ feeder \in StoringPps =>
         /\ frame # 0 /\ PpsLen[frame] > 0 /\ SpsWhole
         /\ feeder # "searchPps" => ppsSize = PpsLen[frame]
         /\ feeder = "copyPps" => pps = frame
         /\ feeder # "copyPps" => pps = 0
    /\ ~overlap => feeder \in Quiet

(* The sender, while the application's thread stays away from the buffers: *)
(* what it has checked and copied is what was given.                       *)
MakesWhatWasGiven ==
    /\ ~overlap /\ sender \in Making =>
         /\ sender \notin {"checkSps"} => sps # 0
         /\ sender \notin Checking => pps # 0
         /\ sender = "checkPpsSize" => pps # 0
    /\ ~overlap /\ sender = "sizePps" => room = spsSize
    /\ ~overlap /\ sender \in PackingSps => room = spsSize + ppsSize
    /\ ~overlap /\ sender \in PackingPps => room = ppsSize /\ parts.sps = sps
    /\ ~overlap /\ sender \in {"argSpsSize", "packSps"} => arg = sps
    /\ ~overlap /\ sender \in {"argSps", "packSps"} => argSize = spsSize
    /\ ~overlap /\ sender \in {"argPpsSize", "packPps"} => arg = pps
    /\ ~overlap /\ sender \in {"argPps", "packPps"} => argSize = ppsSize
    /\ ~overlap /\ sender = "sendSps" => parts = given

(* A PPS that is there is as young as every SPS that was there since.      *)
YoungEnough(f) == f <= frame /\ (pps # 0 => f <= pps)
NeverOlder ==
    /\ pps <= frame /\ YoungEnough(sps)
    /\ sender \in {"argSpsSize", "packSps"} => YoungEnough(arg)
    /\ sender \in PackingSps => parts = NoParts
    /\ sender \in PackingPps => YoungEnough(parts.sps) /\ parts.pps = 0
    /\ sender \in {"argPpsSize", "packPps"} => arg = 0 \/ parts.sps <= arg
    /\ sender \in {"sendSps", "flagSps"} /\ parts.sps > 0 /\ parts.pps > 0
         => parts.sps <= parts.pps
    /\ PpsNeverOlder

(* Nothing but the flag lets the sender pass by the header.                *)
HeaderExcused ==
    /\ open /\ header = Unsent /\ (sender = "send" \/ (hasSendSps /\ sender # "clearFlags"))
         => excused \/ resumed
    /\ sender = "flagSps" => header # Unsent

(* A video packet is sent with the flag set, unless a reset has cleared it *)
(* and is about to close the connection; and so a connection that is       *)
(* opened when the packet times out keeps it.                              *)
ResumedKeepsFlag ==
    /\ open /\ (resumed \/ sender = "send") => hasSendSps \/ feeder = "close"
    /\ open /\ resumed /\ sender \in Making => feeder = "close"
    /\ resumed => sender # "clearFlags"
-----------------------------------------------------------------------------
(* The initial states, and every step *)

(***************************************************************************)
(* The initial states satisfy the types and the invariants.                *)
(***************************************************************************)
LEMMA InitAll == HeadersInit => /\ Types /\ BuffersKnown /\ MakesWhatWasGiven
                                /\ NeverOlder /\ HeaderExcused /\ ResumedKeepsFlag
<1> SUFFICES ASSUME HeadersInit
             PROVE  /\ Types /\ BuffersKnown /\ MakesWhatWasGiven
                    /\ NeverOlder /\ HeaderExcused /\ ResumedKeepsFlag
  OBVIOUS
<1> USE FramesAssumption DEF HeadersInit, NoParts, Unsent
<1>1. FeederTypes
  BY DEF FeederTypes, Quiet, FrameOrNone, Frame, Status
<1>2. SenderTypes
  BY DEF SenderTypes, FrameOrNone, Parts, Part
<1>3. Types
  BY <1>1, <1>2 DEF Types, FlagTypes
<1>4. BuffersKnown
  BY DEF BuffersKnown, SpsWhole, PpsWhole, Quiet, Clearing, StoringSps, StoringPps
<1>5. MakesWhatWasGiven
  BY DEF MakesWhatWasGiven, Making, Checking, PackingSps, PackingPps
<1>6. NeverOlder
  BY DEF NeverOlder, YoungEnough, PackingSps, PackingPps, PpsNeverOlder
<1>7. HeaderExcused
  BY DEF HeaderExcused
<1>8. ResumedKeepsFlag
  BY DEF ResumedKeepsFlag, Making, Checking, PackingSps, PackingPps
<1> QED BY <1>3, <1>4, <1>5, <1>6, <1>7, <1>8

(***************************************************************************)
(* What PackSps may do: pass by an empty buffer, copy it, or go wrong.     *)
(***************************************************************************)
LEMMA PackSpsDoes ==
    ASSUME Types, PackSps
    PROVE  /\ sender = "packSps" /\ room' \in Int
           /\ UNCHANGED <<feederVars, bufferVars, video, hasSendSps, wireVars, overlap,
                          excused, resumed, arg, argSize>>
           /\ \/ /\ arg = 0 \/ argSize = 0
                 /\ sender' = "sendSps" /\ UNCHANGED <<room, parts, corrupt>>
              \/ /\ arg # 0 /\ argSize > 0 /\ spsBuf[arg] # "freed" /\ argSize <= room + 3
                 /\ sender' = "argsPps" /\ room' = room - argSize /\ UNCHANGED corrupt
                 /\ parts' \in Parts /\ parts'.pps = parts.pps
                 /\ parts'.sps = IF spsBuf[arg] = "filled" /\ argSize = SpsLen[arg]
                                   THEN arg ELSE -1
              \/ /\ arg # 0 /\ argSize > 0 /\ (spsBuf[arg] = "freed" \/ argSize > room + 3)
                 /\ corrupt' = TRUE /\ UNCHANGED <<sender, room, parts>>
<1> USE DEF PackSps, SenderAt, Reads, Contents, Corrupts, feederVars, bufferVars,
            packetVars, wireVars
<1>4. arg \in Int /\ argSize \in Nat /\ room \in Int
  BY FramesAssumption DEF Types, SenderTypes, FrameOrNone
<1>1. CASE arg = 0 \/ argSize = 0
  BY <1>1, <1>4
<1>2. CASE arg # 0 /\ argSize > 0 /\ spsBuf[arg] # "freed" /\ argSize <= room + 3
  <2>1. parts \in Parts /\ arg \in Part /\ -1 \in Part
    BY FramesAssumption DEF Types, SenderTypes, FrameOrNone, Part
  <2>2. /\ parts' = [parts EXCEPT !.sps = Contents(spsBuf, SpsLen)]
        /\ sender' = "argsPps" /\ room' = room - argSize /\ UNCHANGED corrupt
    BY <1>2, <1>4
  <2>3. Contents(spsBuf, SpsLen) \in Part
    BY <2>1
  <2> HIDE DEF Contents
  <2>4. parts' \in Parts /\ parts'.pps = parts.pps /\ parts'.sps = Contents(spsBuf, SpsLen)
    BY <2>1, <2>2, <2>3 DEF Parts
  <2> QED BY <1>2, <1>4, <2>2, <2>4 DEF Contents
<1>3. CASE arg # 0 /\ argSize > 0 /\ (spsBuf[arg] = "freed" \/ argSize > room + 3)
  BY <1>3, <1>4
<1> QED BY <1>1, <1>2, <1>3, <1>4

LEMMA PackSpsCopies ==
    ASSUME Types, PackSps, arg # 0, argSize > 0, spsBuf[arg] = "filled",
           argSize = SpsLen[arg], argSize <= room + 3
    PROVE  /\ UNCHANGED <<feederVars, bufferVars, overlap>>
           /\ sender' = "argsPps" /\ room' = room - argSize
           /\ parts' \in Parts /\ parts'.pps = parts.pps /\ parts'.sps = arg
<1>1. arg \in Int /\ argSize \in Nat /\ room \in Int
  BY FramesAssumption DEF Types, SenderTypes, FrameOrNone
<1>2. /\ ~(arg = 0 \/ argSize = 0)
      /\ ~(arg # 0 /\ argSize > 0 /\ (spsBuf[arg] = "freed" \/ argSize > room + 3))
  BY <1>1
<1> QED BY <1>2, PackSpsDoes

(***************************************************************************)
(* What PackPps may do: pass by an empty buffer, copy it, or go wrong.     *)
(***************************************************************************)
LEMMA PackPpsDoes ==
    ASSUME Types, PackPps
    PROVE  /\ sender = "packPps" /\ room' \in Int
           /\ UNCHANGED <<feederVars, bufferVars, video, hasSendSps, wireVars, overlap,
                          excused, resumed, arg, argSize>>
           /\ \/ /\ arg = 0 \/ argSize = 0
                 /\ sender' = "sendSps" /\ UNCHANGED <<room, parts, corrupt>>
              \/ /\ arg # 0 /\ argSize > 0 /\ ppsBuf[arg] # "freed" /\ argSize <= room
                 /\ sender' = "sendSps" /\ room' = room /\ UNCHANGED corrupt
                 /\ parts' \in Parts /\ parts'.sps = parts.sps
                 /\ parts'.pps = IF ppsBuf[arg] = "filled" /\ argSize = PpsLen[arg]
                                   THEN arg ELSE -1
              \/ /\ arg # 0 /\ argSize > 0 /\ (ppsBuf[arg] = "freed" \/ argSize > room)
                 /\ corrupt' = TRUE /\ UNCHANGED <<sender, room, parts>>
<1> USE DEF PackPps, SenderAt, Reads, Contents, Corrupts, feederVars, bufferVars,
            packetVars, wireVars
<1>4. arg \in Int /\ argSize \in Nat /\ room \in Int
  BY FramesAssumption DEF Types, SenderTypes, FrameOrNone
<1>1. CASE arg = 0 \/ argSize = 0
  BY <1>1, <1>4
<1>2. CASE arg # 0 /\ argSize > 0 /\ ppsBuf[arg] # "freed" /\ argSize <= room
  <2>1. parts \in Parts /\ arg \in Part /\ -1 \in Part
    BY FramesAssumption DEF Types, SenderTypes, FrameOrNone, Part
  <2>2. /\ parts' = [parts EXCEPT !.pps = Contents(ppsBuf, PpsLen)]
        /\ sender' = "sendSps" /\ room' = room /\ UNCHANGED corrupt
    BY <1>2, <1>4
  <2>3. Contents(ppsBuf, PpsLen) \in Part
    BY <2>1
  <2> HIDE DEF Contents
  <2>4. parts' \in Parts /\ parts'.sps = parts.sps /\ parts'.pps = Contents(ppsBuf, PpsLen)
    BY <2>1, <2>2, <2>3 DEF Parts
  <2> QED BY <1>2, <1>4, <2>2, <2>4 DEF Contents
<1>3. CASE arg # 0 /\ argSize > 0 /\ (ppsBuf[arg] = "freed" \/ argSize > room)
  BY <1>3, <1>4
<1> QED BY <1>1, <1>2, <1>3, <1>4

LEMMA PackPpsCopies ==
    ASSUME Types, PackPps, arg # 0, argSize > 0, ppsBuf[arg] = "filled",
           argSize = PpsLen[arg], argSize <= room
    PROVE  /\ UNCHANGED <<feederVars, bufferVars, overlap>>
           /\ sender' = "sendSps" /\ room' = room
           /\ parts' \in Parts /\ parts'.sps = parts.sps /\ parts'.pps = arg
<1>1. arg \in Int /\ argSize \in Nat /\ room \in Int
  BY FramesAssumption DEF Types, SenderTypes, FrameOrNone
<1>2. /\ ~(arg = 0 \/ argSize = 0)
      /\ ~(arg # 0 /\ argSize > 0 /\ (ppsBuf[arg] = "freed" \/ argSize > room))
  BY <1>1
<1> QED BY <1>2, PackPpsDoes

(***************************************************************************)
(* Every step keeps the types of what the application's thread writes,     *)
(***************************************************************************)
LEMMA FeederTypeStep ==
    ASSUME Types, BuffersKnown, [HeadersNext]_headerVars
    PROVE  FeederTypes'
<1> USE FramesAssumption
<1> USE DEF Types, FeederTypes, headerVars, bufferVars, packetVars,
            wireVars, feederVars, FeederAt, Changes, Begin, AfterClearing,
            SenderAt, Reads
<1>1. CASE StoreBegins
  BY <1>1
  DEF StoreBegins, FrameOrNone, Frame, Status, Quiet, Clearing, StoringSps,
      StoringPps
<1>2. CASE PpsBegins
  BY <1>2
  DEF PpsBegins, FrameOrNone, Frame, Status, Quiet, Clearing, StoringSps,
      StoringPps
<1>3. CASE ResetBegins
  BY <1>3 DEF ResetBegins, FrameOrNone, NoParts, Clearing
<1>4. CASE FreeSps
  BY <1>4
  DEF FreeSps, FrameOrNone, Frame, Status, Quiet, Clearing, StoringSps,
      StoringPps
<1>5. CASE NullSps
  BY <1>5, SMTT(30)
  DEF NullSps, FrameOrNone, Frame, Status, Quiet, Clearing, StoringSps,
      StoringPps
<1>6. CASE FreePps
  BY <1>6
  DEF FreePps, FrameOrNone, Frame, Status, Quiet, Clearing, StoringSps,
      StoringPps
<1>7. CASE NullPps
  BY <1>7
  DEF NullPps, FrameOrNone, Frame, Status, Quiet, Clearing, StoringSps,
      StoringPps
<1>8. CASE SearchSps
  BY <1>8
  DEF SearchSps, FrameOrNone, Frame, Status, Quiet, Clearing, StoringSps,
      StoringPps, BuffersKnown
<1>9. CASE MallocSps
  BY <1>9
  DEF MallocSps, FrameOrNone, Frame, Status, Quiet, Clearing, StoringSps,
      StoringPps, BuffersKnown
<1>10. CASE CopySps
  BY <1>10
  DEF CopySps, FrameOrNone, Frame, Status, Quiet, Clearing, StoringSps,
      StoringPps, BuffersKnown
<1>11. CASE SearchPps
  BY <1>11
  DEF SearchPps, FrameOrNone, Frame, Status, Quiet, Clearing, StoringSps,
      StoringPps, BuffersKnown
<1>12. CASE MallocPps
  BY <1>12
  DEF MallocPps, FrameOrNone, Frame, Status, Quiet, Clearing, StoringSps,
      StoringPps, BuffersKnown
<1>13. CASE CopyPps
  BY <1>13
  DEF CopyPps, FrameOrNone, Frame, Status, Quiet, Clearing, StoringSps,
      StoringPps, BuffersKnown
<1>14. CASE Push
  BY <1>14
  DEF Push, FrameOrNone, Frame, Status, Quiet, Clearing, StoringSps,
      StoringPps
<1>15. CASE ResetClear
  BY <1>15
  DEF ResetClear, FrameOrNone, Frame, Status, Quiet, Clearing, StoringSps,
      StoringPps
<1>16. CASE ResetFlags
  BY <1>16
  DEF ResetFlags, FrameOrNone, Frame, Status, Quiet, Clearing, StoringSps,
      StoringPps
<1>17. CASE ResetClose
  BY <1>17
  DEF ResetClose, FrameOrNone, Frame, Status, Quiet, Clearing, StoringSps,
      StoringPps
<1>18. CASE ConnectStream
  BY <1>18 DEF ConnectStream
<1>19. CASE ClearFlags
  BY <1>19 DEF ClearFlags
<1>20. CASE Look
  BY <1>20 DEF Look
<1>21. CASE GetSpsAndPps
  BY <1>21 DEF GetSpsAndPps, Check, NoPacket
<1>22. CASE SizeSps
  BY <1>22 DEF SizeSps
<1>23. CASE SizePps
  BY <1>23 DEF SizePps
<1>24. CASE ArgumentsSps
  BY <1>24 DEF ArgumentsSps, Argument
<1>25. CASE PackSps
  BY <1>25, PackSpsDoes
<1>26. CASE ArgumentsPps
  BY <1>26 DEF ArgumentsPps, Argument
<1>27. CASE PackPps
  BY <1>27, PackPpsDoes
<1>28. CASE SendHeader
  BY <1>28 DEF SendHeader
<1>29. CASE SetFlag
  BY <1>29 DEF SetFlag
<1>30. CASE SendVideo
  BY <1>30 DEF SendVideo
<1>31. CASE SendTimesOut
  BY <1>31 DEF SendTimesOut
<1>32. CASE UNCHANGED headerVars
  BY <1>32
<1> QED
  BY <1>1, <1>2, <1>3, <1>4, <1>5, <1>6, <1>7, <1>8, <1>9, <1>10, <1>11,
     <1>12, <1>13, <1>14, <1>15, <1>16, <1>17, <1>18, <1>19, <1>20, <1>21,
     <1>22, <1>23, <1>24, <1>25, <1>26, <1>27, <1>28, <1>29, <1>30, <1>31, <1>32
  DEF HeadersNext, FeederAccess, SenderAccess, HeadersEnded

(***************************************************************************)
(* of what the sender writes,                                              *)
(***************************************************************************)
LEMMA SenderTypeStep ==
    ASSUME Types, [HeadersNext]_headerVars
    PROVE  SenderTypes'
<1> USE FramesAssumption
<1> USE DEF Types, FeederTypes, SenderTypes, headerVars, bufferVars,
            packetVars, wireVars, feederVars, FeederAt, Changes, Begin,
            AfterClearing, SenderAt, Reads
<1>1. CASE StoreBegins
  BY <1>1 DEF StoreBegins
<1>2. CASE PpsBegins
  BY <1>2 DEF PpsBegins
<1>3. CASE ResetBegins
  BY <1>3 DEF ResetBegins
<1>4. CASE FreeSps
  BY <1>4 DEF FreeSps
<1>5. CASE NullSps
  BY <1>5 DEF NullSps
<1>6. CASE FreePps
  BY <1>6 DEF FreePps
<1>7. CASE NullPps
  BY <1>7 DEF NullPps
<1>8. CASE SearchSps
  BY <1>8 DEF SearchSps
<1>9. CASE MallocSps
  BY <1>9 DEF MallocSps
<1>10. CASE CopySps
  BY <1>10 DEF CopySps
<1>11. CASE SearchPps
  BY <1>11 DEF SearchPps
<1>12. CASE MallocPps
  BY <1>12 DEF MallocPps
<1>13. CASE CopyPps
  BY <1>13 DEF CopyPps
<1>14. CASE Push
  BY <1>14 DEF Push
<1>15. CASE ResetClear
  BY <1>15 DEF ResetClear
<1>16. CASE ResetFlags
  BY <1>16 DEF ResetFlags
<1>17. CASE ResetClose
  BY <1>17 DEF ResetClose
<1>18. CASE ConnectStream
  BY <1>18 DEF ConnectStream, Unsent
<1>19. CASE ClearFlags
  BY <1>19 DEF ClearFlags, FrameOrNone, Checking, PackingSps, PackingPps, Making
<1>20. CASE Look
  BY <1>20 DEF Look, FrameOrNone, Checking, PackingSps, PackingPps, Making
<1>21. CASE GetSpsAndPps
  BY <1>21
  DEF GetSpsAndPps, Check, NoPacket, FrameOrNone, Checking, PackingSps,
      PackingPps, Making
<1>22. CASE SizeSps
  BY <1>22 DEF SizeSps, FrameOrNone, Checking, PackingSps, PackingPps, Making
<1>23. CASE SizePps
  BY <1>23
  DEF SizePps, FrameOrNone, Checking, PackingSps, PackingPps, Making,
      Parts, Part, NoParts
<1>24. CASE ArgumentsSps
  BY <1>24
  DEF ArgumentsSps, Argument, FrameOrNone, Checking, PackingSps,
      PackingPps, Making
<1>25. CASE PackSps
  <2>0. argSize \in Int /\ room \in Int /\ parts \in Parts
    OBVIOUS
  <2> HIDE DEF Types, FeederTypes, SenderTypes
  <2>1. /\ sender' \in {"packSps", "argsPps", "sendSps"}
        /\ UNCHANGED <<arg, argSize, header, connections>>
        /\ parts' \in Parts /\ room' \in Int
    BY <1>25, <2>0, PackSpsDoes
  <2> QED BY <2>1 DEF Types, SenderTypes, Making, PackingSps, PackingPps
<1>26. CASE ArgumentsPps
  BY <1>26
  DEF ArgumentsPps, Argument, FrameOrNone, Checking, PackingSps,
      PackingPps, Making
<1>27. CASE PackPps
  <2>0. argSize \in Int /\ room \in Int /\ parts \in Parts
    OBVIOUS
  <2> HIDE DEF Types, FeederTypes, SenderTypes
  <2>1. /\ sender' \in {"packPps", "argsPps", "sendSps"}
        /\ UNCHANGED <<arg, argSize, header, connections>>
        /\ parts' \in Parts /\ room' \in Int
    BY <1>27, <2>0, PackPpsDoes
  <2> QED BY <2>1 DEF Types, SenderTypes, Making, PackingSps, PackingPps
<1>28. CASE SendHeader
  BY <1>28 DEF SendHeader, FrameOrNone, Checking, PackingSps, PackingPps, Making
<1>29. CASE SetFlag
  BY <1>29 DEF SetFlag, FrameOrNone, Checking, PackingSps, PackingPps, Making
<1>30. CASE SendVideo
  BY <1>30 DEF SendVideo, FrameOrNone, Checking, PackingSps, PackingPps, Making
<1>31. CASE SendTimesOut
  BY <1>31 DEF SendTimesOut, FrameOrNone, Checking, PackingSps, PackingPps, Making, Unsent
<1>32. CASE UNCHANGED headerVars
  BY <1>32
<1> QED
  BY <1>1, <1>2, <1>3, <1>4, <1>5, <1>6, <1>7, <1>8, <1>9, <1>10, <1>11,
     <1>12, <1>13, <1>14, <1>15, <1>16, <1>17, <1>18, <1>19, <1>20, <1>21,
     <1>22, <1>23, <1>24, <1>25, <1>26, <1>27, <1>28, <1>29, <1>30, <1>31, <1>32
  DEF HeadersNext, FeederAccess, SenderAccess, HeadersEnded

(***************************************************************************)
(* and of what has the value TRUE or FALSE.                                *)
(***************************************************************************)
LEMMA FlagTypeStep ==
    ASSUME Types, [HeadersNext]_headerVars
    PROVE  FlagTypes'
<1> USE FramesAssumption
<1> USE DEF Types, FlagTypes, headerVars, bufferVars, packetVars, wireVars,
            feederVars, FeederAt, Changes, Begin, AfterClearing, SenderAt,
            Reads
<1>1. CASE StoreBegins
  BY <1>1 DEF StoreBegins
<1>2. CASE PpsBegins
  BY <1>2 DEF PpsBegins
<1>3. CASE ResetBegins
  BY <1>3 DEF ResetBegins
<1>4. CASE FreeSps
  BY <1>4 DEF FreeSps
<1>5. CASE NullSps
  BY <1>5 DEF NullSps
<1>6. CASE FreePps
  BY <1>6 DEF FreePps
<1>7. CASE NullPps
  BY <1>7 DEF NullPps
<1>8. CASE SearchSps
  BY <1>8 DEF SearchSps
<1>9. CASE MallocSps
  BY <1>9 DEF MallocSps
<1>10. CASE CopySps
  BY <1>10 DEF CopySps
<1>11. CASE SearchPps
  BY <1>11 DEF SearchPps
<1>12. CASE MallocPps
  BY <1>12 DEF MallocPps
<1>13. CASE CopyPps
  BY <1>13 DEF CopyPps
<1>14. CASE Push
  BY <1>14 DEF Push
<1>15. CASE ResetClear
  BY <1>15 DEF ResetClear
<1>16. CASE ResetFlags
  BY <1>16 DEF ResetFlags
<1>17. CASE ResetClose
  BY <1>17 DEF ResetClose
<1>18. CASE ConnectStream
  BY <1>18 DEF ConnectStream
<1>19. CASE ClearFlags
  BY <1>19 DEF ClearFlags
<1>20. CASE Look
  BY <1>20 DEF Look
<1>21. CASE GetSpsAndPps
  BY <1>21 DEF GetSpsAndPps, Check, NoPacket
<1>22. CASE SizeSps
  BY <1>22 DEF SizeSps
<1>23. CASE SizePps
  BY <1>23 DEF SizePps
<1>24. CASE ArgumentsSps
  BY <1>24 DEF ArgumentsSps, Argument
<1>25. CASE PackSps
  BY <1>25, PackSpsDoes
<1>26. CASE ArgumentsPps
  BY <1>26 DEF ArgumentsPps, Argument
<1>27. CASE PackPps
  BY <1>27, PackPpsDoes
<1>28. CASE SendHeader
  BY <1>28 DEF SendHeader
<1>29. CASE SetFlag
  BY <1>29 DEF SetFlag
<1>30. CASE SendVideo
  BY <1>30 DEF SendVideo
<1>31. CASE SendTimesOut
  BY <1>31 DEF SendTimesOut
<1>32. CASE UNCHANGED headerVars
  BY <1>32
<1> QED
  BY <1>1, <1>2, <1>3, <1>4, <1>5, <1>6, <1>7, <1>8, <1>9, <1>10, <1>11,
     <1>12, <1>13, <1>14, <1>15, <1>16, <1>17, <1>18, <1>19, <1>20, <1>21,
     <1>22, <1>23, <1>24, <1>25, <1>26, <1>27, <1>28, <1>29, <1>30, <1>31, <1>32
  DEF HeadersNext, FeederAccess, SenderAccess, HeadersEnded

(***************************************************************************)
(* Every step leaves the buffers as the application's thread knows them: the *)
(* sender only reads them.                                                 *)
(***************************************************************************)
LEMMA BuffersStep ==
    ASSUME Types, BuffersKnown, [HeadersNext]_headerVars
    PROVE  BuffersKnown'
<1> USE FramesAssumption
<1> USE DEF Types, FeederTypes, FrameOrNone, Frame, Status, NoParts,
            BuffersKnown, SpsWhole, PpsWhole, headerVars, bufferVars,
            packetVars, wireVars, feederVars, FeederAt, Changes, Begin,
            AfterClearing, SenderAt, Reads, Quiet, Clearing, StoringSps,
            StoringPps
<1>1. CASE StoreBegins
  BY <1>1 DEF StoreBegins
<1>2. CASE PpsBegins
  BY <1>2 DEF PpsBegins
<1>3. CASE ResetBegins
  BY <1>3 DEF ResetBegins
<1>4. CASE FreeSps
  BY <1>4 DEF FreeSps
<1>5. CASE NullSps
  BY <1>5 DEF NullSps
<1>6. CASE FreePps
  <2>1. CASE task = "store"
    BY <1>6, <2>1 DEF FreePps
  <2>2. CASE task = "pps"
    BY <1>6, <2>2 DEF FreePps
  <2>3. CASE task = "reset"
    BY <1>6, <2>3 DEF FreePps
  <2>4. task \in {"store", "pps", "reset"}
    OBVIOUS
  <2> QED BY <2>1, <2>2, <2>3, <2>4
<1>7. CASE NullPps
  <2>1. CASE task = "store"
    BY <1>7, <2>1 DEF NullPps
  <2>2. CASE task = "pps"
    BY <1>7, <2>2 DEF NullPps
  <2>3. CASE task = "reset"
    BY <1>7, <2>3 DEF NullPps
  <2>4. task \in {"store", "pps", "reset"}
    OBVIOUS
  <2> QED BY <2>1, <2>2, <2>3, <2>4
<1>8. CASE SearchSps
  BY <1>8 DEF SearchSps
<1>9. CASE MallocSps
  BY <1>9 DEF MallocSps
<1>10. CASE CopySps
  BY <1>10 DEF CopySps
<1>11. CASE SearchPps
  BY <1>11 DEF SearchPps
<1>12. CASE MallocPps
  BY <1>12 DEF MallocPps
<1>13. CASE CopyPps
  BY <1>13 DEF CopyPps
<1>14. CASE Push
  BY <1>14 DEF Push
<1>15. CASE ResetClear
  BY <1>15 DEF ResetClear
<1>16. CASE ResetFlags
  BY <1>16 DEF ResetFlags
<1>17. CASE ResetClose
  BY <1>17 DEF ResetClose
<1>18. CASE ConnectStream
  BY <1>18 DEF ConnectStream
<1>19. CASE ClearFlags
  BY <1>19 DEF ClearFlags
<1>20. CASE Look
  <2>1. UNCHANGED <<feederVars, bufferVars>>
        /\ (overlap' = overlap \/ (~overlap' => feeder \in Quiet))
    BY <1>20 DEF Look
  <2> HIDE DEF Types, FeederTypes, FrameOrNone, Frame, Status, Quiet, Clearing,
               StoringSps, StoringPps
  <2> QED BY <2>1
<1>21. CASE GetSpsAndPps
  <2>1. UNCHANGED <<feederVars, bufferVars, overlap>>
    BY <1>21 DEF GetSpsAndPps, Check, NoPacket
  <2> HIDE DEF Types, FeederTypes
  <2> QED BY <2>1
<1>22. CASE SizeSps
  BY <1>22 DEF SizeSps
<1>23. CASE SizePps
  BY <1>23 DEF SizePps
<1>24. CASE ArgumentsSps
  BY <1>24 DEF ArgumentsSps, Argument
<1>25. CASE PackSps
  <2>1. UNCHANGED <<feederVars, bufferVars, overlap>>
    BY <1>25, PackSpsDoes
  <2> HIDE DEF Types, FeederTypes
  <2> QED BY <2>1
<1>26. CASE ArgumentsPps
  BY <1>26 DEF ArgumentsPps, Argument
<1>27. CASE PackPps
  <2>1. UNCHANGED <<feederVars, bufferVars, overlap>>
    BY <1>27, PackPpsDoes
  <2> HIDE DEF Types, FeederTypes
  <2> QED BY <2>1
<1>28. CASE SendHeader
  BY <1>28 DEF SendHeader
<1>29. CASE SetFlag
  BY <1>29 DEF SetFlag
<1>30. CASE SendVideo
  BY <1>30 DEF SendVideo
<1>31. CASE SendTimesOut
  BY <1>31 DEF SendTimesOut
<1>32. CASE UNCHANGED headerVars
  BY <1>32
<1> QED
  BY <1>1, <1>2, <1>3, <1>4, <1>5, <1>6, <1>7, <1>8, <1>9, <1>10, <1>11,
     <1>12, <1>13, <1>14, <1>15, <1>16, <1>17, <1>18, <1>19, <1>20, <1>21,
     <1>22, <1>23, <1>24, <1>25, <1>26, <1>27, <1>28, <1>29, <1>30, <1>31, <1>32
  DEF HeadersNext, FeederAccess, SenderAccess, HeadersEnded

(***************************************************************************)
(* Every step of the sender, alone with the buffers, copies what was given. *)
(***************************************************************************)
LEMMA MakingStep ==
    ASSUME Types, BuffersKnown, MakesWhatWasGiven, [HeadersNext]_headerVars
    PROVE  MakesWhatWasGiven'
<1> USE FramesAssumption
<1> USE DEF Types, FeederTypes, SenderTypes, FrameOrNone, NoParts,
            BuffersKnown, SpsWhole, PpsWhole, MakesWhatWasGiven,
            headerVars, bufferVars, packetVars, wireVars, feederVars,
            FeederAt, Changes, Begin, AfterClearing, SenderAt, Reads,
            Quiet, Clearing, StoringSps, StoringPps, Checking, PackingSps,
            PackingPps, Making
<1>1. CASE StoreBegins
  BY <1>1 DEF StoreBegins
<1>2. CASE PpsBegins
  BY <1>2 DEF PpsBegins
<1>3. CASE ResetBegins
  BY <1>3 DEF ResetBegins
<1>4. CASE FreeSps
  BY <1>4 DEF FreeSps
<1>5. CASE NullSps
  BY <1>5 DEF NullSps
<1>6. CASE FreePps
  BY <1>6 DEF FreePps
<1>7. CASE NullPps
  BY <1>7 DEF NullPps
<1>8. CASE SearchSps
  BY <1>8 DEF SearchSps
<1>9. CASE MallocSps
  BY <1>9 DEF MallocSps
<1>10. CASE CopySps
  BY <1>10 DEF CopySps
<1>11. CASE SearchPps
  BY <1>11 DEF SearchPps
<1>12. CASE MallocPps
  BY <1>12 DEF MallocPps
<1>13. CASE CopyPps
  BY <1>13 DEF CopyPps
<1>14. CASE Push
  BY <1>14 DEF Push
<1>15. CASE ResetClear
  BY <1>15 DEF ResetClear
<1>16. CASE ResetFlags
  BY <1>16 DEF ResetFlags
<1>17. CASE ResetClose
  BY <1>17 DEF ResetClose
<1>18. CASE ConnectStream
  BY <1>18 DEF ConnectStream
<1>19. CASE ClearFlags
  BY <1>19 DEF ClearFlags
<1>20. CASE Look
  BY <1>20 DEF Look
<1>21. CASE GetSpsAndPps
  <2>1. CASE Check("checkSps", sps # 0, "checkSpsSize")
    BY <2>1 DEF Check, NoPacket
  <2>2. CASE Check("checkSpsSize", spsSize > 0, "checkPps")
    BY <2>2 DEF Check, NoPacket
  <2>3. CASE Check("checkPps", pps # 0, "checkPpsSize")
    BY <2>3 DEF Check, NoPacket
  <2>4. CASE Check("checkPpsSize", ppsSize > 0, "sizeSps")
    BY <2>4 DEF Check, NoPacket
  <2> QED BY <1>21, <2>1, <2>2, <2>3, <2>4 DEF GetSpsAndPps
<1>22. CASE SizeSps
  BY <1>22 DEF SizeSps
<1>23. CASE SizePps
  BY <1>23 DEF SizePps
<1>24. CASE ArgumentsSps
  BY <1>24 DEF ArgumentsSps, Argument
<1>25. CASE PackSps
  <2>1. CASE overlap
    BY <1>25, <2>1, PackSpsDoes
  <2>2. CASE ~overlap
    <3>1. /\ sender = "packSps" /\ arg = sps /\ argSize = spsSize /\ sps # 0 /\ pps # 0
          /\ room = spsSize + ppsSize
          /\ spsBuf[sps] = "filled" /\ spsSize = SpsLen[sps] /\ spsSize > 0
          /\ spsSize \in Nat /\ ppsSize \in Nat
      BY <1>25, <2>2, PackSpsDoes
    <3>2. spsSize <= room + 3
      BY <3>1
    <3> HIDE DEF Types, FeederTypes, SenderTypes, FrameOrNone, BuffersKnown,
             SpsWhole, PpsWhole, MakesWhatWasGiven
    <3>3. sender' = "argsPps" /\ room' = room - argSize /\ parts'.sps = sps
      BY <1>25, <3>1, <3>2, PackSpsCopies
    <3>4. UNCHANGED <<overlap, sps, pps, spsSize, ppsSize>>
      BY <1>25, <3>1, <3>2, PackSpsCopies DEF bufferVars
    <3> QED BY <3>1, <3>3, <3>4 DEF MakesWhatWasGiven
  <2> QED BY <2>1, <2>2
<1>26. CASE ArgumentsPps
  BY <1>26 DEF ArgumentsPps, Argument
<1>27. CASE PackPps
  <2>1. CASE overlap
    BY <1>27, <2>1, PackPpsDoes
  <2>2. CASE ~overlap
    <3>1. /\ sender = "packPps" /\ arg = pps /\ argSize = ppsSize /\ sps # 0 /\ pps # 0
          /\ room = ppsSize /\ parts.sps = sps /\ sps = given.sps /\ pps = given.pps
          /\ ppsBuf[pps] = "filled" /\ ppsSize = PpsLen[pps] /\ ppsSize > 0
          /\ spsSize \in Nat /\ ppsSize \in Nat
      BY <1>27, <2>2, PackPpsDoes
    <3>2. ppsSize <= room
      BY <3>1
    <3> HIDE DEF Types, FeederTypes, SenderTypes, FrameOrNone, BuffersKnown,
             SpsWhole, PpsWhole, MakesWhatWasGiven
    <3>3. sender' = "sendSps" /\ parts' \in Parts /\ parts'.sps = sps /\ parts'.pps = pps
      BY <1>27, <3>1, <3>2, PackPpsCopies
    <3>4. UNCHANGED <<overlap, sps, pps, spsSize, ppsSize, given>>
      BY <1>27, <3>1, <3>2, PackPpsCopies DEF bufferVars, feederVars
    <3>5. parts' = given'
      BY <3>1, <3>3, <3>4 DEF Parts, Types, FeederTypes
    <3> QED BY <3>1, <3>3, <3>4, <3>5 DEF MakesWhatWasGiven
  <2> QED BY <2>1, <2>2
<1>28. CASE SendHeader
  BY <1>28 DEF SendHeader
<1>29. CASE SetFlag
  BY <1>29 DEF SetFlag
<1>30. CASE SendVideo
  BY <1>30 DEF SendVideo
<1>31. CASE SendTimesOut
  BY <1>31 DEF SendTimesOut
<1>32. CASE UNCHANGED headerVars
  BY <1>32
<1> QED
  BY <1>1, <1>2, <1>3, <1>4, <1>5, <1>6, <1>7, <1>8, <1>9, <1>10, <1>11,
     <1>12, <1>13, <1>14, <1>15, <1>16, <1>17, <1>18, <1>19, <1>20, <1>21,
     <1>22, <1>23, <1>24, <1>25, <1>26, <1>27, <1>28, <1>29, <1>30, <1>31, <1>32
  DEF HeadersNext, FeederAccess, SenderAccess, HeadersEnded

(***************************************************************************)
(* Whatever the two threads do, a PPS that the sender reads came no earlier *)
(* than the SPS that it read before.                                       *)
(***************************************************************************)
LEMMA NeverOlderStep ==
    ASSUME Types, BuffersKnown, NeverOlder, [HeadersNext]_headerVars
    PROVE  NeverOlder'
<1> USE FramesAssumption
<1> USE DEF Types, FeederTypes, SenderTypes, FrameOrNone, NoParts, Unsent,
            BuffersKnown, NeverOlder, YoungEnough, PpsNeverOlder,
            headerVars, bufferVars, packetVars, wireVars, feederVars,
            FeederAt, Changes, Begin, AfterClearing, SenderAt, Reads,
            Quiet, Clearing, StoringSps, StoringPps, Checking, PackingSps,
            PackingPps, Making
<1>1. CASE StoreBegins
  <2>1. frame' = frame + 1 /\ frame \in Nat
    BY <1>1 DEF StoreBegins
  <2>2. UNCHANGED <<sps, pps, sender, parts, arg, header>>
    BY <1>1 DEF StoreBegins
  <2>3. /\ sps \in Int /\ pps \in Int /\ arg \in Int
        /\ sender \in PackingPps => parts.sps \in Int
    BY DEF Parts, Part
  <2> HIDE DEF Types, FeederTypes, SenderTypes
  <2> QED BY <2>1, <2>2, <2>3
<1>2. CASE PpsBegins
  <2>1. frame' = frame + 1 /\ frame \in Nat
    BY <1>2 DEF PpsBegins
  <2>2. UNCHANGED <<sps, pps, sender, parts, arg, header>>
    BY <1>2 DEF PpsBegins
  <2>3. /\ sps \in Int /\ pps \in Int /\ arg \in Int
        /\ sender \in PackingPps => parts.sps \in Int
    BY DEF Parts, Part
  <2> HIDE DEF Types, FeederTypes, SenderTypes
  <2> QED BY <2>1, <2>2, <2>3
<1>3. CASE ResetBegins
  BY <1>3 DEF ResetBegins
<1>4. CASE FreeSps
  BY <1>4 DEF FreeSps
<1>5. CASE NullSps
  BY <1>5 DEF NullSps
<1>6. CASE FreePps
  BY <1>6 DEF FreePps
<1>7. CASE NullPps
  BY <1>7 DEF NullPps
<1>8. CASE SearchSps
  BY <1>8 DEF SearchSps
<1>9. CASE MallocSps
  BY <1>9 DEF MallocSps
<1>10. CASE CopySps
  BY <1>10 DEF CopySps
<1>11. CASE SearchPps
  BY <1>11 DEF SearchPps
<1>12. CASE MallocPps
  BY <1>12 DEF MallocPps
<1>13. CASE CopyPps
  BY <1>13 DEF CopyPps
<1>14. CASE Push
  BY <1>14 DEF Push
<1>15. CASE ResetClear
  BY <1>15 DEF ResetClear
<1>16. CASE ResetFlags
  BY <1>16 DEF ResetFlags
<1>17. CASE ResetClose
  BY <1>17 DEF ResetClose
<1>18. CASE ConnectStream
  BY <1>18 DEF ConnectStream
<1>19. CASE ClearFlags
  BY <1>19 DEF ClearFlags
<1>20. CASE Look
  BY <1>20 DEF Look
<1>21. CASE GetSpsAndPps
  BY <1>21 DEF GetSpsAndPps, Check, NoPacket
<1>22. CASE SizeSps
  BY <1>22 DEF SizeSps
<1>23. CASE SizePps
  BY <1>23 DEF SizePps
<1>24. CASE ArgumentsSps
  BY <1>24 DEF ArgumentsSps, Argument
<1>25. CASE PackSps
  <2>1. /\ UNCHANGED <<sps, pps, frame, arg, header>> /\ sender = "packSps"
        /\ \/ UNCHANGED parts /\ sender' = "sendSps"
           \/ UNCHANGED parts /\ UNCHANGED sender
           \/ /\ sender' = "argsPps" /\ parts'.pps = parts.pps
              /\ arg # 0 /\ parts'.sps \in {arg, -1}
    BY <1>25, PackSpsDoes
  <2>2. arg \in Nat /\ sps \in Nat /\ pps \in Nat /\ frame \in Nat
    OBVIOUS
  <2> HIDE DEF Types, FeederTypes, SenderTypes
  <2> QED BY <2>1, <2>2
<1>26. CASE ArgumentsPps
  BY <1>26 DEF ArgumentsPps, Argument
<1>27. CASE PackPps
  <2>1. /\ UNCHANGED <<sps, pps, frame, arg, header>> /\ sender = "packPps"
        /\ \/ UNCHANGED parts /\ sender' = "sendSps"
           \/ UNCHANGED parts /\ UNCHANGED sender
           \/ /\ sender' = "sendSps" /\ parts'.sps = parts.sps
              /\ arg # 0 /\ parts'.pps \in {arg, -1}
    BY <1>27, PackPpsDoes
  <2>2. arg \in Nat /\ sps \in Nat /\ pps \in Nat /\ frame \in Nat
    OBVIOUS
  <2> HIDE DEF Types, FeederTypes, SenderTypes
  <2> QED BY <2>1, <2>2
<1>28. CASE SendHeader
  BY <1>28 DEF SendHeader
<1>29. CASE SetFlag
  BY <1>29 DEF SetFlag
<1>30. CASE SendVideo
  BY <1>30 DEF SendVideo
<1>31. CASE SendTimesOut
  BY <1>31 DEF SendTimesOut
<1>32. CASE UNCHANGED headerVars
  BY <1>32
<1> QED
  BY <1>1, <1>2, <1>3, <1>4, <1>5, <1>6, <1>7, <1>8, <1>9, <1>10, <1>11,
     <1>12, <1>13, <1>14, <1>15, <1>16, <1>17, <1>18, <1>19, <1>20, <1>21,
     <1>22, <1>23, <1>24, <1>25, <1>26, <1>27, <1>28, <1>29, <1>30, <1>31, <1>32
  DEF HeadersNext, FeederAccess, SenderAccess, HeadersEnded

(***************************************************************************)
(* The flag is set without a header only where there is an excuse.         *)
(***************************************************************************)
LEMMA ExcusedStep ==
    ASSUME Types, BuffersKnown, MakesWhatWasGiven, HeaderExcused, [HeadersNext]_headerVars
    PROVE  HeaderExcused'
<1> USE FramesAssumption
<1> USE DEF Types, FeederTypes, SenderTypes, Parts, Part, Unsent,
            BuffersKnown, SpsWhole, PpsWhole, MakesWhatWasGiven,
            HeaderExcused, headerVars, bufferVars, packetVars, wireVars,
            feederVars, FeederAt, Changes, Begin, AfterClearing, SenderAt,
            Reads, Quiet, Clearing, StoringSps, StoringPps, Checking,
            PackingSps, PackingPps, Making
<1>1. CASE StoreBegins
  BY <1>1 DEF StoreBegins
<1>2. CASE PpsBegins
  BY <1>2 DEF PpsBegins
<1>3. CASE ResetBegins
  BY <1>3 DEF ResetBegins
<1>4. CASE FreeSps
  BY <1>4 DEF FreeSps
<1>5. CASE NullSps
  BY <1>5 DEF NullSps
<1>6. CASE FreePps
  BY <1>6 DEF FreePps
<1>7. CASE NullPps
  BY <1>7 DEF NullPps
<1>8. CASE SearchSps
  BY <1>8 DEF SearchSps
<1>9. CASE MallocSps
  BY <1>9 DEF MallocSps
<1>10. CASE CopySps
  BY <1>10 DEF CopySps
<1>11. CASE SearchPps
  BY <1>11 DEF SearchPps
<1>12. CASE MallocPps
  BY <1>12 DEF MallocPps
<1>13. CASE CopyPps
  BY <1>13 DEF CopyPps
<1>14. CASE Push
  BY <1>14 DEF Push
<1>15. CASE ResetClear
  BY <1>15 DEF ResetClear
<1>16. CASE ResetFlags
  BY <1>16 DEF ResetFlags
<1>17. CASE ResetClose
  BY <1>17 DEF ResetClose
<1>18. CASE ConnectStream
  BY <1>18 DEF ConnectStream
<1>19. CASE ClearFlags
  BY <1>19 DEF ClearFlags
<1>20. CASE Look
  BY <1>20 DEF Look
<1>21. CASE GetSpsAndPps
  <2>1. /\ UNCHANGED <<open, header, resumed>> /\ sender \in Checking
        /\ \/ UNCHANGED <<hasSendSps, excused>> /\ sender' \in Checking \cup {"sizeSps"}
           \/ /\ sender' = "send"
              /\ excused' = (overlap \/ given.sps = 0 \/ given.pps = 0)
              /\ \/ sps = 0 \/ (spsSize = 0 /\ sender # "checkSps")
                 \/ pps = 0 \/ (ppsSize = 0 /\ sender = "checkPpsSize")
    <3>0. spsSize \in Nat /\ ppsSize \in Nat
      OBVIOUS
    <3> HIDE DEF Types, SenderTypes, BuffersKnown, MakesWhatWasGiven, HeaderExcused
    <3>1. CASE Check("checkSps", sps # 0, "checkSpsSize")
      BY <3>0, <3>1 DEF Check, NoPacket
    <3>2. CASE Check("checkSpsSize", spsSize > 0, "checkPps")
      BY <3>0, <3>2 DEF Check, NoPacket
    <3>3. CASE Check("checkPps", pps # 0, "checkPpsSize")
      BY <3>0, <3>3 DEF Check, NoPacket
    <3>4. CASE Check("checkPpsSize", ppsSize > 0, "sizeSps")
      BY <3>0, <3>4 DEF Check, NoPacket
    <3> QED BY <1>21, <3>1, <3>2, <3>3, <3>4 DEF GetSpsAndPps
  <2>2. ~overlap => SpsWhole /\ PpsWhole
    OBVIOUS
  <2>3. ASSUME ~overlap, sender' = "send" PROVE given.sps = 0 \/ given.pps = 0
    <3>1. /\ sps = given.sps /\ (sps # 0 => spsSize > 0)
          /\ pps = given.pps /\ (pps # 0 => ppsSize > 0)
      BY <2>2, <2>3
    <3>2. (sender # "checkSps" => sps # 0) /\ (sender = "checkPpsSize" => pps # 0)
      BY <2>1, <2>3
    <3> HIDE DEF Types, SenderTypes, BuffersKnown, MakesWhatWasGiven, HeaderExcused,
                 SpsWhole, PpsWhole
    <3>3. sps = 0 \/ pps = 0
      BY <2>1, <2>3, <3>1, <3>2
    <3> QED BY <3>1, <3>3
  <2>4. sender' = "send" => excused'
    BY <2>1, <2>3
  <2> HIDE DEF Types, SenderTypes, Parts, Part
  <2> QED BY <2>1, <2>4
<1>22. CASE SizeSps
  BY <1>22 DEF SizeSps
<1>23. CASE SizePps
  BY <1>23 DEF SizePps
<1>24. CASE ArgumentsSps
  BY <1>24 DEF ArgumentsSps, Argument
<1>25. CASE PackSps
  <2>1. /\ UNCHANGED <<open, header, hasSendSps, excused, resumed>> /\ sender = "packSps"
        /\ sender' \in {"packSps", "argsPps", "sendSps"}
    BY <1>25, PackSpsDoes
  <2> HIDE DEF Types, SenderTypes, Parts, Part
  <2> QED BY <2>1
<1>26. CASE ArgumentsPps
  BY <1>26 DEF ArgumentsPps, Argument
<1>27. CASE PackPps
  <2>1. /\ UNCHANGED <<open, header, hasSendSps, excused, resumed>> /\ sender = "packPps"
        /\ sender' \in {"packPps", "argsPps", "sendSps"}
    BY <1>27, PackPpsDoes
  <2> HIDE DEF Types, SenderTypes, Parts, Part
  <2> QED BY <2>1
<1>28. CASE SendHeader
  BY <1>28 DEF SendHeader
<1>29. CASE SetFlag
  BY <1>29 DEF SetFlag
<1>30. CASE SendVideo
  BY <1>30 DEF SendVideo
<1>31. CASE SendTimesOut
  BY <1>31 DEF SendTimesOut
<1>32. CASE UNCHANGED headerVars
  BY <1>32
<1> QED
  BY <1>1, <1>2, <1>3, <1>4, <1>5, <1>6, <1>7, <1>8, <1>9, <1>10, <1>11,
     <1>12, <1>13, <1>14, <1>15, <1>16, <1>17, <1>18, <1>19, <1>20, <1>21,
     <1>22, <1>23, <1>24, <1>25, <1>26, <1>27, <1>28, <1>29, <1>30, <1>31, <1>32
  DEF HeadersNext, FeederAccess, SenderAccess, HeadersEnded

(***************************************************************************)
(* A connection that is only resumed keeps the flag, until a reset.        *)
(***************************************************************************)
LEMMA ResumedStep ==
    ASSUME Types, ResumedKeepsFlag, [HeadersNext]_headerVars
    PROVE  ResumedKeepsFlag'
<1> USE FramesAssumption
<1> USE DEF ResumedKeepsFlag, headerVars, bufferVars, packetVars, wireVars,
            feederVars, FeederAt, Changes, Begin, AfterClearing, SenderAt,
            Reads, Checking, PackingSps, PackingPps, Making
<1>1. CASE StoreBegins
  BY <1>1 DEF StoreBegins
<1>2. CASE PpsBegins
  BY <1>2 DEF PpsBegins
<1>3. CASE ResetBegins
  BY <1>3 DEF ResetBegins
<1>4. CASE FreeSps
  BY <1>4 DEF FreeSps
<1>5. CASE NullSps
  BY <1>5 DEF NullSps
<1>6. CASE FreePps
  BY <1>6 DEF FreePps
<1>7. CASE NullPps
  BY <1>7 DEF NullPps
<1>8. CASE SearchSps
  BY <1>8 DEF SearchSps
<1>9. CASE MallocSps
  BY <1>9 DEF MallocSps
<1>10. CASE CopySps
  BY <1>10 DEF CopySps
<1>11. CASE SearchPps
  BY <1>11 DEF SearchPps
<1>12. CASE MallocPps
  BY <1>12 DEF MallocPps
<1>13. CASE CopyPps
  BY <1>13 DEF CopyPps
<1>14. CASE Push
  BY <1>14 DEF Push
<1>15. CASE ResetClear
  BY <1>15 DEF ResetClear
<1>16. CASE ResetFlags
  BY <1>16 DEF ResetFlags
<1>17. CASE ResetClose
  BY <1>17 DEF ResetClose
<1>18. CASE ConnectStream
  BY <1>18 DEF ConnectStream
<1>19. CASE ClearFlags
  BY <1>19 DEF ClearFlags
<1>20. CASE Look
  BY <1>20 DEF Look
<1>21. CASE GetSpsAndPps
  BY <1>21 DEF GetSpsAndPps, Check, NoPacket
<1>22. CASE SizeSps
  BY <1>22 DEF SizeSps
<1>23. CASE SizePps
  BY <1>23 DEF SizePps
<1>24. CASE ArgumentsSps
  BY <1>24 DEF ArgumentsSps, Argument
<1>25. CASE PackSps
  <2>1. /\ UNCHANGED <<open, hasSendSps, feeder, resumed>> /\ sender = "packSps"
        /\ sender' \in {"packSps", "argsPps", "sendSps"}
    BY <1>25, PackSpsDoes
  <2> QED BY <2>1
<1>26. CASE ArgumentsPps
  BY <1>26 DEF ArgumentsPps, Argument
<1>27. CASE PackPps
  <2>1. /\ UNCHANGED <<open, hasSendSps, feeder, resumed>> /\ sender = "packPps"
        /\ sender' \in {"packPps", "argsPps", "sendSps"}
    BY <1>27, PackPpsDoes
  <2> QED BY <2>1
<1>28. CASE SendHeader
  BY <1>28 DEF SendHeader
<1>29. CASE SetFlag
  BY <1>29 DEF SetFlag
<1>30. CASE SendVideo
  BY <1>30 DEF SendVideo
<1>31. CASE SendTimesOut
  BY <1>31 DEF SendTimesOut
<1>32. CASE UNCHANGED headerVars
  BY <1>32
<1> QED
  BY <1>1, <1>2, <1>3, <1>4, <1>5, <1>6, <1>7, <1>8, <1>9, <1>10, <1>11,
     <1>12, <1>13, <1>14, <1>15, <1>16, <1>17, <1>18, <1>19, <1>20, <1>21,
     <1>22, <1>23, <1>24, <1>25, <1>26, <1>27, <1>28, <1>29, <1>30, <1>31, <1>32
  DEF HeadersNext, FeederAccess, SenderAccess, HeadersEnded

-----------------------------------------------------------------------------
(* The step properties, where the invariants hold *)

(***************************************************************************)
(* The header that is sent joins the sets given last, and nothing is written *)
(* beyond its end, while the application's thread stays away.              *)
(***************************************************************************)
LEMMA HeaderStep ==
    ASSUME Types, BuffersKnown, MakesWhatWasGiven, [HeadersNext]_headerVars
    PROVE  ~overlap => /\ header' \in {header, Unsent, given}
                        /\ corrupt' = corrupt
<1> USE FramesAssumption
<1> USE DEF Types, FeederTypes, FrameOrNone, BuffersKnown, SpsWhole,
            PpsWhole, MakesWhatWasGiven, headerVars, bufferVars,
            packetVars, wireVars, feederVars, FeederAt, Changes, Begin,
            AfterClearing, SenderAt, Reads, Quiet, Clearing, StoringSps,
            StoringPps, Checking, PackingSps, PackingPps, Making
<1>1. CASE StoreBegins
  BY <1>1 DEF StoreBegins
<1>2. CASE PpsBegins
  BY <1>2 DEF PpsBegins
<1>3. CASE ResetBegins
  BY <1>3 DEF ResetBegins
<1>4. CASE FreeSps
  BY <1>4 DEF FreeSps
<1>5. CASE NullSps
  BY <1>5 DEF NullSps
<1>6. CASE FreePps
  BY <1>6 DEF FreePps
<1>7. CASE NullPps
  BY <1>7 DEF NullPps
<1>8. CASE SearchSps
  BY <1>8 DEF SearchSps
<1>9. CASE MallocSps
  BY <1>9 DEF MallocSps
<1>10. CASE CopySps
  BY <1>10 DEF CopySps
<1>11. CASE SearchPps
  BY <1>11 DEF SearchPps
<1>12. CASE MallocPps
  BY <1>12 DEF MallocPps
<1>13. CASE CopyPps
  BY <1>13 DEF CopyPps
<1>14. CASE Push
  BY <1>14 DEF Push
<1>15. CASE ResetClear
  BY <1>15 DEF ResetClear
<1>16. CASE ResetFlags
  BY <1>16 DEF ResetFlags
<1>17. CASE ResetClose
  BY <1>17 DEF ResetClose
<1>18. CASE ConnectStream
  BY <1>18 DEF ConnectStream
<1>19. CASE ClearFlags
  BY <1>19 DEF ClearFlags
<1>20. CASE Look
  BY <1>20 DEF Look
<1>21. CASE GetSpsAndPps
  BY <1>21 DEF GetSpsAndPps, Check, NoPacket
<1>22. CASE SizeSps
  BY <1>22 DEF SizeSps
<1>23. CASE SizePps
  BY <1>23 DEF SizePps
<1>24. CASE ArgumentsSps
  BY <1>24 DEF ArgumentsSps, Argument
<1>25. CASE PackSps
  <2>1. header' = header
    BY <1>25, PackSpsDoes DEF wireVars
  <2>2. ASSUME ~overlap PROVE corrupt' = corrupt
    <3>1. /\ arg # 0 /\ argSize > 0 /\ spsBuf[arg] = "filled" /\ argSize = spsSize
          /\ room = spsSize + ppsSize /\ spsSize \in Nat /\ ppsSize \in Nat
      BY <1>25, <2>2, PackSpsDoes
    <3> HIDE DEF Types, FeederTypes, FrameOrNone, BuffersKnown, SpsWhole, PpsWhole,
             MakesWhatWasGiven
    <3>2. ~(spsBuf[arg] = "freed" \/ argSize > room + 3)
      BY <3>1
    <3> QED BY <1>25, <3>1, <3>2, PackSpsDoes
  <2> QED BY <2>1, <2>2
<1>26. CASE ArgumentsPps
  BY <1>26 DEF ArgumentsPps, Argument
<1>27. CASE PackPps
  <2>1. header' = header
    BY <1>27, PackPpsDoes DEF wireVars
  <2>2. ASSUME ~overlap PROVE corrupt' = corrupt
    <3>1. /\ arg # 0 /\ argSize > 0 /\ ppsBuf[arg] = "filled" /\ argSize = ppsSize
          /\ room = ppsSize /\ spsSize \in Nat /\ ppsSize \in Nat
      BY <1>27, <2>2, PackPpsDoes
    <3> HIDE DEF Types, FeederTypes, FrameOrNone, BuffersKnown, SpsWhole, PpsWhole,
             MakesWhatWasGiven
    <3>2. ~(ppsBuf[arg] = "freed" \/ argSize > room)
      BY <3>1
    <3> QED BY <1>27, <3>1, <3>2, PackPpsDoes
  <2> QED BY <2>1, <2>2
<1>28. CASE SendHeader
  BY <1>28 DEF SendHeader
<1>29. CASE SetFlag
  BY <1>29 DEF SetFlag
<1>30. CASE SendVideo
  BY <1>30 DEF SendVideo
<1>31. CASE SendTimesOut
  BY <1>31 DEF SendTimesOut
<1>32. CASE UNCHANGED headerVars
  BY <1>32
<1> QED
  BY <1>1, <1>2, <1>3, <1>4, <1>5, <1>6, <1>7, <1>8, <1>9, <1>10, <1>11,
     <1>12, <1>13, <1>14, <1>15, <1>16, <1>17, <1>18, <1>19, <1>20, <1>21,
     <1>22, <1>23, <1>24, <1>25, <1>26, <1>27, <1>28, <1>29, <1>30, <1>31, <1>32
  DEF HeadersNext, FeederAccess, SenderAccess, HeadersEnded

(***************************************************************************)
(* The sender passes by the header only where there is an excuse or the    *)
(* connection was resumed, and there only a reset lets a header through.   *)
(***************************************************************************)
LEMMA SkipStep ==
    ASSUME Types, HeaderExcused, ResumedKeepsFlag, [HeadersNext]_headerVars
    PROVE  /\ sender = "send" /\ sender' = "loop" /\ open' /\ header = Unsent
                => excused \/ resumed
           /\ resumed /\ header' \notin {header, Unsent} => feeder = "close"
<1> USE FramesAssumption
<1> USE DEF HeaderExcused, ResumedKeepsFlag, headerVars, bufferVars, packetVars, wireVars,
            feederVars, FeederAt, Changes, Begin, AfterClearing, SenderAt,
            Reads, Checking, PackingSps, PackingPps, Making
<1>1. CASE StoreBegins
  BY <1>1 DEF StoreBegins
<1>2. CASE PpsBegins
  BY <1>2 DEF PpsBegins
<1>3. CASE ResetBegins
  BY <1>3 DEF ResetBegins
<1>4. CASE FreeSps
  BY <1>4 DEF FreeSps
<1>5. CASE NullSps
  BY <1>5 DEF NullSps
<1>6. CASE FreePps
  BY <1>6 DEF FreePps
<1>7. CASE NullPps
  BY <1>7 DEF NullPps
<1>8. CASE SearchSps
  BY <1>8 DEF SearchSps
<1>9. CASE MallocSps
  BY <1>9 DEF MallocSps
<1>10. CASE CopySps
  BY <1>10 DEF CopySps
<1>11. CASE SearchPps
  BY <1>11 DEF SearchPps
<1>12. CASE MallocPps
  BY <1>12 DEF MallocPps
<1>13. CASE CopyPps
  BY <1>13 DEF CopyPps
<1>14. CASE Push
  BY <1>14 DEF Push
<1>15. CASE ResetClear
  BY <1>15 DEF ResetClear
<1>16. CASE ResetFlags
  BY <1>16 DEF ResetFlags
<1>17. CASE ResetClose
  BY <1>17 DEF ResetClose
<1>18. CASE ConnectStream
  BY <1>18 DEF ConnectStream
<1>19. CASE ClearFlags
  BY <1>19 DEF ClearFlags
<1>20. CASE Look
  BY <1>20 DEF Look
<1>21. CASE GetSpsAndPps
  BY <1>21 DEF GetSpsAndPps, Check, NoPacket
<1>22. CASE SizeSps
  BY <1>22 DEF SizeSps
<1>23. CASE SizePps
  BY <1>23 DEF SizePps
<1>24. CASE ArgumentsSps
  BY <1>24 DEF ArgumentsSps, Argument
<1>25. CASE PackSps
  BY <1>25, PackSpsDoes
<1>26. CASE ArgumentsPps
  BY <1>26 DEF ArgumentsPps, Argument
<1>27. CASE PackPps
  BY <1>27, PackPpsDoes
<1>28. CASE SendHeader
  BY <1>28 DEF SendHeader
<1>29. CASE SetFlag
  BY <1>29 DEF SetFlag
<1>30. CASE SendVideo
  BY <1>30 DEF SendVideo
<1>31. CASE SendTimesOut
  BY <1>31 DEF SendTimesOut
<1>32. CASE UNCHANGED headerVars
  BY <1>32
<1> QED
  BY <1>1, <1>2, <1>3, <1>4, <1>5, <1>6, <1>7, <1>8, <1>9, <1>10, <1>11,
     <1>12, <1>13, <1>14, <1>15, <1>16, <1>17, <1>18, <1>19, <1>20, <1>21,
     <1>22, <1>23, <1>24, <1>25, <1>26, <1>27, <1>28, <1>29, <1>30, <1>31, <1>32
  DEF HeadersNext, FeederAccess, SenderAccess, HeadersEnded

-----------------------------------------------------------------------------
(* The theorems *)

IInv == /\ Types /\ BuffersKnown /\ MakesWhatWasGiven /\ NeverOlder
        /\ HeaderExcused /\ ResumedKeepsFlag

(***************************************************************************)
(* All that is known is known in every state.                              *)
(***************************************************************************)
THEOREM HeadersInvariant == HeadersSpec => []IInv
<1>1. HeadersInit => IInv
  BY InitAll DEF IInv
<1>2. IInv /\ [HeadersNext]_headerVars => IInv'
  BY FeederTypeStep, SenderTypeStep, FlagTypeStep, BuffersStep, MakingStep,
     NeverOlderStep, ExcusedStep, ResumedStep
  DEF IInv, Types
<1> QED BY <1>1, <1>2, PTL DEF HeadersSpec

(***************************************************************************)
(* Types: the variables keep their types, for any frames and lengths.      *)
(***************************************************************************)
THEOREM HeadersTypeCorrect == HeadersSpec => []Types
<1>1. IInv => Types
  BY DEF IInv
<1> QED BY <1>1, HeadersInvariant, PTL

(***************************************************************************)
(* PpsNeverOlder: whatever the two threads do to each other, getSpsAndPps  *)
(* joins no SPS with the PPS of an earlier frame.                          *)
(***************************************************************************)
THEOREM PairsAreOrdered == HeadersSpec => []PpsNeverOlder
<1>1. IInv => PpsNeverOlder
  BY DEF IInv, NeverOlder
<1> QED BY <1>1, HeadersInvariant, PTL

(***************************************************************************)
(* HeaderAsGiven: undisturbed, getSpsAndPps makes a packet of the sets the *)
(* application gave last, within the packet's body.                        *)
(***************************************************************************)
THEOREM HeaderJoinsWhatWasGiven == HeadersSpec => HeaderAsGiven
<1>1. IInv /\ [HeadersNext]_headerVars
        => [~overlap => /\ header' \in {header, Unsent, given}
                        /\ corrupt' = corrupt]_headerVars
  BY HeaderStep DEF IInv
<1> QED BY <1>1, HeadersInvariant, PTL DEF HeadersSpec, HeaderAsGiven

(***************************************************************************)
(* HeaderSkippedOnlyWhenKnown: clientStreamThread sends video without a    *)
(* header only if no pair was there, if its sets were being replaced, or   *)
(* on a connection it opened after a timeout, which has a header only in   *)
(* the middle of a reset.                                                  *)
(***************************************************************************)
THEOREM SkippedOnlyWhenKnown == HeadersSpec => HeaderSkippedOnlyWhenKnown
<1>1. IInv /\ [HeadersNext]_headerVars
        => [/\ sender = "send" /\ sender' = "loop" /\ open' /\ header = Unsent
                 => excused \/ resumed
            /\ resumed /\ header' \notin {header, Unsent} => feeder = "close"]_headerVars
  BY SkipStep DEF IInv
<1> QED BY <1>1, HeadersInvariant, PTL DEF HeadersSpec, HeaderSkippedOnlyWhenKnown
=============================================================================

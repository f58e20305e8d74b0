---------------------------- MODULE HeaderBuffers ---------------------------
(***************************************************************************)
(* The buffers with the current SPS and PPS, between the thread that fills *)
(* them (sendX264VideoData, beforeSendData) and the sender, which makes    *)
(* the header packet of a connection from them (getSpsAndPps).  No lock    *)
(* guards them, and each field is read more than once.  ClientSender knows *)
(* only whether they are set; here every access is a step, a pointer set   *)
(* to NULL together with its size, and the two sizes set to 0, being one.  *)
(*                                                                         *)
(* A buffer is named by the frame it came with.  Once freed memory is used *)
(* or a packet is written beyond its end (`corrupt') nothing more is said. *)
(***************************************************************************)
EXTENDS Integers

CONSTANTS MaxFrames,        \* bound: frames with parameter sets the application pushes
          SpsLen, PpsLen,   \* by frame: the lengths of its sets, 0 if it has none
          Overrun,          \* how far the search for an end counts beyond it
          MaxRestarts,      \* bound: calls of beforeSendData
          MaxConnections    \* bound

Frame == 1..MaxFrames

ASSUME FramesAssumption ==
    /\ {MaxFrames, Overrun, MaxRestarts, MaxConnections} \subseteq Nat
    /\ SpsLen \in [Frame -> Nat] /\ PpsLen \in [Frame -> Nat]
    /\ \A f \in Frame : SpsLen[f] > 0 \/ PpsLen[f] > 0

VARIABLES
    feeder, task,         \* where the application's thread is, in what
    frame,                \* the last frame it pushed
    sps, spsSize,         \* client->spsData, 0 for NULL
    pps, ppsSize,
    spsBuf, ppsBuf,       \* by frame: "none", "raw" (allocated), "filled", "freed"
    video,                \* is a video packet in the FIFO?
    sender,               \* where the sender is
    room,                 \* what is left of the packet it makes
    arg, argSize,         \* the arguments of packetSPSData or packetPPSData
    parts,                \* whose SPS and PPS were copied (0 for zeros, -1 for noise)
    hasSendSps,
    open, header,         \* the connection, and the parts of the header it was sent
    connections, restarts,
    (* auxiliary *)
    given,                \* the sets the application has given, by their frames
    overlap,              \* were buffers changed while getSpsAndPps ran?
    excused,              \* if it made no packet: did they, or was no pair given?
    resumed,              \* was the connection opened after a timeout, its flag kept?
    corrupt

bufferVars == <<sps, spsSize, pps, ppsSize, spsBuf, ppsBuf>>
packetVars == <<room, arg, argSize, parts>>
wireVars == <<open, header, connections>>
feederVars == <<feeder, task, frame, restarts, given>>
headerVars == <<feederVars, bufferVars, video, sender, packetVars, hasSendSps, wireVars,
          overlap, excused, resumed, corrupt>>

NoParts == [sps |-> 0, pps |-> 0]
Unsent == [sps |-> -2, pps |-> -2]

HeadersInit == /\ feeder = "idle" /\ task = "store" /\ frame = 0 /\ given = NoParts
               /\ sps = 0 /\ spsSize = 0 /\ pps = 0 /\ ppsSize = 0
               /\ spsBuf = [f \in Frame |-> "none"] /\ ppsBuf = [f \in Frame |-> "none"]
               /\ video = FALSE
               /\ sender = "loop" /\ room = 0 /\ arg = 0 /\ argSize = 0 /\ parts = NoParts
               /\ hasSendSps = FALSE /\ open = TRUE /\ header = Unsent
               /\ connections = 1 /\ restarts = 0
               /\ overlap = FALSE /\ excused = FALSE /\ resumed = FALSE /\ corrupt = FALSE
-----------------------------------------------------------------------------
(* The application's thread: its accesses to the buffers                   *)

FeederAt(here, there) == feeder = here /\ feeder' = there

(* what every access to the buffers leaves alone *)
Changes == /\ overlap' = TRUE
           /\ UNCHANGED <<video, sender, packetVars, hasSendSps, wireVars, excused, resumed, corrupt>>

Begin(t, first) == /\ FeederAt("idle", first)
                   /\ task' = t
                   /\ Changes

(* a frame that starts with an SPS *)
StoreBegins == /\ Begin("store", "freeSps")
               /\ frame < MaxFrames /\ SpsLen[frame + 1] > 0
               /\ frame' = frame + 1
               /\ spsSize' = 0 /\ ppsSize' = 0
               /\ UNCHANGED <<sps, pps, spsBuf, ppsBuf, restarts, given>>

(* a frame that starts with a PPS *)
PpsBegins == /\ Begin("pps", "freePps")
             /\ frame < MaxFrames /\ SpsLen[frame + 1] = 0
             /\ frame' = frame + 1
             /\ ppsSize' = 0
             /\ UNCHANGED <<sps, spsSize, pps, spsBuf, ppsBuf, restarts, given>>

ResetBegins == /\ Begin("reset", "freeSps")
                  /\ restarts < MaxRestarts /\ restarts' = restarts + 1
                  /\ given' = NoParts
                  /\ UNCHANGED <<frame, bufferVars>>

FreeSps == /\ \/ sps # 0 /\ FeederAt("freeSps", "nullSps")
                 /\ spsBuf' = [spsBuf EXCEPT ![sps] = "freed"]
              \/ sps = 0 /\ FeederAt("freeSps", "freePps") /\ UNCHANGED spsBuf
           /\ Changes
           /\ UNCHANGED <<task, frame, restarts, given, sps, spsSize, pps, ppsSize, ppsBuf>>

NullSps == /\ FeederAt("nullSps", "freePps")
           /\ sps' = 0 /\ spsSize' = 0
           /\ Changes
           /\ UNCHANGED <<task, frame, restarts, given, pps, ppsSize, spsBuf, ppsBuf>>

AfterClearing == CASE task = "store" -> "searchSps"
                   [] task = "pps" -> "searchPps"
                   [] task = "reset" -> "clear"

(* mutant: a new SPS keeps the old PPS *)
KeepPps == /\ FeederAt("freePps", AfterClearing)
           /\ Changes
           /\ UNCHANGED <<task, frame, restarts, given, bufferVars>>

FreePps == /\ \/ pps # 0 /\ FeederAt("freePps", "nullPps")
                 /\ ppsBuf' = [ppsBuf EXCEPT ![pps] = "freed"]
              \/ pps = 0 /\ FeederAt("freePps", AfterClearing) /\ UNCHANGED ppsBuf
           /\ Changes
           /\ UNCHANGED <<task, frame, restarts, given, sps, spsSize, pps, ppsSize, spsBuf>>

NullPps == /\ FeederAt("nullPps", AfterClearing)
           /\ pps' = 0 /\ ppsSize' = 0
           /\ Changes
           /\ UNCHANGED <<task, frame, restarts, given, sps, spsSize, spsBuf, ppsBuf>>

(* the loops that look for the end count in sps_size and pps_size *)
SearchSps == /\ \/ FeederAt("searchSps", "searchSps")
                   /\ spsSize' \in 1..(SpsLen[frame] + Overrun)
                \/ FeederAt("searchSps", "mallocSps") /\ spsSize' = SpsLen[frame]
             /\ Changes
             /\ UNCHANGED <<task, frame, restarts, given, sps, pps, ppsSize, spsBuf, ppsBuf>>

MallocSps == /\ FeederAt("mallocSps", "copySps")
             /\ sps' = frame /\ spsBuf' = [spsBuf EXCEPT ![frame] = "raw"]
             /\ Changes
             /\ UNCHANGED <<task, frame, restarts, given, spsSize, pps, ppsSize, ppsBuf>>

CopySps == /\ FeederAt("copySps", IF PpsLen[frame] > 0 THEN "searchPps" ELSE "push")
           /\ spsBuf' = [spsBuf EXCEPT ![frame] = "filled"]
           /\ given' = [sps |-> frame, pps |-> 0]
           /\ Changes
           /\ UNCHANGED <<task, frame, restarts, sps, spsSize, pps, ppsSize, ppsBuf>>

(* mutant: the count is left where the search stopped *)
SearchPpsBeyond == /\ FeederAt("searchPps", "mallocPps")
                   /\ ppsSize' = PpsLen[frame] + Overrun
                   /\ Changes
                   /\ UNCHANGED <<task, frame, restarts, given, sps, spsSize, pps, spsBuf, ppsBuf>>

SearchPps == /\ \/ FeederAt("searchPps", "searchPps")
                   /\ ppsSize' \in 1..(PpsLen[frame] + Overrun)
                \/ FeederAt("searchPps", "mallocPps") /\ ppsSize' = PpsLen[frame]
             /\ Changes
             /\ UNCHANGED <<task, frame, restarts, given, sps, spsSize, pps, spsBuf, ppsBuf>>

MallocPps == /\ FeederAt("mallocPps", "copyPps")
             /\ pps' = frame /\ ppsBuf' = [ppsBuf EXCEPT ![frame] = "raw"]
             /\ Changes
             /\ UNCHANGED <<task, frame, restarts, given, sps, spsSize, ppsSize, spsBuf>>

CopyPps == /\ FeederAt("copyPps", "push")
           /\ ppsBuf' = [ppsBuf EXCEPT ![frame] = "filled"]
           /\ given' = [given EXCEPT !.pps = frame]
           /\ Changes
           /\ UNCHANGED <<task, frame, restarts, sps, spsSize, pps, ppsSize, spsBuf>>

(* the rest of the frame goes to the FIFO *)
Push == /\ FeederAt("push", "idle")
        /\ video' = TRUE
        /\ UNCHANGED <<task, frame, restarts, given, bufferVars, sender, packetVars,
                       hasSendSps, wireVars, overlap, excused, resumed, corrupt>>

(* the rest of beforeSendData *)
ResetClear == /\ FeederAt("clear", "flags")
              /\ video' = FALSE
              /\ UNCHANGED <<task, frame, restarts, given, bufferVars, sender, packetVars,
                             hasSendSps, wireVars, overlap, excused, resumed, corrupt>>
ResetFlags == /\ FeederAt("flags", "close")
              /\ hasSendSps' = FALSE
              /\ UNCHANGED <<task, frame, restarts, given, bufferVars, video, sender,
                             packetVars, wireVars, overlap, excused, resumed, corrupt>>
ResetClose == /\ FeederAt("close", "idle")
              /\ open' = FALSE
              /\ UNCHANGED <<task, frame, restarts, given, bufferVars, video, sender, packetVars,
                             hasSendSps, header, connections, overlap, excused, resumed, corrupt>>

FeederAccess == \/ StoreBegins \/ PpsBegins \/ ResetBegins
                \/ FreeSps \/ NullSps \/ FreePps \/ NullPps
                \/ SearchSps \/ MallocSps \/ CopySps
                \/ SearchPps \/ MallocPps \/ CopyPps
                \/ Push \/ ResetClear \/ ResetFlags \/ ResetClose
-----------------------------------------------------------------------------
(* The sender *)

SenderAt(here, there) == sender = here /\ sender' = there
Reads == UNCHANGED <<feederVars, bufferVars, video, hasSendSps, wireVars, overlap, resumed,
                     corrupt>>

(* connectStream, and the flags after it                                   *)
ConnectStream == /\ ~open /\ SenderAt("loop", "clearFlags")
                 /\ connections < MaxConnections /\ connections' = connections + 1
                 /\ open' = TRUE /\ header' = Unsent /\ excused' = FALSE /\ resumed' = FALSE
                 /\ UNCHANGED <<feederVars, bufferVars, video, packetVars, hasSendSps, overlap, corrupt>>

(* mutant: the flag is kept over a reconnect *)
FlagsKept == /\ SenderAt("clearFlags", "loop")
             /\ UNCHANGED <<feederVars, bufferVars, video, packetVars, hasSendSps, wireVars,
                            overlap, excused, resumed, corrupt>>

ClearFlags == /\ SenderAt("clearFlags", "loop")
              /\ hasSendSps' = FALSE
              /\ UNCHANGED <<feederVars, bufferVars, video, packetVars, wireVars, overlap,
                             excused, resumed, corrupt>>

(* a video packet is in front: the header first, unless it was sent *)
Look == /\ open /\ video
        /\ IF hasSendSps THEN SenderAt("loop", "send") /\ UNCHANGED overlap
                         ELSE SenderAt("loop", "checkSps")
                              /\ overlap' = (feeder \notin {"idle", "push", "clear", "flags", "close"})
        /\ UNCHANGED <<feederVars, bufferVars, video, packetVars, hasSendSps, wireVars,
                       excused, resumed, corrupt>>

(* the test at the head of getSpsAndPps; without a packet the flag is set too *)
NoPacket == /\ sender' = "send" /\ hasSendSps' = TRUE
            /\ excused' = (overlap \/ given.sps = 0 \/ given.pps = 0)
            /\ UNCHANGED <<feederVars, bufferVars, video, packetVars, wireVars, overlap, resumed,
                           corrupt>>

Check(here, set, there) ==
    \/ set /\ SenderAt(here, there) /\ Reads /\ UNCHANGED <<packetVars, excused>>
    \/ ~set /\ sender = here /\ NoPacket

GetSpsAndPps == \/ Check("checkSps", sps # 0, "checkSpsSize")
                \/ Check("checkSpsSize", spsSize > 0, "checkPps")
                \/ Check("checkPps", pps # 0, "checkPpsSize")
                \/ Check("checkPpsSize", ppsSize > 0, "sizeSps")

(* body_size, then RTMPPacket_Alloc, which zeroes *)
SizeSps == /\ SenderAt("sizeSps", "sizePps")
           /\ room' = spsSize
           /\ Reads /\ UNCHANGED <<arg, argSize, parts, excused>>
SizePps == /\ SenderAt("sizePps", "argsSps")
           /\ room' = room + ppsSize /\ parts' = NoParts
           /\ Reads /\ UNCHANGED <<arg, argSize, excused>>

(* a pointer and a size, evaluated in any order *)
Argument(here, pointer, size, ptrLeft, sizeLeft, there) ==
    /\ \/ SenderAt(here, sizeLeft) /\ arg' = pointer /\ UNCHANGED argSize
       \/ SenderAt(here, ptrLeft) /\ argSize' = size /\ UNCHANGED arg
       \/ SenderAt(sizeLeft, there) /\ argSize' = size /\ UNCHANGED arg
       \/ SenderAt(ptrLeft, there) /\ arg' = pointer /\ UNCHANGED argSize
    /\ Reads /\ UNCHANGED <<room, parts, excused>>

ArgumentsSps == Argument("argsSps", sps, spsSize, "argSps", "argSpsSize", "packSps")
ArgumentsPps == Argument("argsPps", pps, ppsSize, "argPps", "argPpsSize", "packPps")

Contents(buf, len) == IF buf[arg] = "filled" /\ argSize = len[arg] THEN arg ELSE -1

Corrupts == /\ corrupt' = TRUE
        /\ UNCHANGED <<feederVars, bufferVars, video, sender, packetVars, hasSendSps,
                       wireVars, overlap, excused, resumed>>

(* without a buffer packetSPSData returns NULL, and packetPPSData then too *)
PackSps ==
    \/ /\ arg = 0 \/ argSize = 0
       /\ SenderAt("packSps", "sendSps")
       /\ Reads /\ UNCHANGED <<packetVars, excused>>
    \/ /\ arg # 0 /\ argSize > 0 /\ spsBuf[arg] # "freed" /\ argSize <= room + 3
       /\ SenderAt("packSps", "argsPps")
       /\ parts' = [parts EXCEPT !.sps = Contents(spsBuf, SpsLen)]
       /\ room' = room - argSize
       /\ Reads /\ UNCHANGED <<arg, argSize, excused>>
    \/ /\ arg # 0 /\ argSize > 0 /\ (spsBuf[arg] = "freed" \/ argSize > room + 3)
       /\ sender = "packSps" /\ Corrupts

PackPps ==
    \/ /\ arg = 0 \/ argSize = 0
       /\ SenderAt("packPps", "sendSps")
       /\ Reads /\ UNCHANGED <<packetVars, excused>>
    \/ /\ arg # 0 /\ argSize > 0 /\ ppsBuf[arg] # "freed" /\ argSize <= room
       /\ SenderAt("packPps", "sendSps")
       /\ parts' = [parts EXCEPT !.pps = Contents(ppsBuf, PpsLen)]
       /\ Reads /\ UNCHANGED <<room, arg, argSize, excused>>
    \/ /\ arg # 0 /\ argSize > 0 /\ (ppsBuf[arg] = "freed" \/ argSize > room)
       /\ sender = "packPps" /\ Corrupts

(* RTMP_SendPacket of the header: the flag is set, or the connection closed *)
SendHeader == /\ \/ open /\ SenderAt("sendSps", "flagSps") /\ header' = parts /\ UNCHANGED open
                 \/ SenderAt("sendSps", "loop") /\ open' = FALSE /\ UNCHANGED header
              /\ UNCHANGED <<feederVars, bufferVars, video, packetVars, hasSendSps, connections,
                             overlap, excused, resumed, corrupt>>
SetFlag == /\ SenderAt("flagSps", "send")
           /\ hasSendSps' = TRUE
           /\ UNCHANGED <<feederVars, bufferVars, video, packetVars, wireVars, overlap,
                          excused, resumed, corrupt>>

(* RTMP_SendPacket of the video packet *)
SendVideo == /\ SenderAt("send", "loop")
             /\ \/ open /\ video' \in {video, FALSE} /\ UNCHANGED open
                \/ open' = FALSE /\ UNCHANGED video
             /\ UNCHANGED <<feederVars, bufferVars, packetVars, hasSendSps, header,
                            connections, overlap, excused, resumed, corrupt>>

(* it times out: only the socket is connected again, no flag is cleared,   *)
(* and the packet is next.  If that fails, all is as in SendVideo.         *)
SendTimesOut == /\ open /\ SenderAt("send", "loop")
                /\ connections < MaxConnections /\ connections' = connections + 1
                /\ header' = Unsent /\ excused' = FALSE /\ resumed' = TRUE
                /\ UNCHANGED <<feederVars, bufferVars, video, packetVars, hasSendSps, open,
                               overlap, corrupt>>

SenderAccess == \/ ConnectStream \/ ClearFlags \/ Look \/ GetSpsAndPps
                \/ SizeSps \/ SizePps \/ ArgumentsSps \/ PackSps \/ ArgumentsPps \/ PackPps
                \/ SendHeader \/ SetFlag \/ SendVideo \/ SendTimesOut

(* The application has nothing more to push, or nothing can be said. *)
HeadersEnded == /\ corrupt \/ (feeder = "idle" /\ sender = "loop")
                /\ UNCHANGED headerVars

HeadersNext == \/ ~corrupt /\ (FeederAccess \/ SenderAccess)
               \/ HeadersEnded

HeadersSpec == HeadersInit /\ [][HeadersNext]_headerVars
-----------------------------------------------------------------------------
(***************************************************************************)
(* A header packet joins the sets that were given last, whole and inside   *)
(* its own body, unless the application changed the buffers while it was   *)
(* made.                                                                   *)
(***************************************************************************)
HeaderAsGiven ==
    [][~overlap => /\ header' \in {header, Unsent, given}
                   /\ corrupt' = corrupt]_headerVars

(***************************************************************************)
(* Even then, a packet never has an SPS with the PPS of an earlier frame:  *)
(* the old PPS is gone before the new SPS is there.                        *)
(***************************************************************************)
PpsNeverOlder == header.sps > 0 /\ header.pps > 0 => header.sps <= header.pps

(***************************************************************************)
(* Video goes out on a connection without a header packet only if no pair  *)
(* of sets had been given, or they were being replaced when the sender     *)
(* looked (the flag is set all the same, and the header never comes), or   *)
(* if the socket was only connected again after a timeout.  Such a         *)
(* connection has a header only where a reset has cleared the flag and not *)
(* closed it yet.                                                          *)
(***************************************************************************)
HeaderSkippedOnlyWhenKnown ==
    [][/\ sender = "send" /\ sender' = "loop" /\ open' /\ header = Unsent => excused \/ resumed
       /\ resumed /\ header' \notin {header, Unsent} => feeder = "close"]_headerVars
=============================================================================

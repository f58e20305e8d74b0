-------------------------- MODULE SharedConnection --------------------------
(***************************************************************************)
(* The RTMP object that two threads of a publishing client share, at the   *)
(* grain of the system calls and frees on it: the sender                   *)
(* (clientStreamThread) connects, sends and closes, while the feeder's     *)
(* beforeSendData may call RTMP_Close at any moment.  Neither takes a      *)
(* lock.  A descriptor is a number that the kernel hands out again as soon *)
(* as it is closed, and in a relay the server's accept thread, in the same *)
(* process, is there to be given it.                                       *)
(*                                                                         *)
(* RTMP_SendPacket keeps the last packet of a channel, and RTMP_Close,     *)
(* which sends one itself (SendFCUnpublish), frees it.  The module follows *)
(* one channel's record; a send is of that channel or of another.  Both    *)
(* threads send on the channel of the commands, and only the sender on     *)
(* those of the media.                                                     *)
(*                                                                         *)
(* ClientSender and StreamServer take RTMP_Close as one step; this module  *)
(* says what that leaves out.  Once freed memory has been used (`wild')    *)
(* nothing more is said.                                                   *)
(***************************************************************************)
EXTENDS Integers

CONSTANTS Fd,            \* the numbers a descriptor can have
          MaxConnects,   \* bound: sockets the sender opens
          MaxResets,     \* bound: calls of beforeSendData
          MaxOpens       \* bound: descriptors the rest of the process opens

ASSUME FdAssumption == Fd \subseteq Nat
ASSUME BoundAssumption == MaxConnects \in Nat \ {0} /\ MaxResets \in Nat /\ MaxOpens \in Nat

Thread == {"sender", "feeder"}

VARIABLES
    at,          \* where each thread is
    sb_socket,   \* RTMP.m_sb.sb_socket, a number or -1
    owner,       \* whose each descriptor is: "free", "client" or "other"
    record,      \* m_vecChannelsOut[c]: "none", "live", or "dangling" after its free
    prevPacket,  \* by thread: its copy of that pointer in RTMP_SendPacket, or "elsewhere"
    returnTo,    \* by thread: what called RTMP_SendPacket, the "loop" or the "close"
    connects, resets, opens,
    (* auxiliary *)
    unresolved,  \* does sb_socket hold a number closed before a name did not resolve?
    raced,       \* has a socket been opened while the feeder was closing another?
    freedSince,  \* by thread: has the record been freed since it entered RTMP_SendPacket?
    hit,         \* did the last step use a descriptor of another part of the process?
    wild         \* has freed memory been used?

kernelVars == <<sb_socket, owner>>
memoryVars == <<record, prevPacket, returnTo, freedSince>>
boundVars == <<connects, resets, opens>>
auxVars == <<unresolved, raced>>
vars == <<at, kernelVars, memoryVars, boundVars, auxVars, hit, wild>>

(* startRtmpClient has connected once and started the thread *)
Init == /\ at = [t \in Thread |-> IF t = "sender" THEN "connect" ELSE "idle"]
        /\ \E d \in Fd : /\ sb_socket = d
                         /\ owner = [e \in Fd |-> IF e = d THEN "client" ELSE "free"]
        /\ record = "none"
        /\ prevPacket = [t \in Thread |-> "none"] /\ returnTo = [t \in Thread |-> "close"]
        /\ freedSince = [t \in Thread |-> FALSE]
        /\ connects = 0 /\ resets = 0 /\ opens = 0
        /\ unresolved = FALSE /\ raced = FALSE /\ hit = FALSE /\ wild = FALSE
-----------------------------------------------------------------------------
Goes(t, here, there) == at[t] = here /\ at' = [at EXCEPT ![t] = there]

Connected == sb_socket # -1
Mine == Connected /\ owner[sb_socket] = "client"
Foreign == Connected /\ owner[sb_socket] = "other"

Free == {d \in Fd : owner[d] = "free"}
Lowest(d) == d \in Free /\ \A e \in Free : d <= e

(* close(sb_socket), whatever the number now stands for *)
CloseDescriptor ==
    /\ owner' = [d \in Fd |-> IF d = sb_socket THEN "free" ELSE owner[d]]
    /\ hit' = Foreign

UsesFreed == /\ wild' = TRUE
             /\ hit' = FALSE
             /\ UNCHANGED <<at, kernelVars, memoryVars, boundVars, auxVars>>
-----------------------------------------------------------------------------
(* RTMP_SendPacket, in thread t: prevPacket is read, used, the chunks are  *)
(* written, and the packet is kept as the channel's last one               *)

Sending == {"take", "compress", "write", "keep", "copy"}

Calls(t, here, caller) == /\ Goes(t, here, "take")
                          /\ returnTo' = [returnTo EXCEPT ![t] = caller]

Returns(t, here, there) == /\ Goes(t, here, there)
                           /\ prevPacket' = [prevPacket EXCEPT ![t] = "none"]
                           /\ freedSince' = [freedSince EXCEPT ![t] = FALSE]

TakePrevious(t) ==
    /\ \/ Goes(t, "take", "compress") /\ prevPacket' = [prevPacket EXCEPT ![t] = record]
       \/ Goes(t, "take", "write") /\ prevPacket' = [prevPacket EXCEPT ![t] = "elsewhere"]
    /\ freedSince' = [freedSince EXCEPT ![t] = record = "dangling"]
    /\ hit' = FALSE
    /\ UNCHANGED <<kernelVars, record, returnTo, boundVars, auxVars, wild>>

(* a LARGE packet, which SendFCUnpublish's is not, does not look at it     *)
Compress(t) == \/ /\ prevPacket[t] # "dangling" \/ returnTo[t] = "loop"
                  /\ Goes(t, "compress", "write")
                  /\ hit' = FALSE
                  /\ UNCHANGED <<kernelVars, memoryVars, boundVars, auxVars, wild>>
               \/ at[t] = "compress" /\ prevPacket[t] = "dangling" /\ UsesFreed

(* a failure ends the connection, or opens the next one if it timed out;   *)
(* SendFCUnpublish's is ignored                                            *)
Write(t) ==
    /\ \/ /\ (Mine \/ Foreign) /\ prevPacket[t] # "elsewhere"
          /\ Goes(t, "write", "keep") /\ UNCHANGED <<prevPacket, freedSince>>
       \/ /\ (Mine \/ Foreign) /\ prevPacket[t] = "elsewhere"
          /\ Returns(t, "write", returnTo[t])
       \/ returnTo[t] = "close" /\ Returns(t, "write", "close")
       \/ returnTo[t] = "loop" /\ Returns(t, "write", "test")
       \/ /\ returnTo[t] = "loop" /\ (Mine \/ Foreign) /\ connects < MaxConnects
          /\ Returns(t, "write", "connect")
    /\ hit' = Foreign
    /\ UNCHANGED <<kernelVars, record, returnTo, boundVars, auxVars, wild>>

Keep(t) == /\ Goes(t, "keep", "copy")
           /\ record' = IF record = "none" THEN "live" ELSE record
           /\ hit' = FALSE
           /\ UNCHANGED <<kernelVars, prevPacket, returnTo, freedSince, boundVars, auxVars, wild>>

Copy(t) == \/ /\ record = "live"
              /\ Returns(t, "copy", returnTo[t])
              /\ hit' = FALSE
              /\ UNCHANGED <<kernelVars, record, returnTo, boundVars, auxVars, wild>>
           \/ at[t] = "copy" /\ record # "live" /\ UsesFreed

RtmpSendPacket(t) == \/ TakePrevious(t) \/ Compress(t) \/ Write(t)
                     \/ Keep(t) \/ Copy(t)
-----------------------------------------------------------------------------
(* RTMP_Close, in thread t *)

Test(t) == /\ \/ ~Connected /\ Goes(t, "test", "reset")
              \/ Connected /\ Goes(t, "test", "close")
           /\ hit' = FALSE
           /\ UNCHANGED <<kernelVars, memoryVars, boundVars, auxVars, wild>>

(* SendFCUnpublish, when the stream id is positive *)
Unpublish(t) == /\ Connected
                /\ Calls(t, "test", "close")
                /\ hit' = FALSE
                /\ UNCHANGED <<kernelVars, record, prevPacket, freedSince, boundVars,
                               auxVars, wild>>

CloseSocket(t) == /\ Goes(t, "close", "reset")
                  /\ CloseDescriptor
                  /\ UNCHANGED <<sb_socket, memoryVars, boundVars, auxVars, wild>>

(* mutant: the number is kept *)
ResetNothing(t) == /\ Goes(t, "reset", "free")
                   /\ hit' = FALSE
                   /\ UNCHANGED <<kernelVars, memoryVars, boundVars, auxVars, wild>>

Reset(t) == /\ Goes(t, "reset", "free")
            /\ sb_socket' = -1 /\ unresolved' = FALSE
            /\ hit' = FALSE
            /\ UNCHANGED <<owner, memoryVars, boundVars, raced, wild>>

(* the sender calls RTMP_Close more than once in a row: where connecting   *)
(* fails, in connectStream and after its inner loop                        *)
Leaves(t, here) ==
    \/ t = "feeder" /\ Goes(t, here, "idle")
    \/ t = "sender" /\ \E there \in {"test", "exited"} \cup
                            (IF connects < MaxConnects THEN {"connect"} ELSE {}) :
                         Goes(t, here, there)

(* if (r->m_vecChannelsOut[i]) free(...), then = NULL *)
FreeRecord(t) ==
    /\ \/ /\ record = "live" /\ record' = "dangling"
          /\ prevPacket' = [u \in Thread |-> IF prevPacket[u] = "live" THEN "dangling"
                                                                     ELSE prevPacket[u]]
          /\ freedSince' = [u \in Thread |-> freedSince[u] \/ at[u] \in Sending]
          /\ Goes(t, "free", "forget")
       \/ /\ record = "none" /\ Leaves(t, "free")
          /\ UNCHANGED <<record, prevPacket, freedSince>>
    /\ hit' = FALSE
    /\ UNCHANGED <<kernelVars, returnTo, boundVars, auxVars, wild>>

FreeTwice(t) == at[t] = "free" /\ record = "dangling" /\ UsesFreed

(* mutant: the freed record is not forgotten *)
RecordKept(t) == /\ Leaves(t, "forget")
                 /\ hit' = FALSE
                 /\ UNCHANGED <<kernelVars, memoryVars, boundVars, auxVars, wild>>

ForgetRecord(t) == /\ Leaves(t, "forget")
                   /\ record' = "none"
                   /\ hit' = FALSE
                   /\ UNCHANGED <<kernelVars, prevPacket, returnTo, freedSince, boundVars,
                                  auxVars, wild>>

RtmpClose(t) == \/ Test(t) \/ Unpublish(t) \/ CloseSocket(t) \/ Reset(t)
                \/ FreeRecord(t) \/ FreeTwice(t) \/ ForgetRecord(t)
-----------------------------------------------------------------------------
(* The sender: connectSocket, then packets until something fails *)

ConnectSocket ==
    /\ IF Connected THEN Goes("sender", "connect", "shut")
                    ELSE Goes("sender", "connect", "resolve")
    /\ hit' = FALSE
    /\ UNCHANGED <<kernelVars, memoryVars, boundVars, auxVars, wild>>

(* mutant: the old socket stays open *)
ShutNothing == /\ Goes("sender", "shut", "resolve")
               /\ hit' = FALSE
               /\ UNCHANGED <<kernelVars, memoryVars, boundVars, auxVars, wild>>

(* RTMPSockBuf_Close: the number stays in sb_socket *)
Shut == /\ Goes("sender", "shut", "resolve")
        /\ CloseDescriptor
        /\ UNCHANGED <<sb_socket, memoryVars, boundVars, auxVars, wild>>

(* add_addr_info; without an address RTMP_Connect returns at once *)
Resolve == /\ \/ Goes("sender", "resolve", "open") /\ UNCHANGED unresolved
              \/ Goes("sender", "resolve", "loop") /\ unresolved' = Connected
           /\ hit' = FALSE
           /\ UNCHANGED <<kernelVars, memoryVars, boundVars, raced, wild>>

Closing == Sending \cup {"close", "reset"}

(* RTMP_Connect0; a connection that fails is closed.  The handshake and    *)
(* the commands on the new socket are sends like those from `loop' on.     *)
Open == /\ Goes("sender", "open", "loop") \/ Goes("sender", "open", "test")
        /\ connects' = connects + 1
        /\ \/ \E d \in Fd : /\ Lowest(d)
                            /\ sb_socket' = d
                            /\ owner' = [owner EXCEPT ![d] = "client"]
           \/ Free = {} /\ sb_socket' = -1 /\ UNCHANGED owner
        /\ unresolved' = FALSE
        /\ raced' = (raced \/ at["feeder"] \in Closing)
        /\ hit' = FALSE
        /\ UNCHANGED <<memoryVars, resets, opens, wild>>

(* while (m_bPlaying && runThread && RTMP_IsConnected) *)
Loop == /\ \/ Connected /\ Calls("sender", "loop", "loop")
           \/ Goes("sender", "loop", "test") /\ UNCHANGED returnTo
        /\ hit' = FALSE
        /\ UNCHANGED <<kernelVars, record, prevPacket, freedSince, boundVars, auxVars, wild>>

SenderStep == \/ ConnectSocket \/ Shut \/ Resolve \/ Open \/ Loop
              \/ RtmpSendPacket("sender") \/ RtmpClose("sender")
-----------------------------------------------------------------------------
BeforeSendData == /\ resets < MaxResets
                  /\ Goes("feeder", "idle", "test")
                  /\ resets' = resets + 1
                  /\ hit' = FALSE
                  /\ UNCHANGED <<kernelVars, memoryVars, connects, opens, auxVars, wild>>

FeederStep == BeforeSendData \/ RtmpSendPacket("feeder") \/ RtmpClose("feeder")

(* the rest of the process: the server's accept and close *)
OtherOpens == /\ opens < MaxOpens
              /\ \E d \in Fd : Lowest(d) /\ owner' = [owner EXCEPT ![d] = "other"]
              /\ opens' = opens + 1
              /\ hit' = FALSE
              /\ UNCHANGED <<at, sb_socket, memoryVars, connects, resets, auxVars, wild>>

OtherCloses == /\ \E d \in Fd : /\ owner[d] = "other"
                                /\ owner' = [owner EXCEPT ![d] = "free"]
               /\ hit' = FALSE
               /\ UNCHANGED <<at, sb_socket, memoryVars, boundVars, auxVars, wild>>

(* The sender has exited and nobody resets, or nothing can be said. *)
Ended == /\ wild \/ (at["sender"] = "exited" /\ at["feeder"] = "idle")
         /\ UNCHANGED vars

Next == \/ ~wild /\ (SenderStep \/ FeederStep \/ OtherOpens \/ OtherCloses)
        \/ Ended

Spec == Init /\ [][Next]_vars
-----------------------------------------------------------------------------
(***************************************************************************)
(* Every variable stays within the values the threads give it.             *)
(***************************************************************************)
TypeOK ==
    /\ at \in [Thread -> {"idle", "connect", "shut", "resolve", "open", "loop", "test",
                          "close", "reset", "free", "forget", "exited"} \cup Sending]
    /\ sb_socket \in Fd \cup {-1}
    /\ owner \in [Fd -> {"free", "client", "other"}]
    /\ record \in {"none", "live", "dangling"}
    /\ prevPacket \in [Thread -> {"none", "live", "dangling", "elsewhere"}]
    /\ returnTo \in [Thread -> {"loop", "close"}] /\ freedSince \in [Thread -> BOOLEAN]
    /\ connects \in 0..MaxConnects /\ resets \in 0..MaxResets /\ opens \in 0..MaxOpens
    /\ unresolved \in BOOLEAN /\ raced \in BOOLEAN /\ hit \in BOOLEAN /\ wild \in BOOLEAN

(***************************************************************************)
(* A socket the client has opened stays in sb_socket until it is closed,   *)
(* so that somebody closes it; it is lost only when it was opened while a  *)
(* reset was between looking at the old one and setting sb_socket to -1.   *)
(***************************************************************************)
SocketLostOnlyByRace ==
    \A d \in Fd : owner[d] = "client" /\ d # sb_socket => raced

(***************************************************************************)
(* sb_socket holds a number that is not the client's socket only from a    *)
(* close to the assignment that follows it in the same thread, or after a  *)
(* name did not resolve.                                                   *)
(***************************************************************************)
StaleNumberOnlyWhileClosing ==
    Connected /\ ~Mine => \/ at["feeder"] = "reset"
                          \/ at["sender"] \in {"resolve", "open", "reset"}
                          \/ unresolved

(***************************************************************************)
(* The client writes to or closes a connection of the rest of the process, *)
(* in a relay the publisher's, only if both threads are closing at once or *)
(* if a name did not resolve on an earlier reconnect.                      *)
(***************************************************************************)
OthersHitOnlyWhenKnown ==
    [][hit' => \/ unresolved
               \/ at["feeder"] = "reset"
               \/ /\ at["feeder"] \in {"write", "close"}
                  /\ at["sender"] \in {"resolve", "open", "reset"}]_vars

(***************************************************************************)
(* Freed memory is used only by a thread inside RTMP_SendPacket, sending   *)
(* or unpublishing, whose channel record the other thread's RTMP_Close has *)
(* freed since it entered, or where both threads free it; and never        *)
(* without a reset.                                                        *)
(***************************************************************************)
WildOnlyWhereShared ==
    [][wild' # wild =>
         /\ resets > 0
         /\ \/ \E t \in Thread : at[t] \in {"compress", "copy"} /\ freedSince[t]
            \/ {at["sender"], at["feeder"]} \subseteq {"free", "forget"}]_vars
=============================================================================

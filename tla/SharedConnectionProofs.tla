----------------------- MODULE SharedConnectionProofs -----------------------
(***************************************************************************)
(* Proofs about SharedConnection: for every set of descriptor numbers and  *)
(* every bound, its types, where sb_socket may hold a number that is not   *)
(* the client's, and which steps lose a socket, hit a descriptor of the    *)
(* rest of the process or use freed memory.                                *)
(***************************************************************************)
EXTENDS SharedConnection, TLAPS

(* A socket is opened only where sb_socket holds none of the client's, and *)
(* set to -1 only where it is closed, if no open came in between.          *)
SocketsKept ==
    /\ SocketLostOnlyByRace
    /\ at["sender"] \in {"resolve", "open"} => ~Mine
    /\ \A t \in Thread : at[t] = "reset" /\ Mine => raced

(* A freed record is one that a close is about to forget, and a thread     *)
(* inside RTMP_SendPacket that sees one knows it from the other thread.    *)
(* Without a reset only the sender closes, and not inside RTMP_SendPacket. *)
RecordKnown ==
    /\ record = "dangling" => \E t \in Thread : at[t] = "forget"
    /\ ~(at["sender"] = "forget" /\ at["feeder"] = "forget")
    /\ \A t \in Thread :
         /\ at[t] = "forget" => record = "dangling"
         /\ at[t] \in Sending \ {"take"} /\ record = "dangling" => freedSince[t]
         /\ at[t] \in Sending /\ prevPacket[t] = "dangling" => freedSince[t]
         /\ at[t] = "copy" /\ record = "none" => freedSince[t]
         /\ at[t] \notin Sending => ~freedSince[t] /\ prevPacket[t] = "none"
    /\ resets = 0 => at["feeder"] = "idle" /\ ~freedSince["sender"]

(* The sender goes to connect only while it may open one more socket.      *)
ConnectsLeft ==
    at["sender"] \in {"connect", "shut", "resolve", "open"} => connects < MaxConnects
-----------------------------------------------------------------------------
(***************************************************************************)
(* The initial states satisfy the types and the invariants.                *)
(***************************************************************************)
LEMMA InitAll == Init => /\ TypeOK /\ ConnectsLeft /\ SocketsKept
                         /\ StaleNumberOnlyWhileClosing /\ RecordKnown
<1> SUFFICES ASSUME Init PROVE /\ TypeOK /\ ConnectsLeft /\ SocketsKept
                               /\ StaleNumberOnlyWhileClosing /\ RecordKnown
  OBVIOUS
<1> USE FdAssumption, BoundAssumption DEF Init, Thread
<1>1. PICK d \in Fd : /\ sb_socket = d
                      /\ owner = [e \in Fd |-> IF e = d THEN "client" ELSE "free"]
  OBVIOUS
<1>2. TypeOK
  <2>1. owner \in [Fd -> {"free", "client", "other"}]
    BY <1>1
  <2>2. at \in [Thread -> {"idle", "connect", "shut", "resolve", "open", "loop", "test",
                          "close", "reset", "free", "forget", "exited"} \cup Sending]
    OBVIOUS
  <2>3. connects \in 0..MaxConnects /\ resets \in 0..MaxResets /\ opens \in 0..MaxOpens
    OBVIOUS
  <2>4. unresolved \in BOOLEAN /\ raced \in BOOLEAN /\ hit \in BOOLEAN /\ wild \in BOOLEAN
    OBVIOUS
  <2>5. /\ prevPacket \in [Thread -> {"none", "live", "dangling", "elsewhere"}]
        /\ returnTo \in [Thread -> {"loop", "close"}] /\ freedSince \in [Thread -> BOOLEAN]
    OBVIOUS
  <2> QED BY <1>1, <2>1, <2>2, <2>3, <2>4, <2>5 DEF TypeOK
<1>3. SocketsKept /\ StaleNumberOnlyWhileClosing
  BY <1>1 DEF SocketsKept, SocketLostOnlyByRace, StaleNumberOnlyWhileClosing, Mine, Connected
<1>4. RecordKnown
  BY DEF RecordKnown, Sending
<1>5. ConnectsLeft
  BY DEF ConnectsLeft
<1> QED BY <1>2, <1>3, <1>4, <1>5

(***************************************************************************)
(* Every step keeps the types.                                             *)
(***************************************************************************)
LEMMA TypeStep ==
    ASSUME TypeOK, ConnectsLeft, [Next]_vars
    PROVE  TypeOK'
<1> USE FdAssumption, BoundAssumption
<1> USE DEF TypeOK, ConnectsLeft, Thread, Sending, Goes, Connected, Mine, Foreign,
            vars, kernelVars, memoryVars, boundVars, auxVars
<1>1. ASSUME NEW t \in Thread, Test(t) PROVE TypeOK'
  <2>1. PICK there \in {"close", "reset"} : at' = [at EXCEPT ![t] = there]
    BY Zenon, <1>1 DEF Test
  <2>2. UNCHANGED <<kernelVars, memoryVars, boundVars, auxVars, wild>> /\ hit' = FALSE
    BY <1>1 DEF Test
  <2> QED BY <2>1, <2>2
<1>2. ASSUME NEW t \in Thread, Unpublish(t) PROVE TypeOK'
  BY <1>2 DEF Unpublish, Calls
<1>3. ASSUME NEW t \in Thread, CloseSocket(t) PROVE TypeOK'
  BY <1>3 DEF CloseSocket, CloseDescriptor
<1>4. ASSUME NEW t \in Thread, Reset(t) PROVE TypeOK'
  BY <1>4 DEF Reset
<1>5. ASSUME NEW t \in Thread, FreeRecord(t) PROVE TypeOK'
  <2>1. PICK there \in {"forget", "idle", "test", "exited", "connect"} :
             at' = [at EXCEPT ![t] = there]
    BY <1>5 DEF FreeRecord, Leaves
  <2>2. /\ UNCHANGED <<kernelVars, returnTo, boundVars, auxVars, wild>>
        /\ record' \in {"none", "dangling"} /\ hit' = FALSE
    BY <1>5 DEF FreeRecord
  <2>3. /\ prevPacket' \in [Thread -> {"none", "live", "dangling", "elsewhere"}]
        /\ freedSince' \in [Thread -> BOOLEAN]
    <3>1. CASE UNCHANGED <<record, prevPacket, freedSince>>
      BY <3>1
    <3>2. CASE record = "live"
      <4>1. prevPacket' = [u \in Thread |-> IF prevPacket[u] = "live" THEN "dangling"
                                                                     ELSE prevPacket[u]]
        BY <1>5, <3>2 DEF FreeRecord
      <4>2. freedSince' = [u \in Thread |-> freedSince[u] \/ at[u] \in Sending]
        BY <1>5, <3>2 DEF FreeRecord
      <4>3. freedSince' \in [Thread -> BOOLEAN]
        BY Zenon, <4>2
      <4> QED BY <4>1, <4>3
    <3> QED BY Zenon, <1>5, <3>1, <3>2 DEF FreeRecord
  <2> QED BY <2>1, <2>2, <2>3
<1>6. ASSUME NEW t \in Thread, FreeTwice(t) PROVE TypeOK'
  BY <1>6 DEF FreeTwice, UsesFreed
<1>7. ASSUME NEW t \in Thread, ForgetRecord(t) PROVE TypeOK'
  <2>1. PICK there \in {"idle", "test", "exited", "connect"} : at' = [at EXCEPT ![t] = there]
    BY <1>7 DEF ForgetRecord, Leaves
  <2>2. /\ UNCHANGED <<kernelVars, prevPacket, returnTo, freedSince, boundVars, auxVars, wild>>
        /\ record' = "none" /\ hit' = FALSE
    BY <1>7 DEF ForgetRecord
  <2> QED BY <2>1, <2>2
<1>8. CASE ConnectSocket
  <2>1. PICK there \in {"shut", "resolve"} : at' = [at EXCEPT !["sender"] = there]
    BY Zenon, <1>8 DEF ConnectSocket
  <2>2. UNCHANGED <<kernelVars, memoryVars, boundVars, auxVars, wild>> /\ hit' = FALSE
    BY <1>8 DEF ConnectSocket
  <2> QED BY <2>1, <2>2
<1>9. CASE Shut
  BY <1>9 DEF Shut, CloseDescriptor
<1>10. CASE Resolve
  BY <1>10 DEF Resolve
<1>11. CASE Open
  <2>1. at' \in {[at EXCEPT !["sender"] = "loop"], [at EXCEPT !["sender"] = "test"]}
    BY Zenon, <1>11 DEF Open
  <2>2. connects' \in 0..MaxConnects
    BY <1>11 DEF Open
  <2>3. sb_socket' \in Fd \cup {-1} /\ owner' \in [Fd -> {"free", "client", "other"}]
    BY <1>11 DEF Open, Lowest, Free
  <2>4. raced' \in BOOLEAN
    BY Zenon, <1>11 DEF Open
  <2>5. UNCHANGED <<memoryVars, resets, opens, wild>> /\ hit' = FALSE /\ unresolved' = FALSE
    BY <1>11 DEF Open
  <2>6. at' \in [Thread -> {"idle", "connect", "shut", "resolve", "open", "loop", "test",
                           "close", "reset", "free", "forget", "exited"} \cup Sending]
    BY <2>1
  <2> QED BY <2>2, <2>3, <2>4, <2>5, <2>6
<1>12. CASE Loop
  <2>1. PICK there \in {"take", "test"} : at' = [at EXCEPT !["sender"] = there]
    BY <1>12 DEF Loop, Calls
  <2>2. returnTo' \in {returnTo, [returnTo EXCEPT !["sender"] = "loop"]}
    BY <1>12 DEF Loop, Calls
  <2>3. returnTo' \in [Thread -> {"loop", "close"}]
    BY <2>2
  <2> QED BY <1>12, <2>1, <2>3 DEF Loop
<1>13. ASSUME NEW t \in Thread, TakePrevious(t) PROVE TypeOK'
  <2>1. PICK there \in {"compress", "write"} : at' = [at EXCEPT ![t] = there]
    BY <1>13 DEF TakePrevious
  <2>2. PICK p \in {record, "elsewhere"} : prevPacket' = [prevPacket EXCEPT ![t] = p]
    BY <1>13 DEF TakePrevious
  <2>3. prevPacket' \in [Thread -> {"none", "live", "dangling", "elsewhere"}]
    BY <2>2
  <2>4. PICK b \in BOOLEAN : freedSince' = [freedSince EXCEPT ![t] = b]
    BY Zenon, <1>13 DEF TakePrevious
  <2>5. UNCHANGED <<kernelVars, record, returnTo, boundVars, auxVars, wild>> /\ hit' = FALSE
    BY <1>13 DEF TakePrevious
  <2> QED BY <2>1, <2>3, <2>4, <2>5
<1>14. ASSUME NEW t \in Thread, Compress(t) PROVE TypeOK'
  <2>1. at' \in {at, [at EXCEPT ![t] = "write"]}
    BY <1>14 DEF Compress, UsesFreed
  <2>2. /\ UNCHANGED <<kernelVars, memoryVars, boundVars, auxVars>>
        /\ hit' = FALSE /\ wild' \in {wild, TRUE}
    BY <1>14 DEF Compress, UsesFreed
  <2>3. hit' \in BOOLEAN /\ wild' \in BOOLEAN
    BY Zenon, <2>2
  <2>4. at' \in [Thread -> {"idle", "connect", "shut", "resolve", "open", "loop", "test",
                           "close", "reset", "free", "forget", "exited"} \cup Sending]
    BY <2>1
  <2> QED BY <2>2, <2>3, <2>4
<1>15. ASSUME NEW t \in Thread, Write(t) PROVE TypeOK'
  <2>1. PICK there \in {"keep", "close", "test", "connect", "loop"} :
             at' = [at EXCEPT ![t] = there]
    BY <1>15 DEF Write, Returns
  <2>2. /\ prevPacket' \in {prevPacket, [prevPacket EXCEPT ![t] = "none"]}
        /\ freedSince' \in {freedSince, [freedSince EXCEPT ![t] = FALSE]}
    BY <1>15 DEF Write, Returns
  <2>3. /\ prevPacket' \in [Thread -> {"none", "live", "dangling", "elsewhere"}]
        /\ freedSince' \in [Thread -> BOOLEAN]
    <3>1. [prevPacket EXCEPT ![t] = "none"]
             \in [Thread -> {"none", "live", "dangling", "elsewhere"}]
      OBVIOUS
    <3>2. [freedSince EXCEPT ![t] = FALSE] \in [Thread -> BOOLEAN]
      BY Zenon
    <3> QED BY <2>2, <3>1, <3>2
  <2>4. UNCHANGED <<kernelVars, record, returnTo, boundVars, auxVars, wild>>
    BY <1>15 DEF Write
  <2>5. hit' \in BOOLEAN
    BY <1>15 DEF Write
  <2> QED BY <2>1, <2>3, <2>4, <2>5
<1>16. ASSUME NEW t \in Thread, Keep(t) PROVE TypeOK'
  BY <1>16 DEF Keep
<1>17. ASSUME NEW t \in Thread, Copy(t) PROVE TypeOK'
  <2>1. PICK there \in {at[t], "close", "loop"} : at' = [at EXCEPT ![t] = there]
    BY <1>17 DEF Copy, Returns, UsesFreed
  <2>2. /\ prevPacket' \in {prevPacket, [prevPacket EXCEPT ![t] = "none"]}
        /\ freedSince' \in {freedSince, [freedSince EXCEPT ![t] = FALSE]}
    BY <1>17 DEF Copy, Returns, UsesFreed
  <2>3. /\ prevPacket' \in [Thread -> {"none", "live", "dangling", "elsewhere"}]
        /\ freedSince' \in [Thread -> BOOLEAN]
    <3>1. [prevPacket EXCEPT ![t] = "none"]
             \in [Thread -> {"none", "live", "dangling", "elsewhere"}]
      OBVIOUS
    <3>2. [freedSince EXCEPT ![t] = FALSE] \in [Thread -> BOOLEAN]
      BY Zenon
    <3> QED BY <2>2, <3>1, <3>2
  <2>4. /\ UNCHANGED <<kernelVars, record, returnTo, boundVars, auxVars>>
        /\ hit' = FALSE /\ wild' \in {wild, TRUE}
    BY <1>17 DEF Copy, UsesFreed
  <2>5. hit' \in BOOLEAN /\ wild' \in BOOLEAN
    BY Zenon, <2>4
  <2>6. at' \in [Thread -> {"idle", "connect", "shut", "resolve", "open", "loop", "test",
                           "close", "reset", "free", "forget", "exited"} \cup Sending]
    BY <2>1
  <2> QED BY <2>3, <2>4, <2>5, <2>6
<1>18. CASE BeforeSendData
  <2>1. resets' \in 0..MaxResets
    BY <1>18 DEF BeforeSendData
  <2> QED BY <1>18, <2>1 DEF BeforeSendData
<1>19. CASE OtherOpens
  <2>1. opens' \in 0..MaxOpens
    BY <1>19 DEF OtherOpens
  <2>2. owner' \in [Fd -> {"free", "client", "other"}]
    BY <1>19 DEF OtherOpens, Lowest, Free
  <2> QED BY <1>19, <2>1, <2>2 DEF OtherOpens
<1>20. CASE OtherCloses
  BY <1>20 DEF OtherCloses
<1>21. CASE Ended
  BY <1>21 DEF Ended
<1>22. CASE UNCHANGED vars
  BY <1>22
<1> QED
  BY <1>1, <1>2, <1>3, <1>4, <1>5, <1>6, <1>7, <1>8, <1>9, <1>10, <1>11,
     <1>12, <1>13, <1>14, <1>15, <1>16, <1>17, <1>18, <1>19, <1>20, <1>21, <1>22
  DEF Next, SenderStep, FeederStep, RtmpClose, RtmpSendPacket

(***************************************************************************)
(* Every step keeps ConnectsLeft.                                          *)
(***************************************************************************)
LEMMA ConnectsStep ==
    ASSUME TypeOK, ConnectsLeft, [Next]_vars
    PROVE  ConnectsLeft'
<1> USE FdAssumption, BoundAssumption
<1> USE DEF TypeOK, ConnectsLeft, Thread, Sending, Goes, Connected, Mine, Foreign,
            vars, kernelVars, memoryVars, boundVars, auxVars
<1>1. ASSUME NEW t \in Thread, Test(t) PROVE ConnectsLeft'
  BY <1>1 DEF Test
<1>2. ASSUME NEW t \in Thread, Unpublish(t) PROVE ConnectsLeft'
  BY <1>2 DEF Unpublish, Calls
<1>3. ASSUME NEW t \in Thread, CloseSocket(t) PROVE ConnectsLeft'
  BY <1>3 DEF CloseSocket, CloseDescriptor
<1>4. ASSUME NEW t \in Thread, Reset(t) PROVE ConnectsLeft'
  BY <1>4 DEF Reset
<1>5. ASSUME NEW t \in Thread, FreeRecord(t) PROVE ConnectsLeft'
  BY <1>5 DEF FreeRecord, Leaves
<1>6. ASSUME NEW t \in Thread, FreeTwice(t) PROVE ConnectsLeft'
  BY <1>6 DEF FreeTwice, UsesFreed
<1>7. ASSUME NEW t \in Thread, ForgetRecord(t) PROVE ConnectsLeft'
  BY <1>7 DEF ForgetRecord, Leaves
<1>8. CASE ConnectSocket
  BY <1>8 DEF ConnectSocket
<1>9. CASE Shut
  BY <1>9 DEF Shut, CloseDescriptor
<1>10. CASE Resolve
  BY <1>10 DEF Resolve
<1>11. CASE Open
  BY <1>11 DEF Open, Lowest, Free, Closing
<1>12. CASE Loop
  BY <1>12 DEF Loop, Calls
<1>13. ASSUME NEW t \in Thread, TakePrevious(t) PROVE ConnectsLeft'
  BY <1>13 DEF TakePrevious
<1>14. ASSUME NEW t \in Thread, Compress(t) PROVE ConnectsLeft'
  BY <1>14 DEF Compress, UsesFreed
<1>15. ASSUME NEW t \in Thread, Write(t) PROVE ConnectsLeft'
  BY <1>15 DEF Write, Returns
<1>16. ASSUME NEW t \in Thread, Keep(t) PROVE ConnectsLeft'
  BY <1>16 DEF Keep
<1>17. ASSUME NEW t \in Thread, Copy(t) PROVE ConnectsLeft'
  BY <1>17 DEF Copy, Returns, UsesFreed
<1>18. CASE BeforeSendData
  BY <1>18 DEF BeforeSendData
<1>19. CASE OtherOpens
  BY <1>19 DEF OtherOpens, Lowest, Free
<1>20. CASE OtherCloses
  BY <1>20 DEF OtherCloses
<1>21. CASE Ended
  BY <1>21 DEF Ended
<1>22. CASE UNCHANGED vars
  BY <1>22
<1> QED
  BY <1>1, <1>2, <1>3, <1>4, <1>5, <1>6, <1>7, <1>8, <1>9, <1>10, <1>11,
     <1>12, <1>13, <1>14, <1>15, <1>16, <1>17, <1>18, <1>19, <1>20, <1>21, <1>22
  DEF Next, SenderStep, FeederStep, RtmpClose, RtmpSendPacket

(***************************************************************************)
(* Every step keeps what is known of the client's sockets.                 *)
(***************************************************************************)
LEMMA SocketStep ==
    ASSUME TypeOK, SocketsKept, [Next]_vars
    PROVE  SocketsKept'
<1> USE FdAssumption, BoundAssumption
<1> USE DEF TypeOK, SocketsKept, SocketLostOnlyByRace, Thread, Sending, Goes,
            Connected, Mine, Foreign, vars, kernelVars, memoryVars,
            boundVars, auxVars
<1>1. ASSUME NEW t \in Thread, Test(t) PROVE SocketsKept'
  BY <1>1 DEF Test
<1>2. ASSUME NEW t \in Thread, Unpublish(t) PROVE SocketsKept'
  BY <1>2 DEF Unpublish, Calls
<1>3. ASSUME NEW t \in Thread, CloseSocket(t) PROVE SocketsKept'
  BY <1>3 DEF CloseSocket, CloseDescriptor
<1>4. ASSUME NEW t \in Thread, Reset(t) PROVE SocketsKept'
  BY <1>4 DEF Reset
<1>5. ASSUME NEW t \in Thread, FreeRecord(t) PROVE SocketsKept'
  BY <1>5 DEF FreeRecord, Leaves
<1>6. ASSUME NEW t \in Thread, FreeTwice(t) PROVE SocketsKept'
  BY <1>6 DEF FreeTwice, UsesFreed
<1>7. ASSUME NEW t \in Thread, ForgetRecord(t) PROVE SocketsKept'
  BY <1>7 DEF ForgetRecord, Leaves
<1>8. CASE ConnectSocket
  BY <1>8 DEF ConnectSocket
<1>9. CASE Shut
  BY <1>9 DEF Shut, CloseDescriptor
<1>10. CASE Resolve
  BY <1>10 DEF Resolve
<1>11. CASE Open
  <2>1. /\ at["sender"] = "open" /\ at'["sender"] \in {"loop", "test"}
        /\ at'["feeder"] = at["feeder"]
    BY <1>11 DEF Open
  <2>2. raced' = (raced \/ at["feeder"] \in Closing)
    BY <1>11 DEF Open
  <2>3. \A d \in Fd : owner'[d] = "client" /\ d # sb_socket' => raced
    BY <1>11, <2>1 DEF Open, Lowest, Free
  <2> QED BY <2>1, <2>2, <2>3 DEF Closing
<1>12. CASE Loop
  BY <1>12 DEF Loop, Calls
<1>13. ASSUME NEW t \in Thread, TakePrevious(t) PROVE SocketsKept'
  BY <1>13 DEF TakePrevious
<1>14. ASSUME NEW t \in Thread, Compress(t) PROVE SocketsKept'
  BY <1>14 DEF Compress, UsesFreed
<1>15. ASSUME NEW t \in Thread, Write(t) PROVE SocketsKept'
  BY <1>15 DEF Write, Returns
<1>16. ASSUME NEW t \in Thread, Keep(t) PROVE SocketsKept'
  BY <1>16 DEF Keep
<1>17. ASSUME NEW t \in Thread, Copy(t) PROVE SocketsKept'
  BY <1>17 DEF Copy, Returns, UsesFreed
<1>18. CASE BeforeSendData
  BY <1>18 DEF BeforeSendData
<1>19. CASE OtherOpens
  BY <1>19 DEF OtherOpens, Lowest, Free
<1>20. CASE OtherCloses
  BY <1>20 DEF OtherCloses
<1>21. CASE Ended
  BY <1>21 DEF Ended
<1>22. CASE UNCHANGED vars
  BY <1>22
<1> QED
  BY <1>1, <1>2, <1>3, <1>4, <1>5, <1>6, <1>7, <1>8, <1>9, <1>10, <1>11,
     <1>12, <1>13, <1>14, <1>15, <1>16, <1>17, <1>18, <1>19, <1>20, <1>21, <1>22
  DEF Next, SenderStep, FeederStep, RtmpClose, RtmpSendPacket

(***************************************************************************)
(* A number goes stale with a close and is gone with the assignment that   *)
(* follows it, or with a name that does not resolve.                       *)
(***************************************************************************)
LEMMA NumberStep ==
    ASSUME TypeOK, StaleNumberOnlyWhileClosing, [Next]_vars
    PROVE  StaleNumberOnlyWhileClosing'
<1> USE FdAssumption, BoundAssumption
<1> USE DEF TypeOK, StaleNumberOnlyWhileClosing, Thread, Sending, Goes, Connected,
            Mine, Foreign, vars, kernelVars, memoryVars, boundVars,
            auxVars
<1>1. ASSUME NEW t \in Thread, Test(t) PROVE StaleNumberOnlyWhileClosing'
  BY <1>1 DEF Test
<1>2. ASSUME NEW t \in Thread, Unpublish(t) PROVE StaleNumberOnlyWhileClosing'
  BY <1>2 DEF Unpublish, Calls
<1>3. ASSUME NEW t \in Thread, CloseSocket(t) PROVE StaleNumberOnlyWhileClosing'
  BY <1>3 DEF CloseSocket, CloseDescriptor
<1>4. ASSUME NEW t \in Thread, Reset(t) PROVE StaleNumberOnlyWhileClosing'
  BY <1>4 DEF Reset
<1>5. ASSUME NEW t \in Thread, FreeRecord(t) PROVE StaleNumberOnlyWhileClosing'
  BY <1>5 DEF FreeRecord, Leaves
<1>6. ASSUME NEW t \in Thread, FreeTwice(t) PROVE StaleNumberOnlyWhileClosing'
  BY <1>6 DEF FreeTwice, UsesFreed
<1>7. ASSUME NEW t \in Thread, ForgetRecord(t) PROVE StaleNumberOnlyWhileClosing'
  BY <1>7 DEF ForgetRecord, Leaves
<1>8. CASE ConnectSocket
  BY <1>8 DEF ConnectSocket
<1>9. CASE Shut
  BY <1>9 DEF Shut, CloseDescriptor
<1>10. CASE Resolve
  BY <1>10 DEF Resolve
<1>11. CASE Open
  BY <1>11 DEF Open, Lowest, Free, Closing
<1>12. CASE Loop
  BY <1>12 DEF Loop, Calls
<1>13. ASSUME NEW t \in Thread, TakePrevious(t) PROVE StaleNumberOnlyWhileClosing'
  BY <1>13 DEF TakePrevious
<1>14. ASSUME NEW t \in Thread, Compress(t) PROVE StaleNumberOnlyWhileClosing'
  BY <1>14 DEF Compress, UsesFreed
<1>15. ASSUME NEW t \in Thread, Write(t) PROVE StaleNumberOnlyWhileClosing'
  BY <1>15 DEF Write, Returns
<1>16. ASSUME NEW t \in Thread, Keep(t) PROVE StaleNumberOnlyWhileClosing'
  BY <1>16 DEF Keep
<1>17. ASSUME NEW t \in Thread, Copy(t) PROVE StaleNumberOnlyWhileClosing'
  BY <1>17 DEF Copy, Returns, UsesFreed
<1>18. CASE BeforeSendData
  BY <1>18 DEF BeforeSendData
<1>19. CASE OtherOpens
  BY <1>19 DEF OtherOpens, Lowest, Free
<1>20. CASE OtherCloses
  BY <1>20 DEF OtherCloses
<1>21. CASE Ended
  BY <1>21 DEF Ended
<1>22. CASE UNCHANGED vars
  BY <1>22
<1> QED
  BY <1>1, <1>2, <1>3, <1>4, <1>5, <1>6, <1>7, <1>8, <1>9, <1>10, <1>11,
     <1>12, <1>13, <1>14, <1>15, <1>16, <1>17, <1>18, <1>19, <1>20, <1>21, <1>22
  DEF Next, SenderStep, FeederStep, RtmpClose, RtmpSendPacket

(***************************************************************************)
(* Every step keeps what is known of the channel's record.                 *)
(***************************************************************************)
LEMMA RecordStep ==
    ASSUME TypeOK, RecordKnown, ~wild, [Next]_vars
    PROVE  (RecordKnown \/ wild)'
<1> USE FdAssumption, BoundAssumption
<1> USE DEF TypeOK, RecordKnown, Thread, Sending, Goes, Connected, Mine, Foreign,
            vars, kernelVars, memoryVars, boundVars, auxVars
<1>1. ASSUME NEW t \in Thread, Test(t) PROVE (RecordKnown \/ wild)'
  BY <1>1 DEF Test
<1>2. ASSUME NEW t \in Thread, Unpublish(t) PROVE (RecordKnown \/ wild)'
  BY <1>2 DEF Unpublish, Calls
<1>3. ASSUME NEW t \in Thread, CloseSocket(t) PROVE (RecordKnown \/ wild)'
  BY <1>3 DEF CloseSocket, CloseDescriptor
<1>4. ASSUME NEW t \in Thread, Reset(t) PROVE (RecordKnown \/ wild)'
  BY <1>4 DEF Reset
<1>5. ASSUME NEW t \in Thread, FreeRecord(t) PROVE (RecordKnown \/ wild)'
  <2>1. PICK there \in {"forget", "idle", "test", "exited", "connect"} :
             at[t] = "free" /\ at' = [at EXCEPT ![t] = there]
    BY <1>5 DEF FreeRecord, Leaves
  <2>2. CASE UNCHANGED <<record, prevPacket, freedSince>>
    BY <1>5, <2>1, <2>2 DEF FreeRecord, Leaves
  <2>3. CASE record = "live"
    <3>1. /\ record' = "dangling" /\ at' = [at EXCEPT ![t] = "forget"] /\ UNCHANGED boundVars
          /\ prevPacket' = [u \in Thread |-> IF prevPacket[u] = "live" THEN "dangling"
                                                                     ELSE prevPacket[u]]
          /\ \A u \in Thread : freedSince'[u] = (freedSince[u] \/ at[u] \in Sending)
      BY <1>5, <2>3 DEF FreeRecord, Leaves
    <3>2. ASSUME NEW u \in Thread
          PROVE  /\ at'[u] \in Sending => freedSince'[u]
                 /\ at'[u] \notin Sending => ~freedSince'[u] /\ prevPacket'[u] = "none"
      BY <2>1, <3>1
    <3>3. \A u \in Thread : at[u] # "forget"
      BY <2>3
    <3>4. \A u \in Thread : at'[u] = "forget" <=> u = t
      BY <3>1, <3>3
    <3>5. resets' = 0 => at'["feeder"] = "idle" /\ ~freedSince'["sender"]
      <4>1. ASSUME resets' = 0
            PROVE  t = "sender" /\ at["feeder"] = "idle" /\ ~freedSince["sender"]
        BY <2>1, <3>1, <4>1
      <4> QED BY <2>1, <3>1, <4>1
    <3>6. RecordKnown'
      BY <3>1, <3>2, <3>4, <3>5
    <3> QED BY <3>6
  <2> QED BY <1>5, <2>2, <2>3 DEF FreeRecord
<1>6. ASSUME NEW t \in Thread, FreeTwice(t) PROVE (RecordKnown \/ wild)'
  BY <1>6 DEF FreeTwice, UsesFreed
<1>7. ASSUME NEW t \in Thread, ForgetRecord(t) PROVE (RecordKnown \/ wild)'
  <2>1. PICK there \in {"idle", "test", "exited", "connect"} :
             at[t] = "forget" /\ at' = [at EXCEPT ![t] = there]
    BY <1>7 DEF ForgetRecord, Leaves
  <2>2. record' = "none" /\ UNCHANGED <<prevPacket, freedSince, boundVars>>
    BY <1>7 DEF ForgetRecord
  <2>3. ASSUME NEW u \in Thread, at'[u] = "copy" PROVE freedSince[u]
    BY <2>1, <2>3
  <2> QED BY <2>1, <2>2, <2>3
<1>8. CASE ConnectSocket
  BY <1>8 DEF ConnectSocket
<1>9. CASE Shut
  BY <1>9 DEF Shut, CloseDescriptor
<1>10. CASE Resolve
  BY <1>10 DEF Resolve
<1>11. CASE Open
  BY <1>11 DEF Open, Lowest, Free, Closing
<1>12. CASE Loop
  BY <1>12 DEF Loop, Calls
<1>13. ASSUME NEW t \in Thread, TakePrevious(t) PROVE (RecordKnown \/ wild)'
  <2>1. PICK there \in {"compress", "write"} :
             at[t] = "take" /\ at' = [at EXCEPT ![t] = there]
    BY <1>13 DEF TakePrevious
  <2>2. PICK p \in {record, "elsewhere"} : prevPacket' = [prevPacket EXCEPT ![t] = p]
    BY <1>13 DEF TakePrevious
  <2>3. /\ freedSince' = [freedSince EXCEPT ![t] = record = "dangling"]
        /\ UNCHANGED <<record, boundVars>>
    BY <1>13 DEF TakePrevious
  <2>4. freedSince'[t] = (record = "dangling") /\ prevPacket'[t] = p
    BY <2>2, <2>3
  <2>5. \A u \in Thread \ {t} : /\ freedSince'[u] = freedSince[u] /\ at'[u] = at[u]
                                /\ prevPacket'[u] = prevPacket[u]
    BY <2>1, <2>2, <2>3
  <2>6. at'[t] \in Sending \ {"take", "copy"}
    BY <2>1
  <2>7. \A u \in Thread : at'[u] = "forget" <=> at[u] = "forget"
    BY <2>1
  <2>8. resets' = 0 => at'["feeder"] = "idle" /\ ~freedSince'["sender"]
    BY <2>1, <2>3, <2>4, <2>5
  <2>9. ASSUME NEW u \in Thread
        PROVE  /\ at'[u] = "forget" => record = "dangling"
               /\ at'[u] \in Sending \ {"take"} /\ record = "dangling" => freedSince'[u]
               /\ at'[u] \in Sending /\ prevPacket'[u] = "dangling" => freedSince'[u]
               /\ at'[u] = "copy" /\ record = "none" => freedSince'[u]
               /\ at'[u] \notin Sending => ~freedSince'[u] /\ prevPacket'[u] = "none"
    <3>1. CASE u = t
      BY <2>2, <2>4, <2>6, <3>1
    <3>2. CASE u # t
      BY <2>5, <3>2
    <3> QED BY <3>1, <3>2
  <2>10. RecordKnown'
    BY <2>3, <2>7, <2>8, <2>9
  <2> QED BY <2>10
<1>14. ASSUME NEW t \in Thread, Compress(t) PROVE (RecordKnown \/ wild)'
  BY <1>14 DEF Compress, UsesFreed
<1>15. ASSUME NEW t \in Thread, Write(t) PROVE (RecordKnown \/ wild)'
  BY <1>15 DEF Write, Returns
<1>16. ASSUME NEW t \in Thread, Keep(t) PROVE (RecordKnown \/ wild)'
  BY <1>16 DEF Keep
<1>17. ASSUME NEW t \in Thread, Copy(t) PROVE (RecordKnown \/ wild)'
  BY <1>17 DEF Copy, Returns, UsesFreed
<1>18. CASE BeforeSendData
  BY <1>18 DEF BeforeSendData
<1>19. CASE OtherOpens
  BY <1>19 DEF OtherOpens, Lowest, Free
<1>20. CASE OtherCloses
  BY <1>20 DEF OtherCloses
<1>21. CASE Ended
  BY <1>21 DEF Ended
<1>22. CASE UNCHANGED vars
  BY <1>22
<1> QED
  BY <1>1, <1>2, <1>3, <1>4, <1>5, <1>6, <1>7, <1>8, <1>9, <1>10, <1>11,
     <1>12, <1>13, <1>14, <1>15, <1>16, <1>17, <1>18, <1>19, <1>20, <1>21, <1>22
  DEF Next, SenderStep, FeederStep, RtmpClose, RtmpSendPacket

-----------------------------------------------------------------------------
(* The step properties, where the invariants hold *)

(***************************************************************************)
(* A descriptor of the rest of the process is hit only by a send or close  *)
(* that finds its number stale in sb_socket.                               *)
(***************************************************************************)
LEMMA HitStep ==
    ASSUME TypeOK, StaleNumberOnlyWhileClosing, [Next]_vars, ~UNCHANGED vars
    PROVE  hit' => \/ unresolved
                   \/ at["feeder"] = "reset"
                   \/ /\ at["feeder"] \in {"write", "close"}
                      /\ at["sender"] \in {"resolve", "open", "reset"}
<1> SUFFICES ASSUME hit'
             PROVE  \/ unresolved
                    \/ at["feeder"] = "reset"
                    \/ /\ at["feeder"] \in {"write", "close"}
                       /\ at["sender"] \in {"resolve", "open", "reset"}
  OBVIOUS
<1>1. Foreign => \/ at["feeder"] = "reset"
                 \/ at["sender"] \in {"resolve", "open", "reset"}
                 \/ unresolved
  BY DEF StaleNumberOnlyWhileClosing, Foreign, Mine
<1>2. ASSUME NEW t \in Thread, RtmpClose(t) \/ RtmpSendPacket(t)
      PROVE  Foreign /\ at[t] \in {"write", "close"}
  <2>1. /\ ~Test(t) /\ ~Unpublish(t) /\ ~Reset(t) /\ ~FreeRecord(t) /\ ~FreeTwice(t)
        /\ ~ForgetRecord(t)
    BY DEF Test, Unpublish, Reset, FreeRecord, FreeTwice, ForgetRecord, UsesFreed
  <2>2. ~TakePrevious(t) /\ ~Compress(t) /\ ~Keep(t) /\ ~Copy(t)
    BY DEF TakePrevious, Compress, Keep, Copy, UsesFreed
  <2>3. CASE Write(t)
    BY <2>3 DEF Write, Goes, Returns
  <2>4. CASE CloseSocket(t)
    BY <2>4 DEF CloseSocket, CloseDescriptor, Goes
  <2> QED BY <1>2, <2>1, <2>2, <2>3, <2>4 DEF RtmpClose, RtmpSendPacket
<1>3. CASE RtmpClose("feeder") \/ RtmpSendPacket("feeder")
  BY <1>1, <1>2, <1>3 DEF Thread
<1>4. CASE RtmpClose("sender") \/ RtmpSendPacket("sender")
  BY <1>1, <1>2, <1>4 DEF Thread
<1>5. CASE Shut
  BY <1>1, <1>5 DEF Shut, CloseDescriptor, Goes
<1>6. ~ConnectSocket /\ ~Resolve /\ ~Open /\ ~Loop
  BY DEF ConnectSocket, Resolve, Open, Loop
<1>7. ~BeforeSendData /\ ~OtherOpens /\ ~OtherCloses /\ ~Ended
  BY DEF BeforeSendData, OtherOpens, OtherCloses, Ended
<1> QED BY <1>3, <1>4, <1>5, <1>6, <1>7 DEF Next, SenderStep, FeederStep

(***************************************************************************)
(* Freed memory is used only where the record's state says so.             *)
(***************************************************************************)
LEMMA WildStep ==
    ASSUME TypeOK, RecordKnown, ~wild, [Next]_vars, wild'
    PROVE  /\ resets > 0
           /\ \/ \E t \in Thread : at[t] \in {"compress", "copy"} /\ freedSince[t]
              \/ {at["sender"], at["feeder"]} \subseteq {"free", "forget"}
<1>1. resets = 0 \/ resets > 0
  BY BoundAssumption DEF TypeOK
<1>2. ASSUME NEW t \in Thread, RtmpClose(t)
      PROVE  at[t] = "free" /\ record = "dangling"
  <2>1. ~Test(t) /\ ~Unpublish(t) /\ ~CloseSocket(t) /\ ~Reset(t) /\ ~FreeRecord(t)
        /\ ~ForgetRecord(t)
    BY DEF Test, Unpublish, CloseSocket, Reset, FreeRecord, ForgetRecord
  <2> QED BY <1>2, <2>1 DEF RtmpClose, FreeTwice
<1>3. CASE RtmpClose("feeder") \/ RtmpClose("sender")
  BY <1>1, <1>2, <1>3 DEF RecordKnown, Thread
<1>4. ASSUME NEW t \in Thread, RtmpSendPacket(t)
      PROVE  at[t] \in {"compress", "copy"} /\ freedSince[t]
  <2>1. ~TakePrevious(t) /\ ~Write(t) /\ ~Keep(t)
    BY DEF TakePrevious, Write, Keep
  <2>2. CASE Compress(t)
    BY <2>2 DEF Compress, RecordKnown, Sending
  <2>3. CASE Copy(t)
    <3>1. at[t] = "copy" /\ record \in {"none", "dangling"}
      BY <2>3 DEF Copy, TypeOK
    <3> QED BY <3>1 DEF RecordKnown, Sending
  <2> QED BY <1>4, <2>1, <2>2, <2>3 DEF RtmpSendPacket
<1>5. CASE RtmpSendPacket("feeder") \/ RtmpSendPacket("sender")
  BY <1>1, <1>4, <1>5 DEF RecordKnown, Thread
<1>6. ~ConnectSocket /\ ~Shut /\ ~Resolve /\ ~Open /\ ~Loop
  BY DEF ConnectSocket, Shut, Resolve, Open, Loop
<1>7. ~BeforeSendData /\ ~OtherOpens /\ ~OtherCloses /\ ~Ended /\ ~UNCHANGED vars
  BY DEF BeforeSendData, OtherOpens, OtherCloses, Ended, vars
<1> QED BY <1>3, <1>5, <1>6, <1>7 DEF Next, SenderStep, FeederStep
-----------------------------------------------------------------------------
(* The theorems *)

(***************************************************************************)
(* The sender opens no more than MaxConnects sockets.                      *)
(***************************************************************************)
LEMMA ConnectsBounded == Spec => [](TypeOK /\ ConnectsLeft)
<1>1. Init => TypeOK /\ ConnectsLeft
  BY InitAll
<1>2. TypeOK /\ ConnectsLeft /\ [Next]_vars => TypeOK' /\ ConnectsLeft'
  BY TypeStep, ConnectsStep
<1> QED BY <1>1, <1>2, PTL DEF Spec

(***************************************************************************)
(* Every variable stays within its values, for all descriptor numbers and  *)
(* bounds.                                                                 *)
(***************************************************************************)
THEOREM TypeCorrect == Spec => []TypeOK
BY ConnectsBounded, PTL

(***************************************************************************)
(* sb_socket holds a number that is not the client's only from a close to  *)
(* the assignment after it, or after a name did not resolve.               *)
(***************************************************************************)
THEOREM NumbersGoStaleByClosing == Spec => []StaleNumberOnlyWhileClosing
<1>1. Init => StaleNumberOnlyWhileClosing
  BY InitAll
<1>2. TypeOK /\ StaleNumberOnlyWhileClosing /\ [Next]_vars => StaleNumberOnlyWhileClosing'
  BY NumberStep
<1> QED BY <1>1, <1>2, TypeCorrect, PTL DEF Spec

(***************************************************************************)
(* A socket of the client is lost only when it was opened in the middle of *)
(* a reset.                                                                *)
(***************************************************************************)
THEOREM SocketsAreLostByRace == Spec => []SocketLostOnlyByRace
<1>1. Init => SocketsKept
  BY InitAll
<1>2. TypeOK /\ SocketsKept /\ [Next]_vars => SocketsKept'
  BY SocketStep
<1>3. SocketsKept => SocketLostOnlyByRace
  BY DEF SocketsKept
<1> QED BY <1>1, <1>2, <1>3, TypeCorrect, PTL DEF Spec

(***************************************************************************)
(* The client touches a connection of the rest of the process only while   *)
(* both threads close, or after a name did not resolve.                    *)
(***************************************************************************)
THEOREM OthersAreHitByRace == Spec => OthersHitOnlyWhenKnown
<1> DEFINE Known == \/ unresolved
                    \/ at["feeder"] = "reset"
                    \/ /\ at["feeder"] \in {"write", "close"}
                       /\ at["sender"] \in {"resolve", "open", "reset"}
<1>1. TypeOK /\ StaleNumberOnlyWhileClosing /\ [Next]_vars => [hit' => Known]_vars
  BY HitStep
<1>2. Spec => [][hit' => Known]_vars
  BY <1>1, TypeCorrect, NumbersGoStaleByClosing, PTL DEF Spec
<1> QED BY <1>2 DEF OthersHitOnlyWhenKnown

(***************************************************************************)
(* A thread uses freed memory only inside RTMP_SendPacket, after the other *)
(* thread has freed the record, or where both free it.                     *)
(***************************************************************************)
THEOREM FreedMemoryIsShared == Spec => WildOnlyWhereShared
<1> DEFINE Shared == /\ resets > 0
                     /\ \/ \E t \in Thread : at[t] \in {"compress", "copy"} /\ freedSince[t]
                        \/ {at["sender"], at["feeder"]} \subseteq {"free", "forget"}
           Known == RecordKnown \/ wild
<1>1. Init => Known
  BY InitAll
<1>2. ASSUME wild, [Next]_vars PROVE UNCHANGED vars
  BY <1>2 DEF Next, Ended
<1>3. TypeOK /\ Known /\ [Next]_vars => Known'
  <2>1. CASE wild
    BY <1>2, <2>1 DEF vars
  <2>2. CASE ~wild
    BY <2>2, RecordStep
  <2> QED BY <2>1, <2>2
<1>4. TypeOK /\ TypeOK' /\ Known /\ [Next]_vars => [wild' # wild => Shared]_vars
  <2>1. CASE wild
    BY <1>2, <2>1
  <2>2. CASE ~wild /\ wild'
    BY <2>2, WildStep
  <2>3. TypeOK /\ TypeOK' => wild \in BOOLEAN /\ wild' \in BOOLEAN
    BY DEF TypeOK
  <2> QED BY <2>1, <2>2, <2>3
<1>5. Spec => [][wild' # wild => Shared]_vars
  <2> HIDE DEF Known, Shared
  <2> QED BY <1>1, <1>3, <1>4, TypeCorrect, PTL DEF Spec
<1> QED BY <1>5 DEF WildOnlyWhereShared
=============================================================================

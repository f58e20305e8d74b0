-------------------------- MODULE ByteCountProofs ---------------------------
(***************************************************************************)
(* Proofs about ByteCount for counts of any width and windows of any size. *)
(* CountOK is inductive by itself; the other two rest on it.               *)
(***************************************************************************)
EXTENDS ByteCount, TLAPS

(***************************************************************************)
(* Half a window is a number below the modulus.                            *)
(***************************************************************************)
LEMMA HalfOfWindow ==
    ASSUME NEW w \in Windows
    PROVE  w \in Nat /\ w \div 2 \in 0..(Modulus - 1)
BY WindowAssumption

(***************************************************************************)
(* The sum of ReadN's comparison and counts is the sum modulo 2^32.        *)
(***************************************************************************)
LEMMA AddWraps ==
    ASSUME NEW a \in 0..(Modulus - 1), NEW b \in 0..(Modulus - 1)
    PROVE  /\ Add(a, b) \in 0..(Modulus - 1)
           /\ a + b < Modulus => Add(a, b) = a + b
           /\ a + b >= Modulus => Add(a, b) = a + b - Modulus
BY ModulusAssumption DEF Add

(***************************************************************************)
(* Every step of CountNext keeps CountOK.                                  *)
(***************************************************************************)
LEMMA CountStep ==
    ASSUME CountOK, [CountNext]_countVars
    PROVE  CountOK'
<1>1. ASSUME NEW n \in ReadSizes, Read(n) PROVE CountOK'
  <2>1. /\ n \in 1..(Modulus - 1) /\ Modulus \in Nat \ {0} /\ MaxUnreported \in Nat
        /\ m_nBytesIn \in 0..(Modulus - 1) /\ m_nBytesInSent \in 0..(Modulus - 1)
        /\ unreported \in 0..MaxUnreported
    BY ReadAssumption, ModulusAssumption DEF CountOK
  <2> DEFINE in == Add(m_nBytesIn, n)
  <2>2. /\ in \in 0..(Modulus - 1)
        /\ m_nBytesIn + n < Modulus => in = m_nBytesIn + n
        /\ m_nBytesIn + n >= Modulus => in = m_nBytesIn + n - Modulus
    <3>1. n \in 0..(Modulus - 1)
      BY <2>1
    <3> QED BY <2>1, <3>1, AddWraps
  <2>3. /\ m_nBytesIn' = in /\ m_nClientBW' = m_nClientBW
        /\ unreported + n <= MaxUnreported
        /\ \/ m_nBytesInSent' = in /\ unreported' = 0
           \/ m_nBytesInSent' = m_nBytesInSent /\ unreported' = unreported + n
    BY <1>1 DEF Read
  <2> HIDE DEF in
  <2>4. CASE m_nBytesInSent' = in /\ unreported' = 0
    BY <2>1, <2>2, <2>3, <2>4 DEF CountOK
  <2>5. CASE m_nBytesInSent' = m_nBytesInSent /\ unreported' = unreported + n
    <3>1. m_nBytesInSent + unreported + n < Modulus => in = m_nBytesInSent + unreported + n
      BY <2>1, <2>2 DEF CountOK
    <3>2. m_nBytesInSent + unreported + n \in Modulus..(2 * Modulus - 1)
             => in = m_nBytesInSent + unreported + n - Modulus
      BY <2>1, <2>2 DEF CountOK
    <3> QED BY <2>1, <2>2, <2>3, <2>5, <3>1, <3>2 DEF CountOK
  <2> QED BY <2>3, <2>4, <2>5
<1>2. CASE HandleClientBW
  BY <1>2 DEF HandleClientBW, CountOK
<1>3. CASE RtmpClose
  BY <1>3, ModulusAssumption, ReadAssumption DEF RtmpClose, CountOK
<1>4. CASE UNCHANGED countVars
  BY <1>4 DEF countVars, CountOK
<1> QED BY <1>1, <1>2, <1>3, <1>4 DEF CountNext

LEMMA CountStart == CountInit => CountOK
BY ModulusAssumption, WindowAssumption, ReadAssumption DEF CountInit, CountOK

(***************************************************************************)
(* ReadN's counts are of 32 bits and differ by what was read since the     *)
(* last report, less 2^32 once the sum has passed it.                      *)
(***************************************************************************)
THEOREM CountsAgree == CountSpec => []CountOK
BY CountStart, CountStep, PTL DEF CountSpec

(***************************************************************************)
(* What ReadN leaves unreported: if it sends no report, the new count is   *)
(* not above the last one reported plus half a window, wrapped.            *)
(***************************************************************************)
LEMMA ReadReports ==
    ASSUME CountOK, NEW n \in ReadSizes, Read(n)
    PROVE  /\ unreported' = 0 \/ unreported' = unreported + n
           /\ \/ unreported' = 0
              \/ /\ m_nBytesInSent' = m_nBytesInSent
                 /\ m_nBytesIn' <= Add(m_nBytesInSent, Half)
<1>1. /\ m_nBytesIn \in 0..(Modulus - 1) /\ n \in 0..(Modulus - 1)
      /\ m_nBytesInSent \in 0..(Modulus - 1) /\ Half \in 0..(Modulus - 1)
  BY HalfOfWindow, ReadAssumption DEF CountOK, Half
<1>2. /\ Add(m_nBytesIn, n) \in 0..(Modulus - 1)
      /\ Add(m_nBytesInSent, Half) \in 0..(Modulus - 1)
  BY <1>1, AddWraps
<1> QED BY <1>2, ModulusAssumption DEF Read

(***************************************************************************)
(* After a read at most half a window is unreported, unless the sum of the *)
(* last report and what came since has passed 2^32.                        *)
(***************************************************************************)
THEOREM ReportsUntilTheWrap == CountSpec => ReportsInTime
<1> DEFINE InTime == \/ unreported' <= Half
                     \/ m_nBytesInSent + unreported' >= Modulus
<1>1. ASSUME CountOK, CountOK', [CountNext]_countVars, m_nBytesIn' # m_nBytesIn
      PROVE  InTime
  <2>1. /\ Half \in 0..(Modulus - 1) /\ Modulus \in Nat \ {0}
        /\ m_nBytesInSent \in 0..(Modulus - 1) /\ unreported \in Nat
    BY <1>1, HalfOfWindow, ModulusAssumption, ReadAssumption DEF CountOK, Half
  <2>2. ASSUME NEW n \in ReadSizes, Read(n) PROVE InTime
    <3>1. CASE unreported' = 0
      BY <2>1, <3>1
    <3>2. CASE /\ unreported' = unreported + n /\ m_nBytesInSent' = m_nBytesInSent
               /\ m_nBytesIn' <= Add(m_nBytesInSent, Half)
      <4> SUFFICES ASSUME m_nBytesInSent + unreported' < Modulus
                   PROVE  unreported' <= Half
        BY <2>1, <3>2, ReadAssumption
      <4>1. m_nBytesIn' = m_nBytesInSent + unreported' /\ unreported' \in Nat
        BY <1>1, <3>2, ReadAssumption DEF CountOK
      <4>2. /\ m_nBytesInSent + Half < Modulus =>
                 Add(m_nBytesInSent, Half) = m_nBytesInSent + Half
            /\ m_nBytesInSent + Half >= Modulus =>
                 Add(m_nBytesInSent, Half) = m_nBytesInSent + Half - Modulus
        BY <2>1, AddWraps
      <4> QED BY <2>1, <3>2, <4>1, <4>2
    <3> QED BY <1>1, <2>2, <3>1, <3>2, ReadReports
  <2>3. ASSUME RtmpClose PROVE InTime
    BY <2>1, <2>3 DEF RtmpClose
  <2>4. ~(HandleClientBW \/ UNCHANGED countVars)
    BY <1>1 DEF HandleClientBW, countVars
  <2> QED BY <1>1, <2>2, <2>3, <2>4 DEF CountNext
<1>2. CountOK /\ CountOK' /\ [CountNext]_countVars =>
        [m_nBytesIn' # m_nBytesIn => InTime]_countVars
  BY <1>1
<1> QED BY <1>2, CountsAgree, PTL DEF CountSpec, ReportsInTime

(***************************************************************************)
(* One step keeps a silence short, if the value a report waits for cannot  *)
(* be passed over by a read: in the second turn the count is what is       *)
(* unreported less 2^32, and reaches that value before the turn ends.      *)
(***************************************************************************)
LEMMA SilenceStep ==
    ASSUME CountOK, CountOK', SilentForATurnAtMost, [CountNext]_countVars
    PROVE  SilentForATurnAtMost'
<1>1. /\ Modulus \in Nat \ {0} /\ unreported \in Nat /\ m_nBytesInSent \in 0..(Modulus - 1)
      /\ m_nClientBW \in Windows /\ Half \in 0..(Modulus - 1)
  BY HalfOfWindow, ModulusAssumption, ReadAssumption DEF CountOK, Half
<1>2. ASSUME unreported' = 0 PROVE SilentForATurnAtMost'
  <2>1. unreported' <= Modulus + m_nClientBW \div 2
    BY <1>1, <1>2 DEF Half
  <2> QED BY <1>1, <2>1 DEF SilentForATurnAtMost
<1>3. ASSUME NEW n \in ReadSizes, Read(n) PROVE SilentForATurnAtMost'
  <2>1. CASE unreported' = 0
    BY <1>2, <2>1
  <2>2. CASE /\ unreported' = unreported + n /\ m_nBytesInSent' = m_nBytesInSent
             /\ m_nBytesIn' <= Add(m_nBytesInSent, Half)
    <3>1. CASE \E w \in Windows, k \in ReadSizes : PassedOver(w, k)
      BY <2>2, <3>1 DEF SilentForATurnAtMost, PassedOver
    <3>2. CASE ~\E w \in Windows, k \in ReadSizes : PassedOver(w, k)
      <4>1. PICK w \in Windows : unreported <= Modulus + w \div 2
        BY <3>2 DEF SilentForATurnAtMost
      <4>2. /\ w \div 2 \in 0..(Modulus - 1) /\ n \in 1..(Modulus - 1)
            /\ m_nBytesInSent + w \div 2 + n < Modulus
            /\ m_nBytesInSent + Half + n < Modulus
        <5>1. w \div 2 \in 0..(Modulus - 1) /\ n \in 1..(Modulus - 1)
          BY HalfOfWindow, ReadAssumption
        <5>2. ~PassedOver(w, n) /\ ~PassedOver(m_nClientBW, n)
          BY <1>1, <3>2
        <5> QED BY <1>1, <5>1, <5>2 DEF PassedOver, Half
      <4>3. m_nBytesInSent + unreported' < 2 * Modulus
        BY <1>1, <2>2, <4>1, <4>2
      <4>4. m_nBytesIn' <= m_nBytesInSent + Half
        BY <1>1, <2>2, <4>2, AddWraps
      <4>5. m_nBytesInSent + unreported' >= Modulus
              => m_nBytesIn' = m_nBytesInSent + unreported' - Modulus
        BY <1>1, <2>2, <4>2, <4>3 DEF CountOK
      <4>6. unreported' <= Modulus + m_nClientBW \div 2
        BY <1>1, <2>2, <4>2, <4>4, <4>5 DEF Half
      <4> QED BY <1>1, <4>6 DEF SilentForATurnAtMost
    <3> QED BY <3>1, <3>2
  <2> QED BY <1>3, <2>1, <2>2, ReadReports
<1>4. CASE HandleClientBW
  BY <1>4 DEF HandleClientBW, SilentForATurnAtMost, PassedOver
<1>5. CASE RtmpClose
  BY <1>2, <1>5 DEF RtmpClose
<1>6. CASE UNCHANGED countVars
  BY <1>6 DEF countVars, SilentForATurnAtMost, PassedOver
<1> QED BY <1>3, <1>4, <1>5, <1>6 DEF CountNext

(***************************************************************************)
(* A silence lasts a turn of the count and half a window at most, unless   *)
(* the value a report waits for is so near to 2^32 that one read may pass  *)
(* over it.                                                                *)
(***************************************************************************)
THEOREM SilenceIsShort == CountSpec => []SilentForATurnAtMost
<1>1. CountInit => SilentForATurnAtMost
  <2> SUFFICES ASSUME CountInit PROVE SilentForATurnAtMost
    OBVIOUS
  <2>1. FirstWindow \in Windows /\ FirstWindow \div 2 \in 0..(Modulus - 1)
    BY WindowAssumption
  <2>2. unreported <= Modulus + FirstWindow \div 2
    BY <2>1, ModulusAssumption DEF CountInit
  <2> QED BY <2>1, <2>2 DEF SilentForATurnAtMost
<1> QED BY <1>1, SilenceStep, CountsAgree, PTL DEF CountSpec
=============================================================================

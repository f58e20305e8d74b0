----------------------------- MODULE ByteCount ------------------------------
(***************************************************************************)
(* ReadN's report of what was read (a type 3 packet), on the client and on *)
(* the server: one goes out once more than half a window was read since    *)
(* the last.  Both counts are of 32 bits, and so is the sum compared.      *)
(***************************************************************************)
EXTENDS Integers

CONSTANTS Modulus,    \* 2^32
          Windows,    \* values of m_nClientBW a peer may set
          FirstWindow,   \* RTMP_Init's (2500000)
          ReadSizes,     \* what one pass of ReadN's loop may take
          MaxUnreported  \* bound

ASSUME ModulusAssumption == Modulus \in Nat \ {0}
ASSUME WindowAssumption == /\ FirstWindow \in Windows
                           /\ \A w \in Windows : w \in Nat /\ w \div 2 \in 0..(Modulus - 1)
ASSUME ReadAssumption == ReadSizes \subseteq 1..(Modulus - 1) /\ MaxUnreported \in Nat

VARIABLES m_nBytesIn, m_nBytesInSent,
          m_nClientBW,
          unreported      \* how many bytes really were read since the last report

countVars == <<m_nBytesIn, m_nBytesInSent, m_nClientBW, unreported>>

Half == m_nClientBW \div 2
Add(a, b) == IF a + b >= Modulus THEN a + b - Modulus ELSE a + b

CountInit == /\ m_nBytesIn = 0 /\ m_nBytesInSent = 0 /\ unreported = 0
             /\ m_nClientBW = FirstWindow

\* mutant: a report only after a whole window
ReadWhole(n) == LET in == Add(m_nBytesIn, n)
                    due == in > Add(m_nBytesInSent, m_nClientBW)
                IN  /\ unreported + n <= MaxUnreported
                    /\ m_nBytesIn' = in
                    /\ m_nBytesInSent' = IF due THEN in ELSE m_nBytesInSent
                    /\ unreported' = IF due THEN 0 ELSE unreported + n
                    /\ UNCHANGED m_nClientBW

Read(n) ==
    LET in == Add(m_nBytesIn, n)
        due == in > Add(m_nBytesInSent, Half)     \* SendBytesReceived
    IN  /\ unreported + n <= MaxUnreported
        /\ m_nBytesIn' = in
        /\ m_nBytesInSent' = IF due THEN in ELSE m_nBytesInSent
        /\ unreported' = IF due THEN 0 ELSE unreported + n
        /\ UNCHANGED m_nClientBW

HandleClientBW == /\ m_nClientBW' \in Windows
                  /\ UNCHANGED <<m_nBytesIn, m_nBytesInSent, unreported>>

RtmpClose == /\ m_nBytesIn' = 0 /\ m_nBytesInSent' = 0 /\ unreported' = 0
             /\ UNCHANGED m_nClientBW

CountNext == (\E n \in ReadSizes : Read(n)) \/ HandleClientBW \/ RtmpClose

CountSpec == CountInit /\ [][CountNext]_countVars
-----------------------------------------------------------------------------
(***************************************************************************)
(* The counts are of 32 bits, and differ by what is unreported until that  *)
(* passes 2^32, and by 2^32 less during the next turn.                     *)
(***************************************************************************)
CountOK ==
    /\ m_nBytesIn \in 0..(Modulus - 1)
    /\ m_nBytesInSent \in 0..(Modulus - 1)
    /\ m_nClientBW \in Windows
    /\ unreported \in 0..MaxUnreported
    /\ LET read == m_nBytesInSent + unreported
       IN  /\ read < Modulus => m_nBytesIn = read
           /\ read \in Modulus..(2 * Modulus - 1) => m_nBytesIn = read - Modulus

(***************************************************************************)
(* After a read at most half a window is unreported, unless the count went *)
(* past 2^32 since the last report: ReadN compares the counts themselves   *)
(* and not their difference.                                               *)
(***************************************************************************)
ReportsInTime ==
    [][m_nBytesIn' # m_nBytesIn => \/ unreported' <= Half
                                   \/ m_nBytesInSent + unreported' >= Modulus]_countVars

(***************************************************************************)
(* It then comes back within a turn of the count, unless the value reached *)
(* for a report is so near to 2^32 that one read passes over it: then it   *)
(* may be passed over in every turn.                                       *)
(***************************************************************************)
PassedOver(w, n) == m_nBytesInSent + w \div 2 + n >= Modulus
SilentForATurnAtMost ==
    \/ \E w \in Windows : unreported <= Modulus + w \div 2
    \/ \E w \in Windows, n \in ReadSizes : PassedOver(w, n)
=============================================================================

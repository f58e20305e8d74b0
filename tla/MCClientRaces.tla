---------------------------- MODULE MCClientRaces ---------------------------
(***************************************************************************)
(* What the two threads of a publishing client do to each other below the  *)
(* grain of ClientSender: on the connection (SharedConnection) and on the  *)
(* buffers of the header packet (HeaderBuffers).  A behaviour is of one of *)
(* the two parts, so that they do not multiply.                            *)
(***************************************************************************)
EXTENDS SharedConnection, HeaderBuffers

(* two pairs whose PPS have one length and whose SPS do not, a PPS alone,  *)
(* an SPS alone                                                            *)
FewSpsLen == <<1, 2, 0, 1>>
FewPpsLen == <<2, 2, 1, 0>>

(* descriptors enough for the client and two others                        *)
FewNumbers == 3..5

VARIABLE part

RacesInit == /\ Init /\ HeadersInit
             /\ \/ part = "connection"
                \/ part = "headers" /\ \A d \in Fd : sb_socket <= d

RacesNext == \/ part = "connection" /\ Next /\ UNCHANGED <<part, headerVars>>
             \/ part = "headers" /\ HeadersNext /\ UNCHANGED <<part, vars>>

RacesSpec == RacesInit /\ [][RacesNext]_<<part, vars, headerVars>>
=============================================================================

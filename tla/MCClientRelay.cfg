\* A relay: beforeSendData in any place, headers in any order, an outage;
\* fairness of the threads alone, so no symmetry.
CONSTANTS
  Node = {n1, n2}
  Packet = {k1, i1}
  NULL = NULL
  Key = {k1}
  Inter = {i1}
  WithSps = {k1}
  FifoLimit = 1
  MaxResets = 1
  MaxOutages = 1
  HeadersFirst = FALSE
SPECIFICATION FairSpec
INVARIANTS HeldIsTheOldest OneLossPerReset
PROPERTIES FreedSentOnlyDuringReset StopCompletes EventuallySent

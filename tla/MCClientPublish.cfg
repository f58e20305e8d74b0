\* An application that supplies its headers first and never resets; an outage.
\* Frames are dropped from the second queued packet on (75 in the code).
CONSTANTS
  Node = {n1, n2, n3, n4}
  Packet = {k1, i1, i2, a1}
  NULL = NULL
  Key = {k1}
  Inter = {i1, i2}
  WithSps = {k1}
  FifoLimit = 1
  MaxResets = 0
  MaxOutages = 1
  HeadersFirst = TRUE
SPECIFICATION Spec
SYMMETRY Cells
INVARIANTS NothingLost SentInOrder
PROPERTIES HeadersPrecedeMedia DropIsJustified

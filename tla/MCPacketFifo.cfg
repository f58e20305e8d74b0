\* Four cells and five packets: lists of up to four nodes, reuse of cells
\* after pops, clears, releases and leaks.
CONSTANTS
  Node = {n1, n2, n3, n4}
  Packet = {p1, p2, p3, p4, p5}
  NULL = NULL
SPECIFICATION FifoSpec
SYMMETRY HeapSymmetry
INVARIANTS WellLinked QueuedAreAllocated
PROPERTIES LeaksOnlyAnUnseenSingleton ImplementsFifo

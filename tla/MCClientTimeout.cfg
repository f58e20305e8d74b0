\* One packet and one outage show what a timed out send leads to.
CONSTANTS
  Node = {n1}
  Packet = {k1}
  NULL = NULL
  Key = {k1}
  Inter = {}
  WithSps = {k1}
  FifoLimit = 1
  MaxResets = 0
  MaxOutages = 1
  HeadersFirst = TRUE
SPECIFICATION Spec
PROPERTIES ResentToPublishedStream

\* Two peers, one after the other or at once, handshakes that may fail.
CONSTANTS
  Stream = {s1, s2}
  Peer = {p1, p2}
  NULL = NULL
  HandshakesFail = TRUE
SPECIFICATION FairSpec
INVARIANTS OneServingReader NoDescriptorLost CallbacksReachReader
PROPERTIES WildOnlyWhenKnown CloseReturns

\* Two peers whose handshakes succeed.
CONSTANTS
  Stream = {s1, s2}
  Peer = {p1, p2}
  NULL = NULL
  HandshakesFail = FALSE
SPECIFICATION Spec
INVARIANTS RunningIsNotFreed

\* A server that is silent once; nothing else goes wrong.
CONSTANTS
  Extra = {}
  MaxExtra = 0
  MaxFailures = 0
  MaxTimeouts = 0
  MaxSilences = 1
  MaxPackets = 0
SPECIFICATION Spec
INVARIANTS TimeoutEndsSession
CHECK_DEADLOCK FALSE

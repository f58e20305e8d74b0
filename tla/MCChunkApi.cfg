\* A connection lost twice in every way: changeChunkSize in another thread, and
\* packets sent again first on their channel or behind the SPS packet.
CONSTANTS
  Media <- AllMedia
  ConnectSize = 1
  MetaSize = 1
  SpsSize = 3
  Default = 2
  ClientChunk = 3
  ApiChunks = {2}
  MaxApiCalls = 1
  MaxConnections = 3
  Failures = {"failed", "timedout"}
  Modulus = 16
  Extended = 7
SPECIFICATION Spec
INVARIANTS SyncUnlessRacedOrStale DamagedOnlyWhereCut DriftNeedsARepeat
CONSTRAINT OneKind

\* One connection: every way to leave out a header, chunk sizes that change once.
CONSTANTS
  Media <- StreamMedia
  ConnectSize = 5
  MetaSize = 4
  SpsSize = 3
  Default = 2
  ClientChunk = 3
  ApiChunks = {1}
  MaxApiCalls = 0
  MaxConnections = 1
  Failures = {"failed"}
  Modulus = 16
  Extended = 7
SPECIFICATION Spec
INVARIANTS DeliveredAsSent NothingStuck DriftNeedsARepeat

\* The connection: two resets, three connects, and two descriptors that the
\* rest of the process opens.  The headers: four frames with parameter sets,
\* one reset, three connections.
CONSTANTS
  Fd <- FewNumbers
  MaxConnects = 3
  MaxResets = 2
  MaxOpens = 2
  MaxFrames = 4
  SpsLen <- FewSpsLen
  PpsLen <- FewPpsLen
  Overrun = 1
  MaxRestarts = 1
  MaxConnections = 3
SPECIFICATION RacesSpec
INVARIANTS SocketLostOnlyByRace PpsNeverOlder
PROPERTIES OthersHitOnlyWhenKnown WildOnlyWhereShared HeaderAsGiven HeaderSkippedOnlyWhenKnown

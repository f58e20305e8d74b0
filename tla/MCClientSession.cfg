\* The whole session, with everything another server may say once, a lost
\* connection, a send and a read that time out, one packet.
CONSTANTS
  Extra = {"onBWDone", "ping", "_onbwcheck", "_onbwdone", "onFCUnsubscribe", "ctrlPing", "media"}
  MaxExtra = 1
  MaxFailures = 2
  MaxTimeouts = 1
  MaxSilences = 1
  MaxPackets = 1
SPECIFICATION FairSpec
INVARIANTS AnswersMatch PlayingMeansPublished ReadsInSync StaleIdsAreOld
PROPERTIES ImplementsProtocol ComesToPublish
\* The client stops for good when startRtmpClient fails and when it crashes.
CHECK_DEADLOCK FALSE

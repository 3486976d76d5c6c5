SPECIFICATION SfSpec
CONSTANTS SfPeers = {1,2}
 SfAttempts = 2
 SfChats = 0
INVARIANTS SfLiveTracksFannedOut
CHECK_DEADLOCK FALSE

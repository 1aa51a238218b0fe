SPECIFICATION FairSpec
CONSTANTS
  Audio = Audio
  Video = Video
  Owner = Owner
  Syncs = {1, 2}
  MaxHandlers = 2
  MaxDecoderFlushes = 1
  MaxConverge = 1
INVARIANTS TypeOK SyncTogether Settled
PROPERTIES Heeded
CHECK_DEADLOCK FALSE

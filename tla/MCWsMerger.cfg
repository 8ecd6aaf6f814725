\* Five messages, one of which is not JSON, in batches of at most two, channels
\* of one: a lone message waits for its timer, stale timeouts fill timeoutChan.
CONSTANTS
  Items = {i1, i2, i3, i4, i5}
  BadItems = {i5}
  MaxBatchSize = 2
  ChannelSize = 1
SPECIFICATION FairSpec
INVARIANTS
  InOrder
  OpenBatchTimed
  PendingIsBacklog
PROPERTIES
  AcceptedIsHandedOver

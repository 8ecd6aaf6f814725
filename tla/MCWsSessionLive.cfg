\* One connection with frames in both directions, a pusher and a caller of
\* CloseSession: liveness and refinement.
CONSTANTS
  MaxConn = 1
  BucketCount = 1
  InChannelSize = 1
  OutChannelSize = 1
  MaxFrames = 2
  MaxPushes = 2
  Pushers = {p1}
  Closers = {k1}
SPECIFICATION FairSpec
PROPERTIES
  Teardown
  ImplementsDirectory

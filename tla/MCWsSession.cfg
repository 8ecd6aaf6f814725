\* Two connections in one bucket, a pusher and a CloseSession caller.
CONSTANTS
  MaxConn = 2
  BucketCount = 1
  InChannelSize = 1
  OutChannelSize = 1
  MaxFrames = 0
  MaxPushes = 1
  Pushers = {p1}
  Closers = {k1}
SPECIFICATION Spec
INVARIANTS
  CloseOnce
  ClosedHasNoSocket
  EndedIsUnlisted
  PushSeesStableBucket
  OnlineGauge

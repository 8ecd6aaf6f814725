\* Two pushes to all through two buckets of one connection each; one dispatch
\* worker, one job worker per bucket.
CONSTANTS
  AllMsgs = {m1, m2}
  RoomMsgs = {}
  BadMsgs = {}
  Conns = {1, 2}
  BucketCount = 2
  NoJob = NoJob
  DispatchWorkers = {d1}
  JobWorkers = {j1}
  DispatchChannelSize = 1
  BucketJobChannelSize = 2
  OutChannelSize = 1
SYMMETRY Symmetry
SPECIFICATION Spec
INVARIANTS
  AgreedOrder
  JobPendingIsBacklog

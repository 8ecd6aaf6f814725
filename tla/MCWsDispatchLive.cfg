\* A push to all and two to a room, one of which does not encode, through one
\* bucket of two connections and two job workers: liveness and refinement.
CONSTANTS
  AllMsgs = {m1}
  RoomMsgs = {r1, r2}
  BadMsgs = {r2}
  Conns = {1, 2}
  BucketCount = 1
  NoJob = NoJob
  DispatchWorkers = {d1}
  JobWorkers = {j1, j2}
  DispatchChannelSize = 1
  BucketJobChannelSize = 1
  OutChannelSize = 1
SPECIFICATION FairSpec
INVARIANTS
  AudienceServed
  DispatchPendingIsBacklog
PROPERTIES
  ImplementsBroadcast

\* What MaxMergerDelay is documented to guarantee, with a message that is not
\* JSON.
CONSTANTS
  Items = {i1, i2}
  BadItems = {i1}
  MaxBatchSize = 2
  ChannelSize = 1
SPECIFICATION Spec
INVARIANTS
  EveryBatchTimed

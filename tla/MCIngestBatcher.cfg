SPECIFICATION FairSpec
CONSTANTS
  Reqs = {r1, r2}
  NoReq = none
  BatchLen <- MCBatchLen
  ChannelCap = 3
  FlushSize = 3
  ChunkSize = 2
  MaxSends = 2
  MaxUnsavable = 1
INVARIANTS
  TypeOK
  PushNeverBlocks
  CountedOnce
  AllOrNothing
  StopDrains
PROPERTIES
  EveryBatchSettles

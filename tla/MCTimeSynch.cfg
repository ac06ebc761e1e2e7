CONSTANTS
  n1 = n1
  n2 = n2
  n3 = n3
  NoFrame = NoFrame
  Node <- Line
  Authority <- LineAuthority
  InRange <- LineRange
  RawClock <- Clocks
  SeqnoModulus = 9
  MaxOffsets = 3
  Starters <- Ends
  Crashers <- Best
  MaxInits <- Once
  MaxLives = 1
  MaxLosses = 1
SPECIFICATION FairSpec
CHECK_DEADLOCK FALSE
INVARIANTS
  TypeOK
  NobodyFollowsWorse
  LeaderIsWatched
PROPERTIES
  NoRival
  NeighborsAgree
  LeaderLives
  FloodsEnd

CONSTANTS
  n1 = n1
  n2 = n2
  n3 = n3
  n4 = n4
  Sink = Sink
  NoFrame = NoFrame
  Node <- Pair
  Neighbors <- PairNeighbors
  InRange <- PairRange
  SendingQueueLength = 3
  MaxTimesSent = 2
  DupeQueueLength = 3
  Requesters <- Second
  MaxOwn = 2
  MaxFloods = 1
  Crashers <- First
  MaxCrashes = 1
SPECIFICATION Spec
CHECK_DEADLOCK FALSE
INVARIANTS
  NoSlotLost
  NoStalledPacket
  OnlyFirstSent
  DataWaitsForSomeone
  DeliveredOnce
PROPERTIES
  ReservedRoomSuffices

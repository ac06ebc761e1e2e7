CONSTANTS
  n1 = n1
  n2 = n2
  n3 = n3
  n4 = n4
  Sink = Sink
  NoFrame = NoFrame
  Node <- Four
  Neighbors <- LineNeighbors
  InRange <- LineRange
  SendingQueueLength = 3
  MaxTimesSent = 2
  DupeQueueLength = 1
  Requesters <- Second
  MaxOwn = 2
  MaxFloods = 0
  Crashers <- NoNode
  MaxCrashes = 0
SPECIFICATION FairSpec
CHECK_DEADLOCK FALSE
INVARIANTS
  TypeOK
  AckedWasSeen
  DeliveredInOrder
PROPERTIES
  ConfirmedWasDelivered
  ImplementsReliableBroadcast
  QueueDrains

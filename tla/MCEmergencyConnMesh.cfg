CONSTANTS
  n1 = n1
  n2 = n2
  Sink = Sink
  NoNode = NoNode
  Node <- Line
  InRange <- LineRange
  Neighbors <- LineTables
  Receivers <- NobodyCalls
  SendingQueueLength = 4
  DupeQueueLength = 4
  MaxTimesSentMesh = 1
  AlarmedNodes <- NoOne
  Relays <- First
  MaxSinkPackets = 2
  MaxLosses = 0
SPECIFICATION Spec
CHECK_DEADLOCK FALSE
INVARIANT
  FreesWhatIsQueued

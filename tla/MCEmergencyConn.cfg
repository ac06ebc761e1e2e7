CONSTANTS
  n1 = n1
  n2 = n2
  Sink = Sink
  NoNode = NoNode
  Node <- Line
  InRange <- LineRange
  Neighbors <- LineTables
  Receivers <- SinkCallsFirst
  SendingQueueLength = 4
  DupeQueueLength = 4
  MaxTimesSentMesh = 1
  AlarmedNodes <- Second
  Relays <- First
  MaxSinkPackets = 2
  MaxLosses = 1
SPECIFICATION Spec
CHECK_DEADLOCK FALSE
INVARIANTS
  TypeOK
  FloodReaches
  ReportNotStranded
PROPERTIES
  ConfirmedWasHanded

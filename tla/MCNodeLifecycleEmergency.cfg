CONSTANTS
  n1 = n1
  n2 = n2
  n3 = n3
  Sink = Sink
  Node <- Three
  Table <- Triangle
  SinkRange <- Ends
  Exits <- First
  Fresh <- NoOne
  Alarmed <- Second
  MaxCommands = 3
  MaxAlarms = 1
  MaxFaults = 0
SPECIFICATION Spec
CHECK_DEADLOCK FALSE
INVARIANT
  BlinkingHasPath

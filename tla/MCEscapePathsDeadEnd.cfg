CONSTANTS
  n1 = n1
  n2 = n2
  n3 = n3
  n4 = n4
  NoNode = NoNode
  MaxNode = MaxNode
  ExitNode = ExitNode
  Node <- Line
  Table <- LineTable
  ExitNodes <- FirstExit
  NearSink <- FirstExit
  Distance <- NearDistances
  Readings <- Fire
  Exposed <- Third
  Crashers <- NoOne
  Alarmed <- Line
  Lively <- Line
  MaxChecks <- Twice
  MaxInits = 1
  MaxChanges = 1
  MaxLosses = 0
SPECIFICATION Spec
CHECK_DEADLOCK FALSE
INVARIANTS
  LeadsOut

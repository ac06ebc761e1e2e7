CONSTANTS
  n1 = n1
  n2 = n2
  n3 = n3
  n4 = n4
  NoNode = NoNode
  MaxNode = MaxNode
  ExitNode = ExitNode
  Node <- Triangle
  Table <- TriangleTable
  ExitNodes <- FirstExit
  NearSink <- FirstExit
  Distance <- NearDistances
  Readings <- Fire
  Exposed <- FirstExit
  Crashers <- FirstExit
  Alarmed <- ExceptFirst
  Lively <- Third
  MaxChecks <- TwiceButFirst
  MaxInits = 1
  MaxChanges = 1
  MaxLosses = 0
SPECIFICATION Spec
CHECK_DEADLOCK FALSE
INVARIANTS
  CirclesHaveAWayOut
  StopsForAReason

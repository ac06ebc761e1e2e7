CONSTANTS
  n1 = n1
  n2 = n2
  n3 = n3
  n4 = n4
  NoNode = NoNode
  MaxNode = MaxNode
  ExitNode = ExitNode
  Node <- Square
  Table <- SquareTable
  ExitNodes <- FirstExit
  NearSink <- FirstExit
  Distance <- NearDistances
  Readings <- LightAndFires
  Exposed <- Second
  Crashers <- NoOne
  Alarmed <- NoOne
  Lively <- NoOne
  MaxChecks <- Never
  MaxInits = 1
  MaxChanges = 2
  MaxLosses = 1
SPECIFICATION Spec
CHECK_DEADLOCK FALSE
INVARIANTS
  TypeOK
  NeverTooGood
  AnnouncedIsCurrent
  ChosenIsBest
  BurningIsSynched
  ShortestWhenQuiet

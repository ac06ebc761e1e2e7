CONSTANTS
  a = a
  b = b
  NoLine = NoLine
  Node <- TwoNodes
  MaxAlarms = 4
SPECIFICATION Spec
INVARIANTS
  TypeOK
  ShowsLatest
PROPERTIES
  CatchesUp

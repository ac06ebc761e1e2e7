CONSTANTS
  a = a
  b = b
  MaxSize = 4
  Item <- MCItem
SPECIFICATION Spec
INVARIANTS
  TypeOK
  RingIsSound
PROPERTIES
  ImplementsDeque

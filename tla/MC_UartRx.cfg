SPECIFICATION LiveSpec
CONSTANTS
  N = 3
  WORD = 16
  MaxBytes = 7
INVARIANTS
  TypeOK
  SliceInBounds
  StreamExact
PROPERTIES
  Drains
